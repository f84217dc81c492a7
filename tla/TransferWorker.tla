--------------------------- MODULE TransferWorker ---------------------------
(* The worker processes of the remittance platform: DurableJobDispatcher polls *)
(* the job table, WorkerJobProcessor claims a row and carries a transfer       *)
(* through collection and payout at the partner, and status rechecks, partner  *)
(* callbacks and Ops actions reach the same rows from other processes.         *)
(*                                                                             *)
(* One action stands for the code between two awaits: everything a worker read *)
(* in an earlier action may be stale.                                          *)
EXTENDS LifecyclePolicy, Naturals

CONSTANTS
  Transfers,
  Workers,
  MaxRetries,   \* manual payout retries Ops makes on one transfer
  RecheckKeys,  \* dedup keys of status rechecks: callback, admin, time bucket
  ReconKeys,    \* dedup keys of reconciliation jobs
  MaxTries,     \* payout attempts the partner records for one transfer
  Faults,       \* the fault classes a run admits
  Toggled,      \* the operational controls Ops may switch
  NoJob

FaultKinds ==
  {"crash",  \* a worker process dies, or a dispatch aborts, between two awaits
   "throw",  \* a database or decryption call inside process() throws
   "error",  \* the partner refuses a request without acting on it
   "lost",   \* the partner acts and its answer is lost
   "lapse"}  \* a lease runs out under a live worker

ControlKeys == {"GLOBAL", "CORRIDOR_PROVIDER", "COLLECTION", "PAYOUT"}

Jobs ==
  [ref: Transfers, type: {"COLLECTION"}, key: {0}]
    \union [ref: Transfers, type: {"PAYOUT"}, key: 0..MaxRetries]
    \union [ref: Transfers, type: {"STATUS_RECHECK"}, key: RecheckKeys]
    \union [ref: Transfers, type: {"RECONCILIATION"}, key: ReconKeys]

ASSUME WorkerAssumption ==
  /\ MaxRetries \in Nat
  /\ MaxTries \in Nat
  /\ Faults \subseteq FaultKinds
  /\ Toggled \subseteq ControlKeys
  /\ NoJob \notin Jobs

VARIABLES
  status,     \* TransferTransaction.status
  code,       \* TransferTransaction.partnerReference
  ledger,     \* balanced pairs posted, by lifecycle event
  recon,      \* TransactionReconciliation.status
  session,    \* the WhatsApp session that owns the transfer
  intent,     \* outcome carried by the transfer.resolved notification
  jobStatus,  \* WorkerJob.status; "LAPSED" is RUNNING past leaseExpiresAt
  controls,   \* the pilot controls that are ENABLED
  col,        \* the partner's record of the collection
  pay,        \* the partner's record of the latest payout attempt
  tries,      \* payout attempts the partner has recorded
  pc,         \* where each worker stands in process()
  job,        \* the row it has claimed
  mem,        \* what it has read or been answered
  batch       \* rows of its last findMany not yet processed

transferVars == <<status, code, ledger, recon, session, intent>>
partnerVars == <<col, pay, tries>>
workerVars == <<pc, job, mem, batch>>
vars == <<transferVars, jobStatus, controls, partnerVars, workerVars>>

(* ------------------------------- Vocabulary ------------------------------- *)

NoCode == 0
CollectionCode == 1
PayoutCode(n) == n + 1

CollectionJob(t) == [ref |-> t, type |-> "COLLECTION", key |-> 0]
PayoutJob(t) == [ref |-> t, type |-> "PAYOUT", key |-> 0]
RetryJob(t, k) == [ref |-> t, type |-> "PAYOUT", key |-> k]
RecheckJob(t, k) == [ref |-> t, type |-> "STATUS_RECHECK", key |-> k]
ReconJob(t, k) == [ref |-> t, type |-> "RECONCILIATION", key |-> k]
MovesMoney(j) == j.type \in {"COLLECTION", "PAYOUT"}
ManualPayout(j) == j.type = "PAYOUT" /\ j.key # 0

Phases == {"COLLECTION", "PAYOUT"}
PartnerStates == {"PENDING", "COMPLETE", "FAILED"}
Refusals == {"RETRYABLE", "REJECTED"}
Findings == {"NONE", "CONSISTENT", "MISSING_COLLECTION_ENTRY",
             "MISSING_PAYOUT_ENTRY"}

Blank == [seen |-> "ABSENT", code |-> NoCode, answer |-> "NONE",
          finding |-> "NONE"]

(* PretiumHttpClient.initiationStatus and status: the word of the partner, read *)
(* in the phase the caller names.                                              *)
StatusOf(phase, answer) ==
  IF phase = "COLLECTION"
  THEN CASE answer = "PENDING"  -> "PENDING_COLLECTION"
         [] answer = "COMPLETE" -> "COLLECTION_SUCCESS"
         [] OTHER               -> "COLLECTION_FAILED"
  ELSE CASE answer = "PENDING"  -> "PENDING_PAYOUT"
         [] answer = "COMPLETE" -> "PAYOUT_SUCCESS"
         [] OTHER               -> "PAYOUT_FAILED"

ProcessingStatus(j) == StatusOf(j.type, "PENDING")

(* A recheck asks about the payout only in PENDING_PAYOUT.                     *)
RecheckPhase(s) == IF s = "PENDING_PAYOUT" THEN "PAYOUT" ELSE "COLLECTION"

(* Mutants of FailureStatus: the row's FAILED instead of the transfer's; every  *)
(* failure taken for a failed payout.                                          *)
FailureStatusOfRow(j) ==
  IF j.type = "COLLECTION" THEN "COLLECTION_FAILED" ELSE "FAILED"
FailureStatusPayout(j) == "PAYOUT_FAILED"

(* What fail() writes: any job but a collection fails the payout.              *)
FailureStatus(j) ==
  IF j.type = "COLLECTION" THEN "COLLECTION_FAILED" ELSE "PAYOUT_FAILED"

(* Mutant of EventOf: the early return for other statuses is missing.          *)
EventOfAny(s) ==
  IF s = "COLLECTION_SUCCESS" THEN {"collection"} ELSE {"payout"}

(* The ledger event a status stands for.                                       *)
EventOf(s) ==
  CASE s = "COLLECTION_SUCCESS" -> {"collection"}
    [] s = "PAYOUT_SUCCESS"     -> {"payout"}
    [] OTHER                    -> {}

(* LedgerService.deriveReconciliation; a posted pair is always balanced.       *)
Derive(s, entries) ==
  IF /\ s \in {"COLLECTION_SUCCESS", "PENDING_PAYOUT", "PAYOUT_SUCCESS"}
     /\ "collection" \notin entries
  THEN "MISSING_COLLECTION_ENTRY"
  ELSE IF s = "PAYOUT_SUCCESS" /\ "payout" \notin entries
  THEN "MISSING_PAYOUT_ENTRY"
  ELSE "CONSISTENT"

RequiredControls(j) ==
  IF ManualPayout(j) THEN {"CORRIDOR_PROVIDER"}
  ELSE {"GLOBAL", "CORRIDOR_PROVIDER", j.type}

(* A row a create or an upsert with an empty update may insert. Rechecks and    *)
(* reconciliations get a new row for each key: a finished one that no worker    *)
(* can touch again gives its place to the next.                                *)
Fresh(j) ==
  \/ jobStatus[j] = "ABSENT"
  \/ /\ jobStatus[j] = "SUCCEEDED"
     /\ ~MovesMoney(j)
     /\ \A w \in Workers : job[w] # j /\ j \notin batch[w]

Enqueue(rows, S) ==
  [j \in Jobs |-> IF j \in S /\ Fresh(j) THEN "PENDING" ELSE rows[j]]

Eligible ==
  {j \in Jobs : \/ jobStatus[j] = "PENDING"
                \/ jobStatus[j] = "FAILED" /\ j.type # "PAYOUT"}

(* Mutant of Claimable: the lease of a running row is not looked at.           *)
ClaimableWhileRunning(j) ==
  jobStatus[j] \in {"PENDING", "FAILED", "RUNNING", "LAPSED"}

Claimable(j) == jobStatus[j] \in {"PENDING", "FAILED", "LAPSED"}

(* The return of process(): the dispatcher goes on with its batch.             *)
Return(w) ==
  /\ pc' = [pc EXCEPT ![w] = "idle"]
  /\ job' = [job EXCEPT ![w] = NoJob]
  /\ mem' = [mem EXCEPT ![w] = Blank]
  /\ UNCHANGED batch

Goto(w, label) ==
  /\ pc' = [pc EXCEPT ![w] = label]
  /\ UNCHANGED <<job, batch>>

Remember(w, m) == mem' = [mem EXCEPT ![w] = m]

SetJob(w, s) == jobStatus' = [jobStatus EXCEPT ![job[w]] = s]

Labels ==
  {"idle", "gate", "read", "mark", "call", "settle", "commit", "lookup",
   "confirm", "record", "reconcile", "persist", "resolve", "caught"}

(* Between these labels the claimed row is still RUNNING for its worker.       *)
HoldingLabels ==
  {"gate", "read", "mark", "call", "settle", "commit", "lookup", "confirm"}

Init ==
  /\ status = [t \in Transfers |-> "ABSENT"]
  /\ code = [t \in Transfers |-> NoCode]
  /\ ledger = [t \in Transfers |-> {}]
  /\ recon = [t \in Transfers |-> "NONE"]
  /\ session = [t \in Transfers |-> "ABSENT"]
  /\ intent = [t \in Transfers |-> "NONE"]
  /\ jobStatus = [j \in Jobs |-> "ABSENT"]
  /\ controls = ControlKeys
  /\ col = [t \in Transfers |-> "NONE"]
  /\ pay = [t \in Transfers |-> "NONE"]
  /\ tries = [t \in Transfers |-> 0]
  /\ pc = [w \in Workers |-> "idle"]
  /\ job = [w \in Workers |-> NoJob]
  /\ mem = [w \in Workers |-> Blank]
  /\ batch = [w \in Workers |-> {}]

(* --------------------- What other processes write ------------------------- *)

(* TransferInitiationService commits the transfer, its collection job and the  *)
(* session's ownership together.                                               *)
Initiate(t) ==
  /\ status[t] = "ABSENT"
  /\ status' = [status EXCEPT ![t] = "INITIATED"]
  /\ session' = [session EXCEPT ![t] = "ACTIVE"]
  /\ jobStatus' = Enqueue(jobStatus, {CollectionJob(t)})
  /\ UNCHANGED <<code, ledger, recon, intent, controls, partnerVars, workerVars>>

(* A callback that names a known code; it only asks for a recheck, and only if *)
(* its word, read in the current phase, would be a new allowed status.         *)
Webhook(t, word, k) ==
  LET phase == IF status[t] \in {"PENDING_PAYOUT", "PAYOUT_SUCCESS",
                                 "PAYOUT_FAILED"}
               THEN "PAYOUT" ELSE "COLLECTION"
      told == StatusOf(phase, word)
  IN /\ code[t] # NoCode
     /\ status[t] \notin ClosedStatuses
     /\ told # status[t]
     /\ CanTransition(status[t], told)
     /\ jobStatus' = Enqueue(jobStatus, {RecheckJob(t, k)})
     /\ UNCHANGED <<transferVars, controls, partnerVars, workerVars>>

(* Ops may ask for a recheck of a transfer in any state.                       *)
AdminRecheck(t, k) ==
  /\ status[t] # "ABSENT"
  /\ Fresh(RecheckJob(t, k))
  /\ jobStatus' = Enqueue(jobStatus, {RecheckJob(t, k)})
  /\ UNCHANGED <<transferVars, controls, partnerVars, workerVars>>

(* queueReconciliation has one row per transfer, key 0, and puts it back to    *)
(* PENDING whatever its state, even under a worker that is running it.         *)
AdminReconcile(t) ==
  /\ 0 \in ReconKeys
  /\ status[t] # "ABSENT"
  /\ jobStatus' = [jobStatus EXCEPT ![ReconJob(t, 0)] = "PENDING"]
  /\ UNCHANGED <<transferVars, controls, partnerVars, workerVars>>

(* prepareManualPayoutRetry: a conditional update and a new job, atomically.   *)
ManualRetry(t, k) ==
  /\ CanRetryPayout(status[t])
  /\ jobStatus[RetryJob(t, k)] = "ABSENT"
  /\ status' = [status EXCEPT ![t] = "PENDING_PAYOUT"]
  /\ jobStatus' = Enqueue(jobStatus, {RetryJob(t, k)})
  /\ UNCHANGED <<code, ledger, recon, session, intent, controls, partnerVars,
                 workerVars>>

Switch(c) ==
  /\ controls' = IF c \in controls THEN controls \ {c} ELSE controls \union {c}
  /\ UNCHANGED <<transferVars, jobStatus, partnerVars, workerVars>>

(* The partner completes or rejects what it accepted as pending.               *)
Settle(t) ==
  /\ \/ /\ col[t] = "PENDING"
        /\ \E r \in {"COMPLETE", "FAILED"} : col' = [col EXCEPT ![t] = r]
        /\ UNCHANGED pay
     \/ /\ pay[t] = "PENDING"
        /\ \E r \in {"COMPLETE", "FAILED"} : pay' = [pay EXCEPT ![t] = r]
        /\ UNCHANGED col
  /\ UNCHANGED <<transferVars, jobStatus, controls, tries, workerVars>>

LeaseLapses(j) ==
  /\ jobStatus[j] = "RUNNING"
  /\ "lapse" \in Faults \/ \A w \in Workers : job[w] # j
  /\ jobStatus' = [jobStatus EXCEPT ![j] = "LAPSED"]
  /\ UNCHANGED <<transferVars, controls, partnerVars, workerVars>>

(* ------------------------------ The dispatcher ----------------------------- *)

(* Mutant of SweptStatuses: payouts are not swept.                             *)
SweptCollections == {"PENDING_COLLECTION"}

SweptStatuses == {"PENDING_COLLECTION", "PENDING_PAYOUT"}

RecheckSweep(w, k) ==
  LET rows == {RecheckJob(t, k) :
                 t \in {u \in Transfers : status[u] \in SweptStatuses}}
  IN /\ pc[w] = "idle" /\ batch[w] = {}
     /\ \E j \in rows : Fresh(j)
     /\ jobStatus' = Enqueue(jobStatus, rows)
     /\ UNCHANGED <<transferVars, controls, partnerVars, workerVars>>

ReconSweep(w, k) ==
  LET rows == {ReconJob(t, k) : t \in {u \in Transfers : status[u] \in
                 PostCollection \union {"COLLECTION_FAILED"}}}
  IN /\ pc[w] = "idle" /\ batch[w] = {}
     /\ \E j \in rows : Fresh(j)
     /\ jobStatus' = Enqueue(jobStatus, rows)
     /\ UNCHANGED <<transferVars, controls, partnerVars, workerVars>>

Poll(w) ==
  /\ pc[w] = "idle" /\ batch[w] = {} /\ Eligible # {}
  /\ batch' = [batch EXCEPT ![w] = Eligible]
  /\ UNCHANGED <<transferVars, jobStatus, controls, partnerVars, pc, job, mem>>

(* The conditional updateMany that takes the lease.                            *)
Claim(w, j) ==
  /\ pc[w] = "idle" /\ j \in batch[w]
  /\ Claimable(j)
  /\ jobStatus' = [jobStatus EXCEPT ![j] = "RUNNING"]
  /\ batch' = [batch EXCEPT ![w] = @ \ {j}]
  /\ pc' = [pc EXCEPT ![w] = IF MovesMoney(j) THEN "gate" ELSE "read"]
  /\ job' = [job EXCEPT ![w] = j]
  /\ UNCHANGED <<transferVars, controls, partnerVars, mem>>

SkipClaimed(w, j) ==
  /\ pc[w] = "idle" /\ j \in batch[w]
  /\ ~Claimable(j)
  /\ batch' = [batch EXCEPT ![w] = @ \ {j}]
  /\ UNCHANGED <<transferVars, jobStatus, controls, partnerVars, pc, job, mem>>

(* ------------------------------- process() --------------------------------- *)

PauseJob(w) ==
  /\ pc[w] = "gate"
  /\ ~(RequiredControls(job[w]) \subseteq controls)
  /\ SetJob(w, "PENDING")
  /\ Return(w)
  /\ UNCHANGED <<transferVars, controls, partnerVars>>

PassGate(w) ==
  /\ pc[w] = "gate"
  /\ RequiredControls(job[w]) \subseteq controls
  /\ Goto(w, "read")
  /\ UNCHANGED <<transferVars, jobStatus, controls, partnerVars, mem>>

ReadTransfer(w) ==
  LET t == job[w].ref
      next == CASE MovesMoney(job[w]) -> "mark"
                [] job[w].type = "STATUS_RECHECK" -> "lookup"
                [] OTHER -> "reconcile"
  IN /\ pc[w] = "read"
     /\ Remember(w, [mem[w] EXCEPT !.seen = status[t], !.code = code[t]])
     /\ Goto(w, next)
     /\ UNCHANGED <<transferVars, jobStatus, controls, partnerVars>>

(* A DomainError only fails the row; the transfer is left alone.               *)
RejectJob(w) ==
  /\ SetJob(w, "FAILED")
  /\ Return(w)
  /\ UNCHANGED <<transferVars, controls, partnerVars>>

RejectMark(w) ==
  /\ pc[w] = "mark"
  /\ ~CanTransition(mem[w].seen, ProcessingStatus(job[w]))
  /\ RejectJob(w)

(* The unconditional write of the processing status.                           *)
MarkProcessing(w) ==
  LET t == job[w].ref
      to == ProcessingStatus(job[w])
  IN /\ pc[w] = "mark"
     /\ CanTransition(mem[w].seen, to)
     /\ status' = IF mem[w].seen = to THEN status
                  ELSE [status EXCEPT ![t] = to]
     /\ Goto(w, "call")
     /\ UNCHANGED <<code, ledger, recon, session, intent, jobStatus, controls,
                    partnerVars, mem>>

(* The words a caller can get when the partner's record is r: r itself, or an  *)
(* error that hides it.                                                        *)
Heard(r) == {r} \union (IF "lost" \in Faults THEN Refusals ELSE {})

(* partner.collect. The transfer's reference is the partner's idempotency key: *)
(* a second request finds the first record.                                    *)
CallCollect(w) ==
  LET t == job[w].ref
  IN /\ pc[w] = "call" /\ job[w].type = "COLLECTION"
     /\ \/ \E r \in PartnerStates :
             /\ col[t] \in {"NONE", r}
             /\ col' = [col EXCEPT ![t] = r]
             /\ \E a \in Heard(r) :
                  Remember(w, [mem[w] EXCEPT !.answer = a, !.code = CollectionCode])
        \/ /\ "error" \in Faults
           /\ \E a \in Refusals : Remember(w, [mem[w] EXCEPT !.answer = a])
           /\ UNCHANGED col
     /\ Goto(w, "settle")
     /\ UNCHANGED <<transferVars, jobStatus, controls, pay, tries>>

(* partner.payout. A pending or completed payout is found again by reference;  *)
(* after a failed one the partner opens a new attempt.                         *)
CallPayout(w) ==
  LET t == job[w].ref
      new == pay[t] \in {"NONE", "FAILED"}
      n == IF new THEN tries[t] + 1 ELSE tries[t]
  IN /\ pc[w] = "call" /\ job[w].type = "PAYOUT"
     /\ \/ \E r \in PartnerStates :
             /\ n <= MaxTries
             /\ new \/ pay[t] = r
             /\ pay' = [pay EXCEPT ![t] = r]
             /\ tries' = [tries EXCEPT ![t] = n]
             /\ \E a \in Heard(r) :
                  Remember(w, [mem[w] EXCEPT !.answer = a, !.code = PayoutCode(n)])
        \/ /\ "error" \in Faults
           /\ \E a \in Refusals : Remember(w, [mem[w] EXCEPT !.answer = a])
           /\ UNCHANGED <<pay, tries>>
     /\ Goto(w, "settle")
     /\ UNCHANGED <<transferVars, jobStatus, controls, col>>

(* fail(): the transfer and the row in one transaction.                        *)
FailTransfer(w, label) ==
  LET t == job[w].ref
      to == FailureStatus(job[w])
  IN /\ status' = [status EXCEPT ![t] = to]
     /\ SetJob(w, "FAILED")
     /\ Remember(w, [Blank EXCEPT !.seen = to])
     /\ Goto(w, label)
     /\ UNCHANGED <<code, ledger, recon, session, intent, controls, partnerVars>>

RetryableCollection(w) ==
  job[w].type = "COLLECTION" /\ mem[w].answer = "RETRYABLE"

KeepPending(w) ==
  /\ pc[w] = "settle"
  /\ RetryableCollection(w)
  /\ RejectJob(w)

Refused(w) ==
  /\ pc[w] = "settle"
  /\ mem[w].answer \in Refusals
  /\ ~RetryableCollection(w)
  /\ FailTransfer(w, "resolve")

(* A terminal failure the partner itself reports.                              *)
RecordFailure(w) ==
  LET t == job[w].ref
      to == StatusOf(job[w].type, "FAILED")
  IN /\ pc[w] = "settle"
     /\ mem[w].answer = "FAILED"
     /\ status' = [status EXCEPT ![t] = to]
     /\ code' = [code EXCEPT ![t] = mem[w].code]
     /\ SetJob(w, "SUCCEEDED")
     /\ Remember(w, [Blank EXCEPT !.seen = to])
     /\ Goto(w, "resolve")
     /\ UNCHANGED <<ledger, recon, session, intent, controls, partnerVars>>

(* Accepted but pending: the provider's code is kept and a recheck queued. What *)
(* is left is an audit record, which may still throw.                          *)
RecordPending(w, k) ==
  LET t == job[w].ref
      to == ProcessingStatus(job[w])
  IN /\ pc[w] = "settle"
     /\ mem[w].answer = "PENDING"
     /\ status' = [status EXCEPT ![t] = to]
     /\ code' = [code EXCEPT ![t] = mem[w].code]
     /\ jobStatus' = Enqueue([jobStatus EXCEPT ![job[w]] = "SUCCEEDED"],
                             {RecheckJob(t, k)})
     /\ Remember(w, [Blank EXCEPT !.seen = to])
     /\ Goto(w, "resolve")
     /\ UNCHANGED <<ledger, recon, session, intent, controls, partnerVars>>

(* The ledger pair is posted before the status it belongs to.                  *)
PostEntries(w) ==
  LET t == job[w].ref
  IN /\ pc[w] = "settle"
     /\ mem[w].answer = "COMPLETE"
     /\ ledger' = [ledger EXCEPT ![t] =
                     @ \union EventOf(StatusOf(job[w].type, "COMPLETE"))]
     /\ Goto(w, "commit")
     /\ UNCHANGED <<status, code, recon, session, intent, jobStatus, controls,
                    partnerVars, mem>>

CommitSuccess(w) ==
  LET t == job[w].ref
      to == StatusOf(job[w].type, "COMPLETE")
      next == IF job[w].type = "COLLECTION" THEN {PayoutJob(t)} ELSE {}
  IN /\ pc[w] = "commit"
     /\ status' = [status EXCEPT ![t] = to]
     /\ code' = [code EXCEPT ![t] = mem[w].code]
     /\ jobStatus' = Enqueue([jobStatus EXCEPT ![job[w]] = "SUCCEEDED"], next)
     /\ Remember(w, [Blank EXCEPT !.seen = to])
     /\ Goto(w, "reconcile")
     /\ UNCHANGED <<ledger, recon, session, intent, controls, partnerVars>>

(* What the partner knows of a code in one rail: nothing, or one record. With  *)
(* no code stored the lookup carries the transfer's own reference.             *)
KnownRecords(t, c, phase) ==
  IF phase = "COLLECTION"
  THEN IF c \in {NoCode, CollectionCode} THEN {col[t]} \ {"NONE"} ELSE {}
  ELSE IF c \in {NoCode, CollectionCode} THEN {}
       ELSE IF c = PayoutCode(tries[t]) THEN {pay[t]} \ {"NONE"}
            ELSE {"FAILED"}

(* partner.status.                                                             *)
Lookup(w) ==
  LET t == job[w].ref
      known == KnownRecords(t, mem[w].code, RecheckPhase(mem[w].seen))
  IN /\ pc[w] = "lookup"
     /\ \/ \E r \in known :
             Remember(w, [mem[w] EXCEPT !.answer = r, !.code =
                              IF @ = NoCode THEN CollectionCode ELSE @])
        \/ /\ known = {} \/ "error" \in Faults
           /\ Remember(w, [mem[w] EXCEPT !.answer = "REJECTED"])
     /\ Goto(w, "confirm")
     /\ UNCHANGED <<transferVars, jobStatus, controls, partnerVars>>

Confirmed(w) == StatusOf(RecheckPhase(mem[w].seen), mem[w].answer)

LookupFailed(w) ==
  /\ pc[w] = "confirm"
  /\ \/ mem[w].answer \in Refusals
     \/ ~CanTransition(mem[w].seen, Confirmed(w))
  /\ RejectJob(w)

(* Mutant of AfterConfirm: the ledger step is forgotten.                       *)
AfterConfirmUnposted(to) ==
  IF EventOf(to) # {} THEN "reconcile" ELSE "resolve"

(* Only a success has entries to post.                                         *)
AfterConfirm(to) == IF EventOf(to) # {} THEN "record" ELSE "resolve"

(* The transition is checked against the status read before the lookup, the    *)
(* write that follows is unconditional.                                        *)
ConfirmStatus(w) ==
  LET t == job[w].ref
      to == Confirmed(w)
      next == IF to = "COLLECTION_SUCCESS" THEN {PayoutJob(t)} ELSE {}
  IN /\ pc[w] = "confirm"
     /\ mem[w].answer \in PartnerStates
     /\ CanTransition(mem[w].seen, to)
     /\ status' = [status EXCEPT ![t] = to]
     /\ code' = [code EXCEPT ![t] = mem[w].code]
     /\ jobStatus' = Enqueue([jobStatus EXCEPT ![job[w]] = "SUCCEEDED"], next)
     /\ Remember(w, [Blank EXCEPT !.seen = to])
     /\ Goto(w, AfterConfirm(to))
     /\ UNCHANGED <<ledger, recon, session, intent, controls, partnerVars>>

(* recordLifecycleSuccess posts after the status, unlike PostEntries.          *)
RecordSuccess(w) ==
  LET t == job[w].ref
  IN /\ pc[w] = "record"
     /\ ledger' = [ledger EXCEPT ![t] = @ \union EventOf(mem[w].seen)]
     /\ Goto(w, "reconcile")
     /\ UNCHANGED <<status, code, recon, session, intent, jobStatus, controls,
                    partnerVars, mem>>

(* persistReconciliation: one read of the status with the entries, ...         *)
DeriveFinding(w) ==
  LET t == job[w].ref
  IN /\ pc[w] = "reconcile"
     /\ Remember(w, [mem[w] EXCEPT !.finding = Derive(status[t], ledger[t])])
     /\ Goto(w, "persist")
     /\ UNCHANGED <<transferVars, jobStatus, controls, partnerVars>>

(* ... and a later upsert of what was derived.                                 *)
PersistFinding(w) ==
  LET t == job[w].ref
  IN /\ pc[w] = "persist"
     /\ recon' = [recon EXCEPT ![t] = mem[w].finding]
     /\ IF job[w].type = "RECONCILIATION"
        THEN SetJob(w, "SUCCEEDED") /\ Return(w)
        ELSE /\ Remember(w, [mem[w] EXCEPT !.finding = "NONE"])
             /\ Goto(w, "resolve")
             /\ UNCHANGED jobStatus
     /\ UNCHANGED <<status, code, ledger, session, intent, controls, partnerVars>>

(* resolveWaitingSession: a closing outcome releases the chat and notifies the *)
(* sender once per transfer.                                                   *)
ResolveSession(w) ==
  LET t == job[w].ref
      closes == mem[w].seen \in ClosedStatuses
  IN /\ pc[w] \in {"resolve", "caught"}
     /\ session' = IF closes THEN [session EXCEPT ![t] = "CLOSED"] ELSE session
     /\ intent' = IF closes /\ intent[t] = "NONE"
                  THEN [intent EXCEPT ![t] = mem[w].seen] ELSE intent
     /\ Return(w)
     /\ UNCHANGED <<status, code, ledger, recon, jobStatus, controls, partnerVars>>

(* ------------------------------- Faults ------------------------------------ *)

(* An error that is not a DomainError: the catch block fails the transfer from *)
(* whatever state it is in.                                                    *)
Throw(w) ==
  /\ "throw" \in Faults
  /\ pc[w] \notin {"idle", "caught"}
  /\ FailTransfer(w, "caught")

(* The process dies, or an error escapes process(): the row stays RUNNING, or  *)
(* whatever it was last set to, and the rest of the batch is forgotten.        *)
Crash(w) ==
  /\ "crash" \in Faults
  /\ pc[w] # "idle"
  /\ pc' = [pc EXCEPT ![w] = "idle"]
  /\ job' = [job EXCEPT ![w] = NoJob]
  /\ mem' = [mem EXCEPT ![w] = Blank]
  /\ batch' = [batch EXCEPT ![w] = {}]
  /\ UNCHANGED <<transferVars, jobStatus, controls, partnerVars>>

Process(w) ==
  \/ PauseJob(w) \/ PassGate(w) \/ ReadTransfer(w)
  \/ RejectMark(w) \/ MarkProcessing(w)
  \/ CallCollect(w) \/ CallPayout(w)
  \/ KeepPending(w) \/ Refused(w) \/ RecordFailure(w)
  \/ \E k \in RecheckKeys : RecordPending(w, k)
  \/ PostEntries(w) \/ CommitSuccess(w)
  \/ Lookup(w) \/ LookupFailed(w) \/ ConfirmStatus(w) \/ RecordSuccess(w)
  \/ DeriveFinding(w) \/ PersistFinding(w) \/ ResolveSession(w)

Dispatch(w) ==
  \/ Poll(w)
  \/ \E j \in batch[w] : Claim(w, j) \/ SkipClaimed(w, j)

Environment ==
  \/ \E t \in Transfers :
       \/ Initiate(t)
       \/ \E word \in PartnerStates, k \in RecheckKeys : Webhook(t, word, k)
       \/ \E k \in RecheckKeys : AdminRecheck(t, k)
       \/ AdminReconcile(t)
       \/ \E k \in 1..MaxRetries : ManualRetry(t, k)
       \/ Settle(t)
  \/ \E c \in Toggled : Switch(c)
  \/ \E j \in Jobs : LeaseLapses(j)

Next ==
  \/ Environment
  \/ \E w \in Workers :
       \/ Dispatch(w)
       \/ \E k \in RecheckKeys : RecheckSweep(w, k)
       \/ \E k \in ReconKeys \ {0} : ReconSweep(w, k)
       \/ Process(w)
       \/ Throw(w)
       \/ Crash(w)

Spec == Init /\ [][Next]_vars

(* ------------------------------ Properties --------------------------------- *)

MemType ==
  [seen: Statuses \union {"ABSENT"}, code: Nat,
   answer: PartnerStates \union Refusals \union {"NONE"}, finding: Findings]

(* Every variable keeps its type.                                              *)
TypeOK ==
  /\ status \in [Transfers -> Statuses \union {"ABSENT"}]
  /\ code \in [Transfers -> Nat]
  /\ ledger \in [Transfers -> SUBSET {"collection", "payout"}]
  /\ recon \in [Transfers -> Findings]
  /\ session \in [Transfers -> {"ABSENT", "ACTIVE", "CLOSED"}]
  /\ intent \in [Transfers -> ClosedStatuses \union {"NONE"}]
  /\ jobStatus \in [Jobs -> {"ABSENT", "PENDING", "RUNNING", "LAPSED",
                             "SUCCEEDED", "FAILED"}]
  /\ controls \subseteq ControlKeys
  /\ col \in [Transfers -> PartnerStates \union {"NONE"}]
  /\ pay \in [Transfers -> PartnerStates \union {"NONE"}]
  /\ tries \in [Transfers -> Nat]
  /\ pc \in [Workers -> Labels]
  /\ job \in [Workers -> Jobs \union {NoJob}]
  /\ \A w \in Workers : job[w] = NoJob <=> pc[w] = "idle"
  /\ mem \in [Workers -> MemType]
  /\ batch \in [Workers -> SUBSET Jobs]

(* A transfer that has entered the payout half of its lifecycle, and a payout   *)
(* the partner has been asked for, both mean that the partner completed the     *)
(* collection. The chain behind it is job -> status -> recheck phase -> status, *)
(* across workers that act on stale reads.                                     *)
CollectedBeforePayout ==
  \A t \in Transfers :
    (status[t] \in PostCollection \/ pay[t] # "NONE") => col[t] = "COMPLETE"

(* The ledger holds a pair only for money the partner moved, and a transfer is  *)
(* successful only if the partner paid it out, whatever fails and whoever races.*)
BackedByPartner ==
  \A t \in Transfers :
    /\ "collection" \in ledger[t] => col[t] = "COMPLETE"
    /\ "payout" \in ledger[t] => pay[t] = "COMPLETE"
    /\ status[t] = "PAYOUT_SUCCESS" => pay[t] = "COMPLETE"

(* The lease: until a worker has written the outcome of a row, no other worker  *)
(* holds the same row. (Ops may reset a reconciliation row under its worker.)   *)
ExclusiveClaim ==
  \A v, w \in Workers :
    /\ v # w /\ job[v] = job[w]
    /\ pc[v] \in HoldingLabels /\ pc[w] \in HoldingLabels
    => job[v].type = "RECONCILIATION"

Busy(t) == \E w \in Workers : pc[w] # "idle" /\ job[w].ref = t

(* Once no worker is on a transfer, a closed one has released its chat and has  *)
(* a notification, and a success has both ledger pairs: the steps after the     *)
(* status commit are not skipped unless a process dies or a call throws.        *)
SettledBooks ==
  \A t \in Transfers : ~Busy(t) =>
    /\ status[t] \in ClosedStatuses =>
         session[t] = "CLOSED" /\ intent[t] # "NONE"
    /\ status[t] \in {"COLLECTION_SUCCESS", "PENDING_PAYOUT",
                      "PAYOUT_SUCCESS"} => "collection" \in ledger[t]
    /\ status[t] = "PAYOUT_SUCCESS" => "payout" \in ledger[t]

(* Reconciliation never reports a missing entry of a transfer whose steps all   *)
(* ran: with one worker no job sees the gap between a status and its entries.   *)
NoFalseAlarm == \A t \in Transfers : recon[t] \in {"NONE", "CONSISTENT"}

(* What the sender is told stays true: a success or a failed collection that    *)
(* was announced is never undone. (A failed payout may be retried.)            *)
ToldTruth ==
  \A t \in Transfers :
    intent[t] \in {"PAYOUT_SUCCESS", "COLLECTION_FAILED"} =>
      status[t] = intent[t] /\ session[t] = "CLOSED"

(* A payout recorded as successful stays so.                                   *)
SuccessIsFinal ==
  [][\A t \in Transfers : status[t] = "PAYOUT_SUCCESS" =>
       status'[t] = "PAYOUT_SUCCESS"]_vars

(* The worker implements the platform's promise.                               *)
Promise ==
  INSTANCE TransferPromise WITH
    collected <- {t \in Transfers : col[t] = "COMPLETE"},
    paid <- {t \in Transfers : pay[t] = "COMPLETE"}
KeepsPromise == Promise!Spec

(* The dispatcher's timer runs process() again and again, sweeps come due, and  *)
(* the partner settles what it accepted.                                       *)
Fairness ==
  /\ \A w \in Workers :
       /\ WF_vars(Dispatch(w) \/ Process(w))
       /\ SF_vars(\E k \in RecheckKeys : RecheckSweep(w, k))
  /\ \A t \in Transfers : WF_vars(Settle(t))

FairSpec == Spec /\ Fairness

(* Every accepted transfer is closed in the end, by collection, payout, recheck *)
(* and sweep together.                                                         *)
EventuallyClosed ==
  \A t \in Transfers :
    status[t] = "INITIATED" ~> status[t] \in ClosedStatuses
=============================================================================
