------------------------ MODULE TransferPromise_proofs ------------------------
(* What the worker promises to the sender and to the books.                     *)
(*  - The status and what the sender is told: a status written from a stale     *)
(*    read is what breaks these promises, so they are proved for a single       *)
(*    worker process, the pilot's deployment, whatever else runs beside it:     *)
(*    Ops, callbacks, the partner, crashes, lost answers and lapsing leases.    *)
(*  - The books of a settled transfer: for any number of workers, as long as    *)
(*    none is cut off or throws between two steps of a job.                     *)
(*  - The findings: under both hypotheses.                                      *)
EXTENDS TransferOrder_proofs

(* ---------------------- A worker whose reads are not stale ------------------ *)

(* What the worker remembers of the status is still true, except of a transfer  *)
(* that had not begun and of a failed payout, which others may move on; and     *)
(* from the mark to the commit the transfer is in its processing status.        *)
StatusIs(w) ==
  LET t == job[w].ref
  IN /\ pc[w] # "caught"
     /\ pc[w] \in {"mark", "lookup", "confirm", "record", "reconcile", "persist",
                   "resolve"} =>
          mem[w].seen \in {"ABSENT", "PAYOUT_FAILED", status[t]}
     /\ pc[w] \in {"call", "settle", "commit"} =>
          status[t] = ProcessingStatus(job[w])

CollectedKnown == \A t \in Transfers : col[t] # "NONE" => status[t] # "ABSENT"

PromiseInv ==
  /\ OrderInv
  /\ CollectedKnown
  /\ \A w \in Workers : StatusIs(w)

(* A status write that follows the lifecycle.                                   *)
Lifecycle(from, to) ==
  \/ from = to
  \/ from = "ABSENT" /\ to = "INITIATED"
  \/ <<from, to>> \in AllowedTransitions
  \/ CanRetryPayout(from) /\ to = "PENDING_PAYOUT"

(* All a step can do to what the sender and the partner see: nothing, move one  *)
(* transfer along the lifecycle, or move the partner's record of one.           *)
Rests == UNCHANGED <<status, col, pay>>

MovesOn ==
  /\ \E t \in Transfers, to \in Statuses :
       /\ Lifecycle(status[t], to)
       /\ status' = [status EXCEPT ![t] = to]
  /\ UNCHANGED <<col, pay>>

PartnerActs ==
  /\ \E t \in Transfers, r \in PartnerStates :
       /\ status[t] # "ABSENT"
       /\ \/ col' = [col EXCEPT ![t] = r] /\ UNCHANGED pay
          \/ pay' = [pay EXCEPT ![t] = r] /\ UNCHANGED col
  /\ UNCHANGED status

OneStep == Rests \/ MovesOn \/ PartnerActs

(* The transitions a job takes: its processing status leads to what it records. *)
LEMMA JobTransitions ==
  ASSUME NEW j, MovesMoney(j)
  PROVE  /\ Lifecycle(ProcessingStatus(j), FailureStatus(j))
         /\ Lifecycle(ProcessingStatus(j), StatusOf(j.type, "FAILED"))
         /\ Lifecycle(ProcessingStatus(j), StatusOf(j.type, "COMPLETE"))
         /\ \A s : CanTransition(s, ProcessingStatus(j)) =>
              Lifecycle(s, ProcessingStatus(j)) /\ s \notin {"ABSENT", "PAYOUT_FAILED"}
  BY DEF MovesMoney, ProcessingStatus, FailureStatus, StatusOf, Lifecycle,
     CanTransition, AllowedTransitions

(* A recheck of a transfer that is absent or whose payout failed changes nothing.*)
LEMMA RecheckTransitions ==
  \A s, a : CanTransition(s, StatusOf(RecheckPhase(s), a)) =>
    /\ Lifecycle(s, StatusOf(RecheckPhase(s), a))
    /\ s \notin {"ABSENT", "PAYOUT_FAILED"}
  BY DEF CanTransition, AllowedTransitions, StatusOf, RecheckPhase, Lifecycle

(* Where a lifecycle step may lead.                                             *)
LEMMA LifecycleFacts ==
  \A from, to : Lifecycle(from, to) /\ from # to =>
    /\ to # "ABSENT" /\ to \in Statuses
    /\ from \notin {"PAYOUT_SUCCESS", "COLLECTION_FAILED"}
  BY DEF Lifecycle, AllowedTransitions, CanRetryPayout, Statuses, PreCollection,
     PostCollection

LEMMA PromiseEnvironment ==
  ASSUME PromiseInv, Environment
  PROVE  OneStep /\ \A w \in Workers : StatusIs(w)'
<1> USE DEF vars, transferVars, partnerVars, workerVars
<1>0. /\ status \in [Transfers -> Statuses \union {"ABSENT"}]
      /\ UNCHANGED workerVars
  BY DEF PromiseInv, OrderInv, BackedInv, TypeOK, Environment, Initiate, Webhook,
     AdminRecheck, AdminReconcile, ManualRetry, Switch, Settle, LeaseLapses
<1>1. ASSUME NEW t \in Transfers, NEW to \in Statuses,
             \/ status[t] = "ABSENT" /\ to = "INITIATED"
             \/ status[t] = "PAYOUT_FAILED" /\ to = "PENDING_PAYOUT",
             status' = [status EXCEPT ![t] = to], UNCHANGED <<col, pay>>
      PROVE  OneStep /\ \A w \in Workers : StatusIs(w)'
  <2>1. MovesOn
    BY <1>1 DEF MovesOn, Lifecycle, CanRetryPayout
  <2>2. ASSUME NEW w \in Workers PROVE StatusIs(w)'
    <3>1. StatusIs(w) /\ (pc[w] # "idle" => job[w].ref \in Transfers)
      BY BusyWorker DEF PromiseInv, OrderInv, BackedInv
    <3>2. \A j : ProcessingStatus(j) \notin {"ABSENT", "PAYOUT_FAILED"}
      BY DEF ProcessingStatus, StatusOf
    <3> QED  BY <1>0, <1>1, <3>1, <3>2 DEF StatusIs
  <2> QED  BY <2>1, <2>2 DEF OneStep
<1>2. ASSUME UNCHANGED status
      PROVE  \A w \in Workers : StatusIs(w)'
  BY <1>0, <1>2 DEF PromiseInv, StatusIs
<1>3. ASSUME NEW t \in Transfers, Initiate(t)
      PROVE  OneStep /\ \A w \in Workers : StatusIs(w)'
  BY <1>1, <1>3, StatusTypes DEF Initiate
<1>4. ASSUME NEW t \in Transfers, NEW k, ManualRetry(t, k)
      PROVE  OneStep /\ \A w \in Workers : StatusIs(w)'
  BY <1>1, <1>4, StatusTypes DEF ManualRetry, CanRetryPayout
<1>5. ASSUME NEW t \in Transfers, Settle(t)
      PROVE  OneStep /\ \A w \in Workers : StatusIs(w)'
  <2>1. status[t] # "ABSENT"
    <3>1. CASE col[t] = "PENDING"
      BY <3>1 DEF PromiseInv, CollectedKnown
    <3>2. CASE pay[t] = "PENDING"
      BY <3>2 DEF PromiseInv, CollectedKnown, OrderInv, CollectedBeforePayout
    <3> QED  BY <1>5, <3>1, <3>2 DEF Settle
  <2>2. PartnerActs
    BY <1>5, <2>1 DEF Settle, PartnerActs, PartnerStates
  <2> QED  BY <1>2, <2>2 DEF OneStep, PartnerActs
<1>6. ASSUME NEW t \in Transfers,
             \/ \E word \in PartnerStates, k \in RecheckKeys : Webhook(t, word, k)
             \/ \E k \in RecheckKeys : AdminRecheck(t, k)
             \/ AdminReconcile(t)
      PROVE  Rests
  BY <1>6 DEF Rests, Webhook, AdminRecheck, AdminReconcile
<1>7. ASSUME (\E c \in Toggled : Switch(c)) \/ (\E j \in Jobs : LeaseLapses(j))
      PROVE  Rests
  BY <1>7 DEF Rests, Switch, LeaseLapses
<1> QED
  BY <1>2, <1>3, <1>4, <1>5, <1>6, <1>7 DEF Environment, OneStep, Rests

LEMMA PromiseProcess ==
  ASSUME PromiseInv, NEW w \in Workers,
         Process(w) \/ Dispatch(w) \/ Sweep(w) \/ Crash(w)
  PROVE  OneStep /\ StatusIs(w)'
<1> USE DEF vars, transferVars, partnerVars, workerVars
<1> DEFINE t == job[w].ref
<1>0. /\ pc \in [Workers -> Labels] /\ mem \in [Workers -> MemType]
      /\ job \in [Workers -> Jobs \union {NoJob}]
      /\ status \in [Transfers -> Statuses \union {"ABSENT"}]
      /\ col \in [Transfers -> PartnerStates \union {"NONE"}]
      /\ pay \in [Transfers -> PartnerStates \union {"NONE"}]
  BY DEF PromiseInv, OrderInv, BackedInv, TypeOK
<1>k. TypeOK /\ StatusIs(w) /\ HearsTruth(w) /\ mem[w] \in MemType
  BY DEF PromiseInv, OrderInv, BackedInv, TypeOK
<1>r. pc[w] # "idle" => t \in Transfers
  BY <1>k, BusyWorker
(* A write of the status, remembered or followed by the call.                   *)
<1>w. ASSUME NEW to \in Statuses, Lifecycle(status[t], to), t \in Transfers,
             status' = [status EXCEPT ![t] = to], UNCHANGED <<col, pay, job>>,
             \/ Remember(w, [Blank EXCEPT !.seen = to]) /\ pc'[w] \in
                  {"record", "reconcile", "resolve"}
             \/ pc'[w] = "call" /\ to = ProcessingStatus(job[w])
      PROVE  OneStep /\ StatusIs(w)'
  <2>1. MovesOn /\ status'[t] = to
    BY <1>0, <1>w DEF MovesOn
  <2>2. CASE Remember(w, [Blank EXCEPT !.seen = to])
    <3>1. mem'[w].seen = to
      BY <2>2, <1>k, Recalls DEF Blank
    <3> QED  BY <1>w, <2>1, <3>1 DEF OneStep, StatusIs
  <2>3. CASE pc'[w] = "call" /\ to = ProcessingStatus(job[w])
    BY <1>w, <2>1, <2>3 DEF OneStep, StatusIs
  <2> QED  BY <1>w, <2>2, <2>3
<1>1. CASE Dispatch(w)
  <2>1. Rests /\ pc'[w] \in {"idle", "gate", "read"}
    BY <1>0, <1>1 DEF Dispatch, Poll, Claim, SkipClaimed, Rests
  <2> QED  BY <2>1 DEF OneStep, StatusIs
<1>2. CASE Sweep(w) \/ Crash(w) \/ PauseJob(w) \/ PassGate(w) \/ RejectMark(w)
           \/ KeepPending(w) \/ LookupFailed(w) \/ ResolveSession(w)
  <2>1. Rests /\ pc'[w] \in {"idle", "gate", "read"}
    BY <1>0, <1>2 DEF Sweep, RecheckSweep, ReconSweep, Crash, PauseJob, PassGate,
       RejectMark, KeepPending, LookupFailed, ResolveSession, RejectJob, Goto,
       Return, Rests
  <2> QED  BY <2>1 DEF OneStep, StatusIs
<1>3. CASE ReadTransfer(w)
  <2>1. /\ Rests /\ job' = job /\ pc'[w] \in {"mark", "lookup", "reconcile"}
        /\ Remember(w, [mem[w] EXCEPT !.seen = status[t], !.code = code[t]])
    BY <1>0, <1>3 DEF ReadTransfer, Goto, Rests
  <2>2. mem'[w] = [mem[w] EXCEPT !.seen = status[t], !.code = code[t]]
    BY <2>1, <1>k, Recalls
  <2>3. mem'[w].seen = status[t]
    BY <2>2, <1>k DEF MemType
  <2> QED  BY <2>1, <2>3 DEF OneStep, StatusIs, Rests
<1>4. CASE MarkProcessing(w)
  <2> DEFINE to == ProcessingStatus(job[w])
  <2>1. /\ pc[w] = "mark" /\ MovesMoney(job[w]) /\ CanTransition(mem[w].seen, to)
        /\ status' = status \/ status' = [status EXCEPT ![t] = to]
        /\ mem[w].seen = to => status' = status
        /\ pc'[w] = "call" /\ UNCHANGED <<col, pay, job>>
    BY <1>0, <1>4, <1>k DEF MarkProcessing, Goto, HearsTruth
  <2>2. /\ status[t] = mem[w].seen /\ Lifecycle(status[t], to)
        /\ to \in Statuses /\ t \in Transfers
    BY <2>1, <1>k, <1>r, JobTransitions, StatusTypes DEF StatusIs
  <2>3. status' = [status EXCEPT ![t] = to]
    BY <2>1, <2>2, <1>0, <1>4 DEF MarkProcessing
  <2> HIDE DEF to
  <2> QED  BY <2>1, <2>2, <2>3, <1>w DEF to
<1>5. CASE CallCollect(w)
  <2>1. /\ pc[w] = "call" /\ pc'[w] = "settle" /\ UNCHANGED <<status, pay, job>>
        /\ \/ \E r \in PartnerStates : col' = [col EXCEPT ![t] = r]
           \/ UNCHANGED col
    BY <1>0, <1>5 DEF CallCollect, Goto
  <2>2. status[t] = ProcessingStatus(job[w]) /\ status[t] # "ABSENT"
    BY <2>1, <1>k DEF StatusIs, ProcessingStatus, StatusOf
  <2>3. PartnerActs \/ Rests
    BY <2>1, <2>2, <1>r DEF PartnerActs, Rests
  <2> QED  BY <2>1, <2>2, <2>3 DEF OneStep, StatusIs
<1>6. CASE CallPayout(w)
  <2>1. /\ pc[w] = "call" /\ pc'[w] = "settle" /\ UNCHANGED <<status, col, job>>
        /\ \/ \E r \in PartnerStates : pay' = [pay EXCEPT ![t] = r]
           \/ UNCHANGED pay
    BY <1>0, <1>6 DEF CallPayout, Goto
  <2>2. status[t] = ProcessingStatus(job[w]) /\ status[t] # "ABSENT"
    BY <2>1, <1>k DEF StatusIs, ProcessingStatus, StatusOf
  <2>3. PartnerActs \/ Rests
    BY <2>1, <2>2, <1>r DEF PartnerActs, Rests
  <2> QED  BY <2>1, <2>2, <2>3 DEF OneStep, StatusIs
<1>7. CASE Refused(w)
  <2> DEFINE to == FailureStatus(job[w])
  <2>1. /\ pc[w] = "settle" /\ MovesMoney(job[w])
        /\ status' = [status EXCEPT ![t] = to] /\ UNCHANGED <<col, pay, job>>
        /\ Remember(w, [Blank EXCEPT !.seen = to]) /\ pc'[w] = "resolve"
    BY <1>0, <1>7, <1>k DEF Refused, FailTransfer, Goto, HearsTruth
  <2>2. to \in Statuses /\ Lifecycle(status[t], to) /\ t \in Transfers
    BY <2>1, <1>k, <1>r, JobTransitions, StatusTypes DEF StatusIs
  <2> HIDE DEF to
  <2> QED  BY <2>1, <2>2, <1>w
<1>8. CASE RecordFailure(w)
  <2> DEFINE to == StatusOf(job[w].type, "FAILED")
  <2>1. /\ pc[w] = "settle" /\ MovesMoney(job[w])
        /\ status' = [status EXCEPT ![t] = to] /\ UNCHANGED <<col, pay, job>>
        /\ Remember(w, [Blank EXCEPT !.seen = to]) /\ pc'[w] = "resolve"
    BY <1>0, <1>8, <1>k DEF RecordFailure, Goto, HearsTruth
  <2>2. to \in Statuses /\ Lifecycle(status[t], to) /\ t \in Transfers
    BY <2>1, <1>k, <1>r, JobTransitions, StatusTypes DEF StatusIs
  <2> HIDE DEF to
  <2> QED  BY <2>1, <2>2, <1>w
<1>9. CASE \E k \in RecheckKeys : RecordPending(w, k)
  <2> DEFINE to == ProcessingStatus(job[w])
  <2>1. /\ pc[w] = "settle"
        /\ status' = [status EXCEPT ![t] = to] /\ UNCHANGED <<col, pay, job>>
        /\ Remember(w, [Blank EXCEPT !.seen = to]) /\ pc'[w] = "resolve"
    BY <1>0, <1>9 DEF RecordPending, Goto
  <2>2. to \in Statuses /\ Lifecycle(status[t], to) /\ t \in Transfers
    BY <2>1, <1>k, <1>r, StatusTypes DEF StatusIs, Lifecycle
  <2> HIDE DEF to
  <2> QED  BY <2>1, <2>2, <1>w
<1>10. CASE CommitSuccess(w)
  <2> DEFINE to == StatusOf(job[w].type, "COMPLETE")
  <2>1. /\ pc[w] = "commit" /\ MovesMoney(job[w])
        /\ status' = [status EXCEPT ![t] = to] /\ UNCHANGED <<col, pay, job>>
        /\ Remember(w, [Blank EXCEPT !.seen = to]) /\ pc'[w] = "reconcile"
    BY <1>0, <1>10, <1>k DEF CommitSuccess, Goto, HearsTruth
  <2>2. to \in Statuses /\ Lifecycle(status[t], to) /\ t \in Transfers
    BY <2>1, <1>k, <1>r, JobTransitions, StatusTypes DEF StatusIs
  <2> HIDE DEF to
  <2> QED  BY <2>1, <2>2, <1>w
<1>11. CASE PostEntries(w)
  <2>1. /\ Rests /\ job' = job /\ pc[w] = "settle" /\ pc'[w] = "commit"
    BY <1>0, <1>11 DEF PostEntries, Goto, Rests
  <2> QED  BY <2>1, <1>k DEF OneStep, StatusIs, Rests
<1>12. CASE Lookup(w)
  <2>1. /\ Rests /\ job' = job /\ pc[w] = "lookup" /\ pc'[w] = "confirm"
    BY <1>0, <1>12 DEF Lookup, Goto, Rests
  <2>2. \E a, n : \/ Remember(w, [mem[w] EXCEPT !.answer = a])
                  \/ Remember(w, [mem[w] EXCEPT !.answer = a, !.code = n])
    BY <1>12 DEF Lookup
  <2>3. mem'[w].seen = mem[w].seen
    BY <2>2, <1>k, Answers
  <2> QED  BY <2>1, <2>3, <1>k DEF OneStep, StatusIs, Rests
<1>13. CASE ConfirmStatus(w)
  <2> DEFINE to == Confirmed(w)
  <2>1. /\ pc[w] = "confirm" /\ CanTransition(mem[w].seen, to)
        /\ status' = [status EXCEPT ![t] = to] /\ UNCHANGED <<col, pay, job>>
        /\ Remember(w, [Blank EXCEPT !.seen = to])
        /\ pc'[w] \in {"record", "resolve"}
    BY <1>0, <1>13 DEF ConfirmStatus, Goto, AfterConfirm
  <2>2. /\ Lifecycle(mem[w].seen, to) /\ to \in Statuses /\ t \in Transfers
        /\ mem[w].seen \notin {"ABSENT", "PAYOUT_FAILED"}
    BY <2>1, <1>r, RecheckTransitions, StatusTypes DEF Confirmed
  <2>3. Lifecycle(status[t], to)
    BY <2>1, <2>2, <1>k DEF StatusIs
  <2> HIDE DEF to
  <2> QED  BY <2>1, <2>2, <2>3, <1>w
<1>14. CASE RecordSuccess(w) \/ DeriveFinding(w) \/ PersistFinding(w)
  <2>1. /\ Rests
        /\ pc[w] \in {"record", "reconcile", "persist"}
        /\ \/ pc'[w] = "idle"
           \/ /\ pc'[w] \in {"reconcile", "persist", "resolve"} /\ job' = job
              /\ mem' = mem \/ \E f : Remember(w, [mem[w] EXCEPT !.finding = f])
    BY <1>0, <1>14 DEF RecordSuccess, DeriveFinding, PersistFinding, Goto, Return,
       Rests
  <2>2. \A f : [mem[w] EXCEPT !.finding = f].seen = mem[w].seen
    BY <1>k DEF MemType
  <2>3. pc'[w] = "idle" \/ (job' = job /\ mem'[w].seen = mem[w].seen)
    BY <2>1, <2>2, <1>k, Recalls
  <2> QED  BY <2>1, <2>3, <1>k DEF OneStep, StatusIs, Rests
<1> QED
  BY <1>1, <1>2, <1>3, <1>4, <1>5, <1>6, <1>7, <1>8, <1>9, <1>10, <1>11, <1>12,
     <1>13, <1>14 DEF Process

OneWorker == \A v, w \in Workers : v = w

LEMMA PromiseStep ==
  ASSUME "throw" \notin Faults, OneWorker, PromiseInv, [Next]_vars
  PROVE  OneStep /\ PromiseInv'
<1>1. OrderInv'
  BY OrderStep DEF PromiseInv
<1>2. OneStep /\ \A w \in Workers : StatusIs(w)'
  <2>1. CASE UNCHANGED vars
    BY <2>1 DEF vars, transferVars, partnerVars, workerVars, OneStep, Rests,
       PromiseInv, StatusIs
  <2>2. CASE Environment
    BY <2>2, PromiseEnvironment
  <2>3. ASSUME NEW w \in Workers,
               Process(w) \/ Dispatch(w) \/ Sweep(w) \/ Crash(w)
        PROVE  OneStep /\ \A v \in Workers : StatusIs(v)'
    <3>1. OneStep /\ StatusIs(w)'
      BY <2>3, PromiseProcess
    <3>2. \A v \in Workers : v = w
      BY DEF OneWorker
    <3> QED  BY <3>1, <3>2
  <2>4. \A w \in Workers : ~Throw(w)
    BY DEF Throw
  <2> QED  BY <2>1, <2>2, <2>3, <2>4 DEF Next, Sweep
<1>3. CollectedKnown'
  <2>1. /\ status \in [Transfers -> Statuses \union {"ABSENT"}]
        /\ col \in [Transfers -> PartnerStates \union {"NONE"}]
        /\ CollectedKnown
    BY DEF PromiseInv, OrderInv, BackedInv, TypeOK
  <2>2. CASE Rests
    BY <2>1, <2>2 DEF Rests, CollectedKnown
  <2>3. CASE MovesOn
    BY <2>1, <2>3, LifecycleFacts DEF MovesOn, CollectedKnown
  <2>4. CASE PartnerActs
    BY <2>1, <2>4 DEF PartnerActs, CollectedKnown
  <2> QED  BY <1>2, <2>2, <2>3, <2>4 DEF OneStep
<1> QED  BY <1>1, <1>2, <1>3 DEF PromiseInv

LEMMA PromiseInit == Init => PromiseInv
  BY OrderInit DEF Init, PromiseInv, CollectedKnown, StatusIs

(* --------------------------- The promise is kept --------------------------- *)

LEMMA AbstractInit == Init => Promise!Init
<1> SUFFICES ASSUME Init PROVE Promise!Init
  OBVIOUS
<1>1. ASSUME NEW t \in Transfers PROVE col[t] # "COMPLETE" /\ pay[t] # "COMPLETE"
  BY DEF Init
<1> QED  BY <1>1 DEF Init, Promise!Init

(* A step of the worker is a step of the promise or leaves all of it alone.     *)
LEMMA AbstractStep ==
  ASSUME PromiseInv, PromiseInv', OneStep, MoneyStays
  PROVE  [Promise!Next]_(Promise!promiseVars)
<1> DEFINE collected == {t \in Transfers : col[t] = "COMPLETE"}
           paid == {t \in Transfers : pay[t] = "COMPLETE"}
<1>0. /\ status \in [Transfers -> Statuses \union {"ABSENT"}]
      /\ col \in [Transfers -> PartnerStates \union {"NONE"}]
      /\ pay \in [Transfers -> PartnerStates \union {"NONE"}]
      /\ CollectedBeforePayout' /\ BackedByPartner'
  BY DEF PromiseInv, OrderInv, BackedInv, TypeOK
<1>s. ASSUME UNCHANGED <<status, col, pay>>
      PROVE  UNCHANGED Promise!promiseVars
  BY <1>s DEF Promise!promiseVars
<1>1. CASE Rests
  BY <1>1, <1>s DEF Rests
<1>2. CASE MovesOn
  <2>1. PICK t \in Transfers, to \in Statuses :
          Lifecycle(status[t], to) /\ status' = [status EXCEPT ![t] = to]
    BY <1>2 DEF MovesOn
  <2>2. UNCHANGED <<col, pay>> /\ status'[t] = to
    BY <1>0, <1>2, <2>1 DEF MovesOn
  <2>3. UNCHANGED <<collected, paid>>
    BY <2>2
  <2>4. CASE status[t] = to
    <3>1. UNCHANGED status
      BY <1>0, <2>1, <2>4
    <3> QED  BY <1>s, <2>2, <3>1
  <2>5. CASE status[t] = "ABSENT" /\ to = "INITIATED"
    BY <2>1, <2>3, <2>5 DEF Promise!Next, Promise!Accept
  <2>6. CASE <<status[t], to>> \in AllowedTransitions
    <3>1. to = "COLLECTION_SUCCESS" => t \in collected
      BY <1>0, <2>2 DEF CollectedBeforePayout, PostCollection
    <3>2. to = "PAYOUT_SUCCESS" => t \in paid
      BY <1>0, <2>2 DEF BackedByPartner
    <3>3. Promise!Advance(t, to)
      BY <2>1, <2>3, <2>6, <3>1, <3>2
         DEF Promise!Advance, Promise!AllowedTransitions, AllowedTransitions
    <3>4. to \in Promise!Statuses
      BY DEF Promise!Statuses, Promise!PreCollection, Promise!PostCollection,
         Statuses, PreCollection, PostCollection
    <3> QED  BY <3>3, <3>4 DEF Promise!Next
  <2>7. CASE CanRetryPayout(status[t]) /\ to = "PENDING_PAYOUT"
    BY <2>1, <2>3, <2>7
       DEF Promise!Next, Promise!RetryPayout, Promise!CanRetryPayout, CanRetryPayout
  <2> QED  BY <2>1, <2>4, <2>5, <2>6, <2>7 DEF Lifecycle
<1>3. CASE PartnerActs
  <2>1. PICK t \in Transfers, r \in PartnerStates :
          /\ status[t] # "ABSENT"
          /\ \/ col' = [col EXCEPT ![t] = r] /\ UNCHANGED pay
             \/ pay' = [pay EXCEPT ![t] = r] /\ UNCHANGED col
    BY <1>3 DEF PartnerActs
  <2>2. UNCHANGED status
    BY <1>3 DEF PartnerActs
  <2>3. CASE col' = [col EXCEPT ![t] = r] /\ UNCHANGED pay
    <3>1. collected' = collected \/ collected' = collected \union {t}
      BY <1>0, <2>3 DEF MoneyStays
    <3>2. paid' = paid
      BY <2>3
    <3>3. CASE collected' = collected
      BY <2>2, <3>2, <3>3 DEF Promise!promiseVars
    <3>4. CASE collected' = collected \union {t}
      BY <2>1, <2>2, <3>2, <3>4 DEF Promise!Next, Promise!Collect
    <3> QED  BY <3>1, <3>3, <3>4
  <2>4. CASE pay' = [pay EXCEPT ![t] = r] /\ UNCHANGED col
    <3>1. paid' = paid \/ paid' = paid \union {t}
      BY <1>0, <2>4 DEF MoneyStays
    <3>2. collected' = collected
      BY <2>4
    <3>3. t \in collected
      BY <1>0, <2>4 DEF CollectedBeforePayout, PartnerStates
    <3>4. CASE paid' = paid
      BY <2>2, <3>2, <3>4 DEF Promise!promiseVars
    <3>5. CASE paid' = paid \union {t}
      BY <2>1, <2>2, <3>2, <3>3, <3>5 DEF Promise!Next, Promise!Disburse
    <3> QED  BY <3>1, <3>4, <3>5
  <2> QED  BY <2>1, <2>3, <2>4
<1> QED  BY <1>1, <1>2, <1>3 DEF OneStep

(* With one worker process the whole of process(), its crashes and the partner's *)
(* lost answers implement the promise: statuses move along the lifecycle only,  *)
(* every success is backed, and the partner pays from what it collected.        *)
THEOREM WorkerKeepsPromise ==
  ASSUME "throw" \notin Faults, OneWorker
  PROVE  Spec => KeepsPromise
<1>1. PromiseInv /\ [Next]_vars => OneStep /\ PromiseInv'
  BY PromiseStep
<1>2. PromiseInv /\ [Next]_vars => MoneyStays
  BY MoneyStaysNext DEF PromiseInv, OrderInv, BackedInv
<1>3. PromiseInv /\ [Next]_vars => [Promise!Next]_(Promise!promiseVars)
  BY <1>1, <1>2, AbstractStep
<1>4. PromiseInv /\ [Next]_vars => PromiseInv'
  BY <1>1
<1> QED
  BY <1>3, <1>4, PromiseInit, AbstractInit, PTL DEF Spec, KeepsPromise, Promise!Spec

(* With one worker process a payout recorded as successful stays so.            *)
THEOREM SuccessStays ==
  ASSUME "throw" \notin Faults, OneWorker
  PROVE  Spec => SuccessIsFinal
<1> DEFINE Kept == \A t \in Transfers : status[t] = "PAYOUT_SUCCESS" =>
                     status'[t] = "PAYOUT_SUCCESS"
<1>1. PromiseInv /\ [Next]_vars => PromiseInv' /\ [Kept]_vars
  <2> SUFFICES ASSUME PromiseInv, [Next]_vars
               PROVE  PromiseInv' /\ Kept
    OBVIOUS
  <2>1. PromiseInv' /\ OneStep
    BY PromiseStep
  <2>2. status \in [Transfers -> Statuses \union {"ABSENT"}]
    BY DEF PromiseInv, OrderInv, BackedInv, TypeOK
  <2>3. Kept
    BY <2>1, <2>2, LifecycleFacts DEF OneStep, Rests, MovesOn, PartnerActs
  <2> QED  BY <2>1, <2>3
<1> QED  BY <1>1, PromiseInit, PTL DEF Spec, SuccessIsFinal

(* ---------------------------- What the sender is told ----------------------- *)

(* A worker tells the sender of a transfer what it remembers, if that closes it. *)
Tells(w, t) ==
  /\ ResolveSession(w) /\ job[w].ref = t /\ mem[w].seen \in ClosedStatuses
  /\ UNCHANGED status
  /\ session'[t] = "CLOSED"
  /\ intent'[t] = IF intent[t] = "NONE" THEN mem[w].seen ELSE intent[t]

(* Only ResolveSession tells, and the chat is otherwise left alone once taken.  *)
LEMMA WhoTells ==
  ASSUME TypeOK, [Next]_vars, NEW t \in Transfers
  PROVE  \/ intent'[t] = intent[t] /\ session'[t] = session[t]
         \/ Initiate(t) /\ intent'[t] = intent[t]
         \/ \E w \in Workers : Tells(w, t)
<1> USE DEF vars, transferVars, partnerVars, workerVars
<1>0. /\ session \in [Transfers -> {"ABSENT", "ACTIVE", "CLOSED"}]
      /\ intent \in [Transfers -> ClosedStatuses \union {"NONE"}]
  BY DEF TypeOK
<1>1. ASSUME NEW u \in Transfers, Initiate(u)
      PROVE  intent'[t] = intent[t] /\ (session'[t] = session[t] \/ u = t)
  BY <1>0, <1>1 DEF Initiate
<1>2. ASSUME NEW w \in Workers, ResolveSession(w)
      PROVE  \/ intent'[t] = intent[t] /\ session'[t] = session[t]
             \/ Tells(w, t)
  <2>1. job[w].ref \in Transfers
    BY <1>2, BusyWorker DEF ResolveSession
  <2>2. CASE mem[w].seen \in ClosedStatuses /\ t = job[w].ref
    BY <1>0, <1>2, <2>2 DEF ResolveSession, Tells
  <2>3. CASE mem[w].seen \notin ClosedStatuses \/ t # job[w].ref
    BY <1>0, <1>2, <2>3 DEF ResolveSession
  <2> QED  BY <2>2, <2>3
<1>3. ASSUME Environment, \A u \in Transfers : ~Initiate(u)
      PROVE  UNCHANGED <<session, intent>>
  BY <1>3 DEF Environment, Webhook, AdminRecheck, AdminReconcile, ManualRetry,
     Switch, Settle, LeaseLapses
<1>4. ASSUME NEW w \in Workers, Dispatch(w) \/ Sweep(w) \/ Throw(w) \/ Crash(w)
      PROVE  UNCHANGED <<session, intent>>
  BY <1>4 DEF Dispatch, Sweep, Poll, Claim, SkipClaimed, RecheckSweep, ReconSweep,
     Throw, FailTransfer, Crash
<1>5. ASSUME NEW w \in Workers, Process(w), ~ResolveSession(w)
      PROVE  UNCHANGED <<session, intent>>
  BY <1>5 DEF Process, PauseJob, PassGate, ReadTransfer, RejectMark, RejectJob,
     MarkProcessing, CallCollect, CallPayout, KeepPending, Refused, FailTransfer,
     RecordFailure, RecordPending, PostEntries, CommitSuccess, Lookup, LookupFailed,
     ConfirmStatus, RecordSuccess, DeriveFinding, PersistFinding
<1>6. CASE UNCHANGED vars
  BY <1>6
<1> QED  BY <1>1, <1>2, <1>3, <1>4, <1>5, <1>6 DEF Next, Sweep

(* With one worker process a success or a failed collection that a sender was   *)
(* told of is never undone, and the chat stays released.                        *)
THEOREM TellsTheTruth ==
  ASSUME "throw" \notin Faults, OneWorker
  PROVE  Spec => []ToldTruth
<1> DEFINE Inv == PromiseInv /\ ToldTruth
<1>1. Init => Inv
  BY PromiseInit DEF Init, ToldTruth
<1>2. Inv /\ [Next]_vars => Inv'
  <2> SUFFICES ASSUME PromiseInv, ToldTruth, [Next]_vars
               PROVE  PromiseInv' /\ ToldTruth'
    OBVIOUS
  <2>1. PromiseInv' /\ OneStep
    BY PromiseStep
  <2> SUFFICES ASSUME NEW t \in Transfers,
                      intent'[t] \in {"PAYOUT_SUCCESS", "COLLECTION_FAILED"}
               PROVE  status'[t] = intent'[t] /\ session'[t] = "CLOSED"
    BY <2>1 DEF ToldTruth
  <2>2. status \in [Transfers -> Statuses \union {"ABSENT"}]
    BY DEF PromiseInv, OrderInv, BackedInv, TypeOK
  <2>3. status[t] \in {"PAYOUT_SUCCESS", "COLLECTION_FAILED"} => status'[t] = status[t]
    BY <2>1, <2>2, LifecycleFacts DEF OneStep, Rests, MovesOn, PartnerActs
  <2>4. CASE intent'[t] = intent[t] /\ session'[t] = session[t]
    BY <2>3, <2>4 DEF ToldTruth
  <2>5. CASE Initiate(t) /\ intent'[t] = intent[t]
    BY <2>5 DEF Initiate, ToldTruth
  <2>6. ASSUME NEW w \in Workers, Tells(w, t)
        PROVE  status'[t] = intent'[t] /\ session'[t] = "CLOSED"
    <3>1. pc[w] = "resolve" /\ StatusIs(w)
      BY <2>6 DEF PromiseInv, StatusIs, Tells, ResolveSession
    <3>2. mem[w].seen \in {"PAYOUT_FAILED", status[t]}
      BY <2>6, <3>1 DEF StatusIs, Tells, ClosedStatuses
    <3> QED  BY <2>3, <2>6, <3>2 DEF Tells, ToldTruth
  <2> QED
    BY <2>4, <2>5, <2>6, WhoTells DEF PromiseInv, OrderInv, BackedInv
<1>3. Inv => ToldTruth
  OBVIOUS
<1> QED  BY <1>1, <1>2, <1>3, PTL DEF Spec

(* ------------------------------- The books ---------------------------------- *)

(* The pair of a success is in the ledger, or a worker is about to post it.     *)
Posting(t, s) ==
  \E w \in Workers : pc[w] = "record" /\ job[w].ref = t /\ mem[w].seen = s

CollectionPosted(t) ==
  "collection" \in ledger[t] \/ Posting(t, "COLLECTION_SUCCESS")

PayoutPosted(t) == "payout" \in ledger[t] \/ Posting(t, "PAYOUT_SUCCESS")

(* A worker that committed a closing outcome goes on to release the chat.       *)
AfterCommit == {"record", "reconcile", "persist", "resolve"}

Closing(w) ==
  /\ pc[w] \in AfterCommit
  /\ job[w].type # "RECONCILIATION"
  /\ mem[w].seen \in ClosedStatuses

Told(t) ==
  \/ session[t] = "CLOSED" /\ intent[t] # "NONE"
  \/ \E w \in Workers : Closing(w) /\ job[w].ref = t

StatusPosted(t) ==
  /\ status[t] \in PostCollection => CollectionPosted(t)
  /\ status[t] = "PAYOUT_SUCCESS" => PayoutPosted(t)
  /\ status[t] \in ClosedStatuses => Told(t)

PayoutRowsPosted ==
  \A j \in Jobs : j.type = "PAYOUT" /\ Known(j) => CollectionPosted(j.ref)

(* What a worker goes by has been posted; and the labels of a transfer's own    *)
(* jobs and rechecks are not those of a reconciliation.                         *)
GoesByPosted(w) ==
  /\ mem[w].seen \in PostCollection =>
       pc[w] # "idle" /\ CollectionPosted(job[w].ref)
  /\ pc[w] = "commit" =>
       EventOf(StatusOf(job[w].type, "COMPLETE")) \subseteq ledger[job[w].ref]
  /\ pc[w] \in {"lookup", "confirm"} => job[w].type # "RECONCILIATION"

BooksInv ==
  /\ BackedInv
  /\ RowsKnown
  /\ \A t \in Transfers : StatusPosted(t)
  /\ PayoutRowsPosted
  /\ \A w \in Workers : GoesByPosted(w)

(* Past its commit a worker goes straight on, one label at a time.              *)
LEMMA GoesOn ==
  ASSUME TypeOK, [Next]_vars, "throw" \notin Faults, "crash" \notin Faults,
         NEW v \in Workers, pc[v] \in AfterCommit,
         pc[v] = "record" \/ job[v].type # "RECONCILIATION"
  PROVE  \/ ResolveSession(v) /\ pc[v] = "resolve"
         \/ /\ job'[v] = job[v] /\ mem'[v].seen = mem[v].seen
            /\ pc'[v] \in AfterCommit
            /\ pc[v] = "record" => pc'[v] = "record" \/ RecordSuccess(v)
<1> USE DEF vars, transferVars, partnerVars, workerVars
<1> DEFINE Kept == pc'[v] = pc[v] /\ job'[v] = job[v] /\ mem'[v] = mem[v]
<1>0. /\ pc \in [Workers -> Labels] /\ mem \in [Workers -> MemType]
      /\ mem[v] \in MemType
  BY DEF TypeOK
<1>1. CASE UNCHANGED vars
  BY <1>1
<1>2. CASE Environment
  <2>1. UNCHANGED workerVars
    BY <1>2 DEF Environment, Initiate, Webhook, AdminRecheck, AdminReconcile,
       ManualRetry, Switch, Settle, LeaseLapses
  <2> QED  BY <2>1
<1>3. ASSUME NEW w \in Workers, w # v, Process(w) \/ Dispatch(w) \/ Sweep(w)
      PROVE  Kept
  BY <1>3, OthersKeptNext DEF OthersKept
<1>4. CASE Dispatch(v) \/ Sweep(v)
  <2>1. pc[v] = "idle" \/ UNCHANGED workerVars
    BY <1>4 DEF Dispatch, Sweep, Poll, Claim, SkipClaimed, RecheckSweep, ReconSweep
  <2> QED  BY <2>1 DEF AfterCommit
<1>5. CASE Process(v)
  <2>1. RecordSuccess(v) \/ DeriveFinding(v) \/ PersistFinding(v) \/ ResolveSession(v)
    BY <1>5 DEF AfterCommit, Process, PauseJob, PassGate, ReadTransfer, RejectMark,
       MarkProcessing, CallCollect, CallPayout, KeepPending, Refused,
       RecordFailure, RecordPending, PostEntries, CommitSuccess, Lookup,
       LookupFailed, ConfirmStatus
  <2>2. CASE RecordSuccess(v)
    BY <1>0, <2>2 DEF RecordSuccess, Goto, AfterCommit
  <2>3. CASE ResolveSession(v)
    BY <2>3 DEF ResolveSession, AfterCommit
  <2>4. CASE DeriveFinding(v) \/ PersistFinding(v)
    <3>1. /\ pc[v] # "record" /\ pc'[v] \in {"persist", "resolve"} /\ job' = job
          /\ \E f : Remember(v, [mem[v] EXCEPT !.finding = f])
      BY <1>0, <2>4 DEF DeriveFinding, PersistFinding, Goto
    <3>2. \A f : [mem[v] EXCEPT !.finding = f].seen = mem[v].seen
      BY <1>0 DEF MemType
    <3> QED  BY <3>1, <3>2, Recalls DEF AfterCommit
  <2> QED  BY <2>1, <2>2, <2>3, <2>4
<1>6. \A w \in Workers : ~Throw(w) /\ ~Crash(w)
  BY DEF Throw, Crash
<1> QED  BY <1>1, <1>2, <1>3, <1>4, <1>5, <1>6 DEF Next, Sweep

(* Entries are posted by two actions and never deleted.                         *)
LEMMA LedgerGrows ==
  ASSUME TypeOK, [Next]_vars, NEW t \in Transfers
  PROVE  ledger[t] \subseteq ledger'[t]
<1> USE DEF vars, transferVars, partnerVars, workerVars
<1>0. ledger \in [Transfers -> SUBSET {"collection", "payout"}]
  BY DEF TypeOK
<1>1. ASSUME NEW w \in Workers, PostEntries(w) \/ RecordSuccess(w)
      PROVE  ledger[t] \subseteq ledger'[t]
  BY <1>0, <1>1 DEF PostEntries, RecordSuccess
<1>2. CASE UNCHANGED ledger
  BY <1>2
<1>3. ASSUME NEW w \in Workers, Process(w), ~PostEntries(w), ~RecordSuccess(w)
      PROVE  UNCHANGED ledger
  BY <1>3 DEF Process, PauseJob, PassGate, ReadTransfer, RejectMark, RejectJob,
     MarkProcessing, CallCollect, CallPayout, KeepPending, Refused, FailTransfer,
     RecordFailure, RecordPending, CommitSuccess, Lookup, LookupFailed,
     ConfirmStatus, DeriveFinding, PersistFinding, ResolveSession
<1>4. ASSUME NEW w \in Workers, Dispatch(w) \/ Sweep(w) \/ Throw(w) \/ Crash(w)
      PROVE  UNCHANGED ledger
  BY <1>4 DEF Dispatch, Sweep, Poll, Claim, SkipClaimed, RecheckSweep, ReconSweep,
     Throw, FailTransfer, Crash
<1>5. CASE Environment
  BY <1>2, <1>5 DEF Environment, Initiate, Webhook, AdminRecheck, AdminReconcile,
     ManualRetry, Switch, Settle, LeaseLapses
<1> QED  BY <1>1, <1>2, <1>3, <1>4, <1>5 DEF Next, Sweep

(* Nothing posted, about to be posted or told is taken back.                    *)
LEMMA PostedStays ==
  ASSUME TypeOK, [Next]_vars, "throw" \notin Faults, "crash" \notin Faults,
         NEW t \in Transfers
  PROVE  /\ CollectionPosted(t) => CollectionPosted(t)'
         /\ PayoutPosted(t) => PayoutPosted(t)'
<1>1. ledger[t] \subseteq ledger'[t]
  BY LedgerGrows
<1>2. ASSUME NEW w \in Workers, pc[w] = "record", job[w].ref = t
      PROVE  \/ pc'[w] = "record" /\ job'[w].ref = t /\ mem'[w].seen = mem[w].seen
             \/ EventOf(mem[w].seen) \subseteq ledger'[t]
  <2>1. ledger \in [Transfers -> SUBSET {"collection", "payout"}]
    BY DEF TypeOK
  <2>2. CASE RecordSuccess(w)
    BY <1>2, <2>1, <2>2 DEF RecordSuccess
  <2>3. CASE ~RecordSuccess(w)
    BY <1>2, <2>3, GoesOn DEF AfterCommit
  <2> QED  BY <2>2, <2>3
<1> QED  BY <1>1, <1>2 DEF CollectionPosted, PayoutPosted, Posting, EventOf

LEMMA TellsOn ==
  ASSUME TypeOK, [Next]_vars, "throw" \notin Faults, "crash" \notin Faults,
         NEW t \in Transfers, Told(t), status'[t] # "INITIATED"
  PROVE  Told(t)'
<1>0. /\ status \in [Transfers -> Statuses \union {"ABSENT"}]
      /\ intent \in [Transfers -> ClosedStatuses \union {"NONE"}]
  BY DEF TypeOK
<1>1. ~Initiate(t)
  BY <1>0 DEF Initiate
<1>2. "NONE" \notin ClosedStatuses
  BY DEF ClosedStatuses
<1>3. ASSUME NEW w \in Workers, Tells(w, t) PROVE Told(t)'
  BY <1>2, <1>3 DEF Tells, Told
<1>4. CASE session[t] = "CLOSED" /\ intent[t] # "NONE"
  BY <1>1, <1>3, <1>4, WhoTells DEF Told
<1>5. ASSUME NEW w \in Workers, Closing(w), job[w].ref = t PROVE Told(t)'
  <2>1. CASE ResolveSession(w)
    <3>1. /\ session' = [session EXCEPT ![t] = "CLOSED"]
          /\ \/ intent[t] # "NONE" /\ intent' = intent
             \/ intent' = [intent EXCEPT ![t] = mem[w].seen]
      BY <1>5, <2>1 DEF ResolveSession, Closing
    <3>2. session'[t] = "CLOSED" /\ intent'[t] # "NONE"
      BY <1>0, <1>2, <1>5, <3>1 DEF Closing, TypeOK
    <3> QED  BY <3>2 DEF Told
  <2>2. CASE ~ResolveSession(w)
    <3>1. Closing(w)' /\ job'[w].ref = t
      BY <1>5, <2>2, GoesOn DEF Closing
    <3> QED  BY <3>1 DEF Told
  <2> QED  BY <2>1, <2>2
<1> QED  BY <1>4, <1>5 DEF Told

(* Who writes a status, and what.                                               *)
Marks(w, t) ==
  /\ MarkProcessing(w) /\ job[w].ref = t
  /\ status'[t] = ProcessingStatus(job[w])

Commits(w, t) ==
  /\ \/ Refused(w) \/ RecordFailure(w) \/ CommitSuccess(w) \/ ConfirmStatus(w)
     \/ \E k \in RecheckKeys : RecordPending(w, k)
  /\ job[w].ref = t /\ job'[w] = job[w]
  /\ pc'[w] \in AfterCommit
  /\ mem'[w].seen = status'[t]

(* The write of a commit, remembered by its worker.                             *)
LEMMA CommitWrites ==
  ASSUME TypeOK, NEW w \in Workers, NEW to, NEW label \in AfterCommit,
         pc[w] # "idle",
         \/ Refused(w) \/ RecordFailure(w) \/ CommitSuccess(w) \/ ConfirmStatus(w)
         \/ \E k \in RecheckKeys : RecordPending(w, k),
         status' = [status EXCEPT ![job[w].ref] = to],
         Remember(w, [Blank EXCEPT !.seen = to]), Goto(w, label)
  PROVE  /\ \A t \in Transfers : status'[t] # status[t] => job[w].ref = t
         /\ Commits(w, job[w].ref)
         /\ status'[job[w].ref] = to
<1>1. mem'[w].seen = to
  BY Recalls DEF Blank
<1>2. pc'[w] = label /\ job' = job
  BY DEF TypeOK, Goto
<1>3. job[w].ref \in Transfers
  BY BusyWorker
<1> QED  BY <1>1, <1>2, <1>3 DEF TypeOK, Commits

LEMMA CommitFacts ==
  ASSUME TypeOK, NEW w \in Workers
  PROVE  /\ Refused(w) =>
              /\ Commits(w, job[w].ref) /\ pc[w] = "settle"
              /\ status'[job[w].ref] = FailureStatus(job[w])
         /\ RecordFailure(w) =>
              /\ Commits(w, job[w].ref) /\ pc[w] = "settle"
              /\ status'[job[w].ref] = StatusOf(job[w].type, "FAILED")
         /\ (\E k \in RecheckKeys : RecordPending(w, k)) =>
              /\ Commits(w, job[w].ref) /\ pc[w] = "settle"
              /\ status'[job[w].ref] = ProcessingStatus(job[w])
         /\ CommitSuccess(w) =>
              /\ Commits(w, job[w].ref) /\ pc[w] = "commit"
              /\ status'[job[w].ref] = StatusOf(job[w].type, "COMPLETE")
         /\ ConfirmStatus(w) =>
              /\ Commits(w, job[w].ref) /\ pc[w] = "confirm"
              /\ status'[job[w].ref] = Confirmed(w)
              /\ pc'[w] = AfterConfirm(Confirmed(w))
<1>1. ASSUME Refused(w)
      PROVE  /\ Commits(w, job[w].ref) /\ pc[w] = "settle"
             /\ status'[job[w].ref] = FailureStatus(job[w])
  BY <1>1, CommitWrites DEF Refused, FailTransfer, AfterCommit
<1>2. ASSUME RecordFailure(w)
      PROVE  /\ Commits(w, job[w].ref) /\ pc[w] = "settle"
             /\ status'[job[w].ref] = StatusOf(job[w].type, "FAILED")
  BY <1>2, CommitWrites DEF RecordFailure, AfterCommit
<1>3. ASSUME NEW k \in RecheckKeys, RecordPending(w, k)
      PROVE  /\ Commits(w, job[w].ref) /\ pc[w] = "settle"
             /\ status'[job[w].ref] = ProcessingStatus(job[w])
  BY <1>3, CommitWrites DEF RecordPending, AfterCommit
<1>4. ASSUME CommitSuccess(w)
      PROVE  /\ Commits(w, job[w].ref) /\ pc[w] = "commit"
             /\ status'[job[w].ref] = StatusOf(job[w].type, "COMPLETE")
  BY <1>4, CommitWrites DEF CommitSuccess, AfterCommit
<1>5. ASSUME ConfirmStatus(w)
      PROVE  /\ Commits(w, job[w].ref) /\ pc[w] = "confirm"
             /\ status'[job[w].ref] = Confirmed(w)
             /\ pc'[w] = AfterConfirm(Confirmed(w))
  <2>1. AfterConfirm(Confirmed(w)) \in AfterCommit
    BY DEF AfterConfirm, AfterCommit
  <2>2. pc'[w] = AfterConfirm(Confirmed(w))
    BY <1>5 DEF ConfirmStatus, Goto, TypeOK
  <2> QED  BY <1>5, <2>1, <2>2, CommitWrites DEF ConfirmStatus
<1> QED  BY <1>1, <1>2, <1>3, <1>4, <1>5

LEMMA WhoWrites ==
  ASSUME TypeOK, [Next]_vars, "throw" \notin Faults, NEW t \in Transfers,
         status'[t] # status[t]
  PROVE  \/ Initiate(t) /\ status'[t] = "INITIATED"
         \/ \E k : ManualRetry(t, k)
         \/ \E w \in Workers : Marks(w, t) \/ Commits(w, t)
<1> USE DEF vars, transferVars, partnerVars, workerVars
<1>0. status \in [Transfers -> Statuses \union {"ABSENT"}]
  BY DEF TypeOK
<1>1. CASE Environment
  <2>1. ASSUME NEW u \in Transfers, Initiate(u)
        PROVE  Initiate(t) /\ status'[t] = "INITIATED"
    BY <1>0, <2>1 DEF Initiate
  <2>2. ASSUME NEW u \in Transfers, NEW k, ManualRetry(u, k) PROVE ManualRetry(t, k)
    BY <1>0, <2>2 DEF ManualRetry
  <2>3. (\E u \in Transfers : Initiate(u) \/ \E k : ManualRetry(u, k))
    BY <1>1 DEF Environment, Webhook, AdminRecheck, AdminReconcile, Switch, Settle,
       LeaseLapses
  <2> QED  BY <2>1, <2>2, <2>3
<1>2. ASSUME NEW w \in Workers, Process(w)
      PROVE  Marks(w, t) \/ Commits(w, t)
  <2>1. CASE MarkProcessing(w)
    <3>1. \/ UNCHANGED status
          \/ status' = [status EXCEPT ![job[w].ref] = ProcessingStatus(job[w])]
      BY <2>1 DEF MarkProcessing
    <3> QED  BY <1>0, <2>1, <3>1 DEF Marks
  <2>2. CASE \/ Refused(w) \/ RecordFailure(w) \/ CommitSuccess(w)
             \/ ConfirmStatus(w) \/ \E k \in RecheckKeys : RecordPending(w, k)
    <3>1. \E to : status' = [status EXCEPT ![job[w].ref] = to]
      BY <2>2 DEF Refused, FailTransfer, RecordFailure, CommitSuccess,
         ConfirmStatus, RecordPending
    <3>2. job[w].ref = t
      BY <1>0, <3>1
    <3> QED  BY <2>2, <3>2, CommitFacts
  <2>3. CASE /\ ~MarkProcessing(w) /\ ~Refused(w) /\ ~RecordFailure(w)
             /\ ~CommitSuccess(w) /\ ~ConfirmStatus(w)
             /\ ~\E k \in RecheckKeys : RecordPending(w, k)
    BY <1>2, <2>3 DEF Process, PauseJob, PassGate, ReadTransfer, RejectMark,
       RejectJob, CallCollect, CallPayout, KeepPending, PostEntries, Lookup,
       LookupFailed, RecordSuccess, DeriveFinding, PersistFinding, ResolveSession
  <2> QED  BY <2>1, <2>2, <2>3
<1>3. ASSUME NEW w \in Workers, Dispatch(w) \/ Sweep(w) \/ Crash(w)
      PROVE  UNCHANGED status
  BY <1>3 DEF Dispatch, Sweep, Poll, Claim, SkipClaimed, RecheckSweep, ReconSweep,
     Crash
<1>4. \A w \in Workers : ~Throw(w)
  BY DEF Throw
<1> QED  BY <1>1, <1>2, <1>3, <1>4 DEF Next, Sweep

(* Who creates the row of a payout: a retry by Ops, or a worker that has just    *)
(* learnt that the collection is complete.                                      *)
QueuesPayout(w) ==
  \/ CommitSuccess(w) /\ job[w].type = "COLLECTION"
  \/ ConfirmStatus(w) /\ Confirmed(w) = "COLLECTION_SUCCESS"

LEMMA NewPayouts ==
  ASSUME TypeOK, RowsKnown, [Next]_vars, "throw" \notin Faults,
         NEW j \in Jobs, j.type = "PAYOUT", ~Known(j), Known(j)'
  PROVE  \/ \E k : ManualRetry(j.ref, k)
         \/ \E w \in Workers : QueuesPayout(w) /\ job[w].ref = j.ref
<1> USE DEF vars, transferVars, partnerVars, workerVars
<1>0. /\ jobStatus \in [Jobs -> JobStatuses] /\ batch \in [Workers -> SUBSET Jobs]
      /\ jobStatus[j] = "ABSENT" /\ jobStatus'[j] # "ABSENT"
  BY DEF TypeOK, JobStatuses, Known
<1>1. ASSUME NEW i \in Jobs, NEW s, Known(i) \/ i.type # "PAYOUT",
             jobStatus' = [jobStatus EXCEPT ![i] = s]
      PROVE  FALSE
  BY <1>0, <1>1 DEF Known
<1>2. ASSUME NEW S, jobStatus' = Enqueue(jobStatus, S)
      PROVE  j \in S
  BY <1>0, <1>2, Enqueued
<1>3. ASSUME NEW i \in Jobs, NEW S, Known(i),
             jobStatus' = Enqueue([jobStatus EXCEPT ![i] = "SUCCEEDED"], S)
      PROVE  j \in S
  <2>1. [jobStatus EXCEPT ![i] = "SUCCEEDED"][j] = "ABSENT"
    BY <1>0, <1>3 DEF Known
  <2> QED  BY <1>0, <1>3, <2>1, Enqueued
<1>4. CASE UNCHANGED jobStatus
  BY <1>0, <1>4
<1>5. CASE Environment
  <2>1. ASSUME NEW t \in Transfers, NEW k, ManualRetry(t, k)
        PROVE  ManualRetry(j.ref, k)
    <3>1. j \in {RetryJob(t, k)}
      BY <1>2, <2>1 DEF ManualRetry
    <3> QED  BY <2>1, <3>1 DEF RetryJob
  <2>2. ASSUME NEW t \in Transfers, Initiate(t) PROVE FALSE
    <3>1. j \in {CollectionJob(t)}
      BY <1>2, <2>2 DEF Initiate
    <3> QED  BY <3>1 DEF CollectionJob
  <2>3. ASSUME NEW t \in Transfers, NEW k,
               (\E word \in PartnerStates : Webhook(t, word, k)) \/ AdminRecheck(t, k)
        PROVE  FALSE
    <3>1. j \in {RecheckJob(t, k)}
      BY <1>2, <2>3 DEF Webhook, AdminRecheck
    <3> QED  BY <3>1 DEF RecheckJob
  <2>4. ASSUME NEW t \in Transfers, AdminReconcile(t) PROVE FALSE
    <3>1. ReconJob(t, 0) \in Jobs /\ ReconJob(t, 0).type # "PAYOUT"
      BY <2>4, JobTypes DEF AdminReconcile, ReconJob
    <3> QED  BY <1>1, <2>4, <3>1 DEF AdminReconcile
  <2>5. ASSUME NEW i \in Jobs, LeaseLapses(i) PROVE FALSE
    BY <1>1, <2>5 DEF LeaseLapses, Known
  <2>6. ASSUME NEW t \in Transfers, Settle(t) PROVE FALSE
    BY <1>4, <2>6, <1>0 DEF Settle
  <2>7. ASSUME NEW c \in Toggled, Switch(c) PROVE FALSE
    BY <1>4, <2>7, <1>0 DEF Switch
  <2> QED  BY <1>5, <2>1, <2>2, <2>3, <2>4, <2>5, <2>6, <2>7 DEF Environment
<1>6. ASSUME NEW w \in Workers, Dispatch(w) \/ Crash(w) PROVE FALSE
  <2>1. ASSUME NEW i \in batch[w], Claim(w, i) PROVE FALSE
    BY <1>0, <1>1, <2>1 DEF Claim, RowsKnown
  <2>2. CASE Poll(w) \/ (\E i \in batch[w] : SkipClaimed(w, i)) \/ Crash(w)
    BY <1>0, <2>2 DEF Poll, SkipClaimed, Crash
  <2> QED  BY <1>6, <2>1, <2>2 DEF Dispatch
<1>7. ASSUME NEW w \in Workers, Sweep(w) PROVE FALSE
  <2>1. ASSUME NEW k, RecheckSweep(w, k) PROVE FALSE
    <3>1. j \in {RecheckJob(t, k) : t \in {u \in Transfers : status[u] \in SweptStatuses}}
      BY <1>2, <2>1 DEF RecheckSweep
    <3> QED  BY <3>1 DEF RecheckJob
  <2>2. ASSUME NEW k, ReconSweep(w, k) PROVE FALSE
    <3>1. j \in {ReconJob(t, k) : t \in {u \in Transfers : status[u] \in
                   PostCollection \union {"COLLECTION_FAILED"}}}
      BY <1>2, <2>2 DEF ReconSweep
    <3> QED  BY <3>1 DEF ReconJob
  <2> QED  BY <1>7, <2>1, <2>2 DEF Sweep
<1>8. ASSUME NEW w \in Workers, Process(w)
      PROVE  QueuesPayout(w) /\ job[w].ref = j.ref
  <2>1. CASE CommitSuccess(w)
    <3>1. Known(job[w]) /\ job[w] \in Jobs
      BY <2>1, BusyWorker DEF CommitSuccess, RowsKnown
    <3>2. j \in IF job[w].type = "COLLECTION" THEN {PayoutJob(job[w].ref)} ELSE {}
      BY <1>3, <2>1, <3>1 DEF CommitSuccess
    <3> QED  BY <2>1, <3>2 DEF PayoutJob, QueuesPayout
  <2>2. CASE ConfirmStatus(w)
    <3>1. Known(job[w]) /\ job[w] \in Jobs
      BY <2>2, BusyWorker DEF ConfirmStatus, RowsKnown
    <3>2. j \in IF Confirmed(w) = "COLLECTION_SUCCESS"
                THEN {PayoutJob(job[w].ref)} ELSE {}
      BY <1>3, <2>2, <3>1 DEF ConfirmStatus
    <3> QED  BY <2>2, <3>2 DEF PayoutJob, QueuesPayout
  <2>3. ASSUME NEW k \in RecheckKeys, RecordPending(w, k) PROVE FALSE
    <3>1. Known(job[w]) /\ job[w] \in Jobs
      BY <2>3, BusyWorker DEF RecordPending, RowsKnown
    <3>2. j \in {RecheckJob(job[w].ref, k)}
      BY <1>3, <2>3, <3>1 DEF RecordPending
    <3> QED  BY <3>2 DEF RecheckJob
  <2>4. CASE \/ PauseJob(w) \/ RejectMark(w) \/ KeepPending(w) \/ Refused(w)
             \/ RecordFailure(w) \/ LookupFailed(w) \/ PersistFinding(w)
    <3>1. Known(job[w]) /\ job[w] \in Jobs
      BY <2>4, BusyWorker DEF PauseJob, RejectMark, KeepPending, Refused,
         RecordFailure, LookupFailed, PersistFinding, RowsKnown
    <3>2. UNCHANGED jobStatus
            \/ \E s : jobStatus' = [jobStatus EXCEPT ![job[w]] = s]
      BY <2>4 DEF PauseJob, RejectMark, KeepPending, Refused, FailTransfer,
         RecordFailure, LookupFailed, RejectJob, PersistFinding, SetJob
    <3> QED  BY <1>1, <1>4, <3>1, <3>2, <1>0
  <2>5. CASE \/ PassGate(w) \/ ReadTransfer(w) \/ MarkProcessing(w)
             \/ CallCollect(w) \/ CallPayout(w) \/ PostEntries(w) \/ Lookup(w)
             \/ RecordSuccess(w) \/ DeriveFinding(w) \/ ResolveSession(w)
    BY <1>0, <2>5 DEF PassGate, ReadTransfer, MarkProcessing, CallCollect,
       CallPayout, PostEntries, Lookup, RecordSuccess, DeriveFinding, ResolveSession
  <2> QED  BY <1>8, <2>1, <2>2, <2>3, <2>4, <2>5 DEF Process
<1>9. \A w \in Workers : ~Throw(w)
  BY DEF Throw
<1> QED  BY <1>4, <1>5, <1>6, <1>7, <1>8, <1>9, <1>0 DEF Next, Sweep

(* A status of the payout half is written only when the collection is posted, a  *)
(* success when the payout is, and a closing one by a worker that goes on to     *)
(* release the chat.                                                            *)
LEMMA BooksWrites ==
  ASSUME BooksInv, [Next]_vars, "throw" \notin Faults, "crash" \notin Faults,
         NEW t \in Transfers
  PROVE  StatusPosted(t)'
<1>0. /\ TypeOK /\ RowsKnown /\ StatusPosted(t) /\ PayoutRowsPosted
      /\ CollectionPosted(t) => CollectionPosted(t)'
      /\ PayoutPosted(t) => PayoutPosted(t)'
      /\ status \in [Transfers -> Statuses \union {"ABSENT"}]
  BY PostedStays DEF BooksInv, BackedInv, TypeOK
<1>1. CASE status'[t] = status[t]
  <2>1. status'[t] \in ClosedStatuses => status'[t] # "INITIATED"
    BY DEF ClosedStatuses
  <2> QED  BY <1>0, <1>1, <2>1, TellsOn DEF StatusPosted
<1>2. CASE status'[t] = "INITIATED"
  BY <1>2 DEF StatusPosted, PostCollection, ClosedStatuses
<1>3. ASSUME NEW k, ManualRetry(t, k) PROVE StatusPosted(t)'
  <2>1. status[t] = "PAYOUT_FAILED" /\ status'[t] = "PENDING_PAYOUT"
    BY <1>0, <1>3 DEF ManualRetry, CanRetryPayout
  <2> QED  BY <1>0, <2>1 DEF StatusPosted, PostCollection, ClosedStatuses
<1>p. ASSUME NEW w \in Workers, pc[w] # "idle", job[w].type = "PAYOUT", job[w].ref = t
      PROVE  CollectionPosted(t)'
  BY <1>0, <1>p, BusyWorker DEF RowsKnown, PayoutRowsPosted
<1>4. ASSUME NEW w \in Workers, Marks(w, t) PROVE StatusPosted(t)'
  <2>1. pc[w] = "mark" /\ MovesMoney(job[w]) /\ job[w].ref = t
    BY <1>4 DEF Marks, MarkProcessing, BooksInv, BackedInv, HearsTruth
  <2>2. status'[t] \in PostCollection => job[w].type = "PAYOUT"
    BY <1>4, <2>1 DEF Marks, ProcessingStatus, StatusOf, MovesMoney, PostCollection
  <2>3. status'[t] \notin ClosedStatuses
    BY <1>4 DEF Marks, ProcessingStatus, StatusOf, ClosedStatuses
  <2>4. status'[t] # "PAYOUT_SUCCESS"
    BY <2>3 DEF ClosedStatuses
  <2> QED  BY <1>p, <2>1, <2>2, <2>3, <2>4 DEF StatusPosted
<1>5. ASSUME NEW w \in Workers, Commits(w, t) PROVE StatusPosted(t)'
  <2>0. /\ job[w].ref = t /\ GoesByPosted(w) /\ HearsTruth(w)
        /\ ledger[t] \subseteq ledger'[t]
    BY <1>0, <1>5, LedgerGrows DEF Commits, BooksInv, BackedInv
  <2>1. status'[t] \in ClosedStatuses /\ job[w].type # "RECONCILIATION" => Told(t)'
    BY <1>5 DEF Commits, Closing, Told
  <2>2. CASE Refused(w) \/ RecordFailure(w) \/ \E k \in RecheckKeys : RecordPending(w, k)
    <3>1. /\ pc[w] = "settle"
          /\ status'[t] \in {FailureStatus(job[w]), StatusOf(job[w].type, "FAILED"),
                             ProcessingStatus(job[w])}
      BY <1>0, <2>0, <2>2, CommitFacts
    <3>2. MovesMoney(job[w])
      BY <2>0, <3>1 DEF HearsTruth
    <3>3. /\ status'[t] \in PostCollection => job[w].type = "PAYOUT"
          /\ status'[t] # "PAYOUT_SUCCESS"
      BY <3>1, <3>2
         DEF FailureStatus, ProcessingStatus, StatusOf, MovesMoney, PostCollection
    <3>4. job[w].type # "RECONCILIATION"
      BY <3>2 DEF MovesMoney
    <3> QED  BY <1>p, <2>0, <2>1, <3>1, <3>3, <3>4 DEF StatusPosted
  <2>3. CASE CommitSuccess(w)
    <3>1. /\ pc[w] = "commit"
          /\ status'[t] = StatusOf(job[w].type, "COMPLETE")
      BY <1>0, <2>0, <2>3, CommitFacts
    <3>2. MovesMoney(job[w]) /\ EventOf(status'[t]) \subseteq ledger'[t]
      <4>1. MovesMoney(job[w])
        BY <2>0, <3>1 DEF HearsTruth
      <4>2. EventOf(status'[t]) \subseteq ledger[t]
        BY <2>0, <3>1 DEF GoesByPosted
      <4> QED  BY <2>0, <4>1, <4>2
    <3>3. CASE job[w].type = "COLLECTION"
      <4>1. status'[t] = "COLLECTION_SUCCESS"
        BY <3>1, <3>3, StatusMeaning
      <4> QED  BY <3>2, <4>1
               DEF StatusPosted, CollectionPosted, EventOf, ClosedStatuses
    <3>4. CASE job[w].type = "PAYOUT"
      <4>1. status'[t] = "PAYOUT_SUCCESS"
        BY <3>1, <3>4, StatusMeaning
      <4>2. PayoutPosted(t)'
        BY <3>2, <4>1 DEF PayoutPosted, EventOf
      <4> QED  BY <1>p, <2>0, <2>1, <3>1, <3>4, <4>2 DEF StatusPosted
    <3> QED  BY <3>2, <3>3, <3>4 DEF MovesMoney
  <2>4. CASE ConfirmStatus(w)
    <3>1. /\ pc[w] = "confirm" /\ status'[t] = Confirmed(w)
          /\ pc'[w] = AfterConfirm(Confirmed(w))
          /\ job'[w].ref = t /\ mem'[w].seen = status'[t]
      BY <1>0, <1>5, <2>0, <2>4, CommitFacts DEF Commits
    <3>2. status'[t] \in {"COLLECTION_SUCCESS", "PAYOUT_SUCCESS"} =>
            pc'[w] = "record"
      BY <3>1 DEF AfterConfirm, EventOf
    <3>3. status'[t] \in PostCollection /\ status'[t] # "COLLECTION_SUCCESS" =>
            CollectionPosted(t)
      BY <2>0, <3>1 DEF GoesByPosted, Confirmed, StatusOf, RecheckPhase, PostCollection
    <3>4. job[w].type # "RECONCILIATION"
      BY <2>0, <3>1 DEF GoesByPosted
    <3>5. /\ status'[t] = "COLLECTION_SUCCESS" => CollectionPosted(t)'
          /\ status'[t] = "PAYOUT_SUCCESS" => PayoutPosted(t)'
      BY <3>1, <3>2 DEF CollectionPosted, PayoutPosted, Posting
    <3> QED  BY <1>0, <2>1, <3>3, <3>4, <3>5 DEF StatusPosted
  <2> QED  BY <1>5, <2>2, <2>3, <2>4 DEF Commits
<1> QED
  BY <1>0, <1>1, <1>2, <1>3, <1>4, <1>5, WhoWrites

LEMMA BooksRows ==
  ASSUME BooksInv, [Next]_vars, "throw" \notin Faults, "crash" \notin Faults
  PROVE  PayoutRowsPosted'
<1>0. TypeOK /\ RowsKnown /\ PayoutRowsPosted
  BY DEF BooksInv, BackedInv
<1> SUFFICES ASSUME NEW j \in Jobs, j.type = "PAYOUT", Known(j)'
             PROVE  CollectionPosted(j.ref)'
  BY DEF PayoutRowsPosted
<1>1. j.ref \in Transfers /\ StatusPosted(j.ref) /\ StatusPosted(j.ref)'
  BY JobTypes, BooksWrites DEF BooksInv
<1>2. CASE Known(j)
  BY <1>0, <1>1, <1>2, PostedStays DEF PayoutRowsPosted
<1>3. ASSUME NEW k, ManualRetry(j.ref, k) PROVE CollectionPosted(j.ref)'
  <2>1. status[j.ref] \in PostCollection
    BY <1>3 DEF ManualRetry, CanRetryPayout, PostCollection
  <2> QED  BY <1>0, <1>1, <2>1, PostedStays DEF StatusPosted
<1>4. ASSUME NEW w \in Workers, QueuesPayout(w), job[w].ref = j.ref
      PROVE  CollectionPosted(j.ref)'
  <2>1. status'[j.ref] = "COLLECTION_SUCCESS"
    BY <1>0, <1>4, CommitFacts, StatusMeaning DEF QueuesPayout
  <2> QED  BY <1>1, <2>1 DEF StatusPosted, PostCollection
<1> QED  BY <1>0, <1>2, <1>3, <1>4, NewPayouts

(* What was posted stays posted for a worker that rests.                        *)
LEMMA RestsOnPosted ==
  ASSUME BooksInv, [Next]_vars, "throw" \notin Faults, "crash" \notin Faults,
         NEW v \in Workers, pc'[v] = pc[v], job'[v] = job[v], mem'[v] = mem[v]
  PROVE  GoesByPosted(v)'
<1>1. TypeOK /\ GoesByPosted(v) /\ (pc[v] # "idle" => job[v].ref \in Transfers)
  BY BusyWorker DEF BooksInv, BackedInv
<1>2. CASE pc[v] = "idle"
  BY <1>1, <1>2 DEF GoesByPosted
<1>3. ASSUME NEW t \in Transfers, job[v].ref = t
      PROVE  GoesByPosted(v)'
  <2>1. /\ CollectionPosted(t) => CollectionPosted(t)'
        /\ ledger[t] \subseteq ledger'[t]
    BY <1>1, PostedStays, LedgerGrows
  <2>2. mem[v].seen \in PostCollection => pc[v] # "idle" /\ CollectionPosted(t)
    BY <1>1, <1>3 DEF GoesByPosted, CollectionPosted, Posting
  <2>3. mem'[v].seen \in PostCollection => CollectionPosted(t)'
    BY <2>1, <2>2
  <2>4. pc[v] = "commit" =>
          EventOf(StatusOf(job[v].type, "COMPLETE")) \subseteq ledger'[t]
    BY <1>1, <1>3, <2>1 DEF GoesByPosted
  <2> QED  BY <1>1, <1>3, <2>2, <2>3, <2>4 DEF GoesByPosted, CollectionPosted, Posting
<1> QED  BY <1>1, <1>2, <1>3

LEMMA BooksWorker ==
  ASSUME BooksInv, [Next]_vars, "throw" \notin Faults, "crash" \notin Faults,
         NEW w \in Workers, Process(w) \/ Dispatch(w) \/ Sweep(w)
  PROVE  GoesByPosted(w)'
<1> USE DEF vars, transferVars, partnerVars, workerVars
<1> DEFINE t == job[w].ref
<1>0. /\ pc \in [Workers -> Labels] /\ mem \in [Workers -> MemType]
      /\ job \in [Workers -> Jobs \union {NoJob}]
      /\ TypeOK /\ GoesByPosted(w) /\ mem[w] \in MemType
      /\ ledger \in [Transfers -> SUBSET {"collection", "payout"}]
  BY DEF BooksInv, BackedInv, TypeOK
<1>r. pc[w] # "idle" => t \in Transfers
  BY <1>0, BusyWorker
<1>b. ASSUME mem'[w] = Blank, pc'[w] \in {"idle"} \union AfterCommit
      PROVE  GoesByPosted(w)'
  BY <1>b DEF GoesByPosted, Blank, PostCollection, AfterCommit
(* A worker that keeps its row, and what it saw or the status as it is now.      *)
<1>k. ASSUME pc[w] # "idle", pc'[w] # "idle", job'[w] = job[w],
             mem'[w].seen \in {mem[w].seen, status[t], status'[t]},
             pc'[w] = "commit" =>
               EventOf(StatusOf(job[w].type, "COMPLETE")) \subseteq ledger'[t],
             pc'[w] \in {"lookup", "confirm"} => job[w].type # "RECONCILIATION"
      PROVE  GoesByPosted(w)'
  <2> SUFFICES ASSUME NEW u \in Transfers, job[w].ref = u
               PROVE  GoesByPosted(w)'
    BY <1>k, <1>r
  <2>1. /\ StatusPosted(u) /\ StatusPosted(u)'
        /\ CollectionPosted(u) => CollectionPosted(u)'
    BY <1>0, PostedStays, BooksWrites DEF BooksInv
  <2>2. mem[w].seen \in PostCollection => CollectionPosted(u)
    BY <1>0 DEF GoesByPosted, CollectionPosted, Posting
  <2>3. mem'[w].seen \in PostCollection => CollectionPosted(u)'
    BY <1>k, <2>1, <2>2 DEF StatusPosted
  <2> QED  BY <1>k, <2>3 DEF GoesByPosted, CollectionPosted, Posting
<1>1. CASE Poll(w) \/ (\E j \in batch[w] : SkipClaimed(w, j)) \/ Sweep(w)
  <2>1. pc'[w] = pc[w] /\ job'[w] = job[w] /\ mem'[w] = mem[w]
    BY <1>1 DEF Poll, SkipClaimed, Sweep, RecheckSweep, ReconSweep
  <2> QED  BY <2>1, RestsOnPosted
<1>2. ASSUME NEW j \in batch[w], Claim(w, j) PROVE GoesByPosted(w)'
  <2>1. pc[w] = "idle" /\ mem' = mem /\ pc'[w] \in {"gate", "read"}
    BY <1>0, <1>2 DEF Claim
  <2> QED  BY <1>0, <2>1 DEF GoesByPosted
<1>3. CASE PauseJob(w) \/ RejectMark(w) \/ KeepPending(w) \/ LookupFailed(w)
           \/ ResolveSession(w)
  <2>1. mem'[w] = Blank /\ pc'[w] = "idle"
    BY <1>0, <1>3 DEF PauseJob, RejectMark, KeepPending, LookupFailed, RejectJob,
       ResolveSession, Return
  <2> QED  BY <2>1, <1>b
<1>4. CASE PassGate(w) \/ MarkProcessing(w) \/ RecordSuccess(w)
  <2>1. /\ pc[w] # "idle" /\ pc'[w] \in {"read", "call", "reconcile"}
        /\ job' = job /\ mem' = mem
    BY <1>0, <1>4 DEF PassGate, MarkProcessing, RecordSuccess, Goto
  <2> QED  BY <2>1, <1>k
<1>5. CASE ReadTransfer(w)
  <2>1. /\ pc[w] # "idle" /\ job' = job
        /\ pc'[w] \in {"mark", "lookup", "reconcile"}
        /\ pc'[w] = "lookup" => job[w].type = "STATUS_RECHECK"
        /\ Remember(w, [mem[w] EXCEPT !.seen = status[t], !.code = code[t]])
    BY <1>0, <1>5 DEF ReadTransfer, Goto, MovesMoney
  <2>2. mem'[w] = [mem[w] EXCEPT !.seen = status[t], !.code = code[t]]
    BY <2>1, <1>0, Recalls
  <2>3. mem'[w].seen = status[t]
    BY <2>2, <1>0 DEF MemType
  <2> QED  BY <2>1, <2>3, <1>k
<1>6. CASE CallCollect(w) \/ CallPayout(w) \/ Lookup(w)
  <2>1. /\ pc[w] # "idle" /\ pc'[w] \in {"settle", "confirm"} /\ job' = job
        /\ pc'[w] = "confirm" => pc[w] = "lookup"
        /\ \E a, n : \/ Remember(w, [mem[w] EXCEPT !.answer = a])
                     \/ Remember(w, [mem[w] EXCEPT !.answer = a, !.code = n])
    BY <1>0, <1>6 DEF CallCollect, CallPayout, Lookup, Goto
  <2>2. mem'[w].seen = mem[w].seen
    BY <2>1, <1>0, Answers
  <2>3. pc'[w] = "confirm" => job[w].type # "RECONCILIATION"
    BY <2>1, <1>0 DEF GoesByPosted
  <2> QED  BY <2>1, <2>2, <2>3, <1>k
<1>7. CASE \/ Refused(w) \/ RecordFailure(w) \/ CommitSuccess(w) \/ ConfirmStatus(w)
           \/ \E k \in RecheckKeys : RecordPending(w, k)
  <2>1. Commits(w, t) /\ pc[w] # "idle"
    BY <1>0, <1>7, CommitFacts
  <2> QED  BY <2>1, <1>k DEF Commits, AfterCommit
<1>8. CASE PostEntries(w)
  <2>1. /\ pc[w] # "idle" /\ pc'[w] = "commit" /\ job' = job /\ mem' = mem
        /\ ledger' = [ledger EXCEPT ![t] =
                        @ \union EventOf(StatusOf(job[w].type, "COMPLETE"))]
    BY <1>0, <1>8 DEF PostEntries, Goto
  <2>2. EventOf(StatusOf(job[w].type, "COMPLETE")) \subseteq ledger'[t]
    BY <1>0, <1>r, <2>1
  <2> QED  BY <2>1, <2>2, <1>k
<1>9. CASE DeriveFinding(w) \/ PersistFinding(w)
  <2>1. \/ mem'[w] = Blank /\ pc'[w] = "idle"
        \/ /\ \E f : Remember(w, [mem[w] EXCEPT !.finding = f])
           /\ job' = job /\ pc[w] # "idle" /\ pc'[w] \in {"persist", "resolve"}
    BY <1>0, <1>9 DEF DeriveFinding, PersistFinding, Return, Goto
  <2>2. \A f : [mem[w] EXCEPT !.finding = f].seen = mem[w].seen
    BY <1>0 DEF MemType
  <2>3. (mem'[w] = Blank /\ pc'[w] = "idle") \/ mem'[w].seen = mem[w].seen
    BY <2>1, <2>2, <1>0, Recalls
  <2> QED  BY <2>1, <2>3, <1>b, <1>k
<1> QED
  BY <1>1, <1>2, <1>3, <1>4, <1>5, <1>6, <1>7, <1>8, <1>9 DEF Process, Dispatch

LEMMA BooksInit == Init => BooksInv
  BY BackedInit DEF Init, BooksInv, RowsKnown, Known, StatusPosted, PayoutRowsPosted,
     GoesByPosted, Blank, PostCollection, ClosedStatuses

LEMMA BooksStep ==
  ASSUME BooksInv, [Next]_vars, "throw" \notin Faults, "crash" \notin Faults
  PROVE  BooksInv'
<1> USE DEF vars, transferVars, partnerVars, workerVars
<1>1. BackedInv' /\ RowsKnown'
  BY BackedStep, RowsKnownStep DEF BooksInv, BackedInv
<1>2. (\A t \in Transfers : StatusPosted(t)') /\ PayoutRowsPosted'
  BY BooksWrites, BooksRows
<1>3. ASSUME NEW v \in Workers PROVE GoesByPosted(v)'
  <2>1. CASE UNCHANGED vars
    BY <2>1, RestsOnPosted
  <2>2. CASE Environment
    <3>1. UNCHANGED workerVars
      BY <2>2 DEF Environment, Initiate, Webhook, AdminRecheck, AdminReconcile,
         ManualRetry, Switch, Settle, LeaseLapses
    <3> QED  BY <3>1, RestsOnPosted
  <2>3. ASSUME NEW w \in Workers, Process(w) \/ Dispatch(w) \/ Sweep(w)
        PROVE  GoesByPosted(v)'
    <3>1. CASE v = w
      BY <2>3, <3>1, BooksWorker
    <3>2. CASE v # w
      BY <2>3, <3>2, OthersKeptNext, RestsOnPosted
         DEF OthersKept, BooksInv, BackedInv
    <3> QED  BY <3>1, <3>2
  <2>4. \A w \in Workers : ~Throw(w) /\ ~Crash(w)
    BY DEF Throw, Crash
  <2> QED  BY <2>1, <2>2, <2>3, <2>4 DEF Next, Sweep
<1> QED  BY <1>1, <1>2, <1>3 DEF BooksInv

(* Unless a process dies or a call throws between a commit and the steps after  *)
(* it, a transfer nobody works on has its entries posted, and a closed one has   *)
(* released its chat and told its sender, for any number of workers, lost        *)
(* answers and lapsing leases.                                                  *)
THEOREM BooksSettle ==
  ASSUME "throw" \notin Faults, "crash" \notin Faults
  PROVE  Spec => []SettledBooks
<1>1. BooksInv /\ [Next]_vars => BooksInv'
  BY BooksStep
<1>2. BooksInv => SettledBooks
  <2> SUFFICES ASSUME BooksInv, NEW t \in Transfers, ~Busy(t)
               PROVE  /\ status[t] \in ClosedStatuses =>
                           session[t] = "CLOSED" /\ intent[t] # "NONE"
                      /\ status[t] \in {"COLLECTION_SUCCESS", "PENDING_PAYOUT",
                                        "PAYOUT_SUCCESS"} => "collection" \in ledger[t]
                      /\ status[t] = "PAYOUT_SUCCESS" => "payout" \in ledger[t]
    BY DEF SettledBooks
  <2>1. \A w \in Workers : job[w].ref = t => pc[w] = "idle"
    BY DEF Busy
  <2>2. \A s : ~Posting(t, s)
    BY <2>1 DEF Posting
  <2>3. Told(t) => session[t] = "CLOSED" /\ intent[t] # "NONE"
    BY <2>1 DEF Told, Closing, AfterCommit
  <2>4. StatusPosted(t)
    BY DEF BooksInv
  <2> QED
    BY <2>2, <2>3, <2>4 DEF StatusPosted, CollectionPosted, PayoutPosted, PostCollection
<1> QED  BY <1>1, <1>2, BooksInit, PTL DEF Spec

(* What a single worker derives and persists is never a gap of its own making.  *)
SoundFindings ==
  /\ NoFalseAlarm
  /\ \A w \in Workers : pc[w] = "persist" => mem[w].finding = "CONSISTENT"

(* A finding is derived by its own worker, just before it is persisted.         *)
LEMMA WhoDerives ==
  ASSUME TypeOK, [Next]_vars, NEW w \in Workers, pc'[w] = "persist"
  PROVE  DeriveFinding(w) \/ (pc[w] = "persist" /\ mem'[w] = mem[w])
<1> USE DEF vars, transferVars, partnerVars, workerVars
<1> DEFINE Kept == pc'[w] = pc[w] /\ mem'[w] = mem[w]
<1>0. pc \in [Workers -> Labels]
  BY DEF TypeOK
<1>1. CASE UNCHANGED vars
  BY <1>1
<1>2. CASE Environment
  BY <1>2 DEF Environment, Initiate, Webhook, AdminRecheck, AdminReconcile,
     ManualRetry, Switch, Settle, LeaseLapses
<1>3. ASSUME NEW v \in Workers, v # w,
             Process(v) \/ Throw(v) \/ Dispatch(v) \/ Sweep(v) \/ Crash(v)
      PROVE  Kept
  BY <1>3, OthersKeptNext DEF OthersKept
<1>4. CASE Dispatch(w) \/ Sweep(w)
  BY <1>0, <1>4 DEF Dispatch, Sweep, Poll, Claim, SkipClaimed, RecheckSweep,
     ReconSweep
<1>5. CASE Throw(w) \/ Crash(w)
  BY <1>0, <1>5 DEF Throw, FailTransfer, Crash, Goto
<1>6. CASE PauseJob(w) \/ RejectMark(w) \/ KeepPending(w) \/ LookupFailed(w)
           \/ ResolveSession(w) \/ PersistFinding(w)
  BY <1>0, <1>6 DEF PauseJob, RejectMark, KeepPending, LookupFailed, RejectJob,
     ResolveSession, PersistFinding, Goto, Return
<1>7. CASE PassGate(w) \/ ReadTransfer(w) \/ MarkProcessing(w) \/ CallCollect(w)
           \/ CallPayout(w) \/ PostEntries(w) \/ Lookup(w) \/ RecordSuccess(w)
  BY <1>0, <1>7 DEF PassGate, ReadTransfer, MarkProcessing, CallCollect,
     CallPayout, PostEntries, Lookup, RecordSuccess, Goto
<1>8. CASE \/ Refused(w) \/ RecordFailure(w) \/ CommitSuccess(w)
           \/ ConfirmStatus(w) \/ \E k \in RecheckKeys : RecordPending(w, k)
  BY <1>0, <1>8 DEF Refused, FailTransfer, RecordFailure, CommitSuccess,
     ConfirmStatus, RecordPending, AfterConfirm, Goto
<1>9. CASE Process(w)
  BY <1>6, <1>7, <1>8, <1>9 DEF Process
<1> QED  BY <1>1, <1>2, <1>3, <1>4, <1>5, <1>9 DEF Next, Sweep

LEMMA WhoPersists ==
  ASSUME TypeOK, [Next]_vars, NEW t \in Transfers, recon'[t] # recon[t]
  PROVE  \E w \in Workers : PersistFinding(w) /\ recon'[t] = mem[w].finding
<1> USE DEF vars, transferVars, partnerVars, workerVars
<1>0. recon \in [Transfers -> Findings]
  BY DEF TypeOK
<1>1. ASSUME NEW w \in Workers, PersistFinding(w)
      PROVE  recon'[t] = mem[w].finding
  BY <1>0, <1>1 DEF PersistFinding
<1>2. ASSUME NEW w \in Workers, Process(w), ~PersistFinding(w)
      PROVE  UNCHANGED recon
  BY <1>2 DEF Process, PauseJob, PassGate, ReadTransfer, RejectMark, RejectJob,
     MarkProcessing, CallCollect, CallPayout, KeepPending, Refused, FailTransfer,
     RecordFailure, RecordPending, PostEntries, CommitSuccess, Lookup, LookupFailed,
     ConfirmStatus, RecordSuccess, DeriveFinding, ResolveSession
<1>3. ASSUME NEW w \in Workers, Dispatch(w) \/ Sweep(w) \/ Throw(w) \/ Crash(w)
      PROVE  UNCHANGED recon
  BY <1>3 DEF Dispatch, Sweep, Poll, Claim, SkipClaimed, RecheckSweep, ReconSweep,
     Throw, FailTransfer, Crash
<1>4. Environment => UNCHANGED recon
  BY DEF Environment, Initiate, Webhook, AdminRecheck, AdminReconcile, ManualRetry,
     Switch, Settle, LeaseLapses
<1> QED  BY <1>1, <1>2, <1>3, <1>4 DEF Next, Sweep

(* With one worker process that neither dies nor meets an exception, the        *)
(* reconciliation never reports a missing entry.                                *)
THEOREM AlarmsAreTrue ==
  ASSUME "throw" \notin Faults, "crash" \notin Faults, OneWorker
  PROVE  Spec => []NoFalseAlarm
<1> DEFINE Inv == BooksInv /\ SoundFindings
<1>1. Init => Inv
  BY BooksInit DEF Init, SoundFindings, NoFalseAlarm
<1>2. Inv /\ [Next]_vars => Inv'
  <2> SUFFICES ASSUME BooksInv, SoundFindings, [Next]_vars
               PROVE  BooksInv' /\ SoundFindings'
    OBVIOUS
  <2>0. BooksInv' /\ TypeOK
    BY BooksStep DEF BooksInv, BackedInv
  <2>1. ASSUME NEW w \in Workers, pc'[w] = "persist"
        PROVE  mem'[w].finding = "CONSISTENT"
    <3>1. CASE pc[w] = "persist" /\ mem'[w] = mem[w]
      BY <3>1 DEF SoundFindings
    <3>2. CASE DeriveFinding(w)
      <4>1. /\ pc[w] = "reconcile" /\ job[w].ref \in Transfers
            /\ Remember(w, [mem[w] EXCEPT !.finding =
                              Derive(status[job[w].ref], ledger[job[w].ref])])
        BY <2>0, <3>2, BusyWorker DEF DeriveFinding
      <4> DEFINE f == Derive(status[job[w].ref], ledger[job[w].ref])
      <4>2. \A t, s : ~Posting(t, s)
        BY <4>1 DEF Posting, OneWorker
      <4>3. f = "CONSISTENT"
        <5>1. ASSUME NEW t \in Transfers
              PROVE  /\ status[t] \in PostCollection => "collection" \in ledger[t]
                     /\ status[t] = "PAYOUT_SUCCESS" => "payout" \in ledger[t]
          <6>1. StatusPosted(t)
            BY DEF BooksInv
          <6> QED  BY <4>2, <6>1 DEF StatusPosted, CollectionPosted, PayoutPosted
        <5> QED  BY <4>1, <5>1 DEF PostCollection, Derive
      <4>4. mem[w] \in MemType
        BY <2>0 DEF TypeOK
      <4>5. Remember(w, [mem[w] EXCEPT !.finding = f])
        BY <4>1
      <4> HIDE DEF f
      <4>6. mem'[w] = [mem[w] EXCEPT !.finding = f]
        BY <2>0, <4>5, Recalls
      <4> QED  BY <4>3, <4>4, <4>6 DEF MemType
    <3> QED  BY <2>0, <2>1, <3>1, <3>2, WhoDerives
  <2>2. ASSUME NEW t \in Transfers PROVE recon'[t] \in {"NONE", "CONSISTENT"}
    <3>1. ASSUME NEW v \in Workers, PersistFinding(v)
          PROVE  mem[v].finding = "CONSISTENT"
      BY <3>1 DEF PersistFinding, SoundFindings
    <3>2. recon[t] \in {"NONE", "CONSISTENT"}
      BY DEF SoundFindings, NoFalseAlarm
    <3> QED  BY <2>0, <3>1, <3>2, WhoPersists
  <2> QED  BY <2>0, <2>1, <2>2 DEF SoundFindings, NoFalseAlarm
<1>3. Inv => NoFalseAlarm
  BY DEF SoundFindings
<1> QED  BY <1>1, <1>2, <1>3, PTL DEF Spec
=============================================================================
