--------------------------- MODULE TransferIntake ---------------------------
(* How a chat becomes a transfer: WhatsAppSessionService opens, cancels and      *)
(* expires sessions, TransferInitiationService accepts a transfer for the       *)
(* session of a chat, and the worker releases the session when the transfer is   *)
(* closed.                                                                      *)
(*                                                                              *)
(* Every operation is a READ COMMITTED transaction: one step reads, a later one  *)
(* commits, and rows are updated by id whatever they have become. Initiations    *)
(* of one chat exclude each other by an advisory lock that nothing else takes.   *)
EXTENDS LifecyclePolicy, Naturals, Sequences, FiniteSets, FiniteSetsExt

CONSTANTS
  Chats,
  Requests,     \* calls of initiate, with the inputs each carries
  Messages,     \* inbound messages, by externalEventId; each may be redelivered
  Callers,      \* API requests served at the same time
  SenderOf,     \* [Chats -> senders]: the phone and the profile behind a chat
  RequestChat,  \* [Requests -> Chats]
  KeyOf,        \* [Requests -> idempotency keys]
  SendMinor,    \* [Requests -> amounts to send]
  PayoutMinor,  \* [Requests -> amounts to pay out]
  MessageChat,  \* [Messages -> Chats]
  IntentOf,     \* [Messages -> Intents]
  DailyLimit,   \* of one sender
  GlobalDaily, MaxPending, MaxWaiting, MaxRecovery, MaxSettlement,
  MaxSessions,  \* bound on the sessions a run opens
  Operations    \* what may happen besides: "expire" a session without a
                \* transfer, "retry" a failed payout by hand, "pause" by control

Intents == {"START", "CONSENT", "CANCEL", "STATUS"}
NoTransfer == "none"
NoSession == 0

ASSUME IntakeAssumption ==
  /\ RequestChat \in [Requests -> Chats]
  /\ MessageChat \in [Messages -> Chats]
  /\ IntentOf \in [Messages -> Intents]
  /\ SendMinor \in [Requests -> Nat] /\ PayoutMinor \in [Requests -> Nat]
  /\ IsFiniteSet(Requests)
  /\ MaxSessions \in Nat /\ DailyLimit \in Nat
  /\ NoTransfer \notin Requests

VARIABLES
  sessions,   \* WhatsAppSession, in the order they were created
  handled,    \* WhatsAppInboundEvent
  status,     \* TransferTransaction.status of the transfer of a request
  jobs,       \* dedup keys of the jobs and notifications created
  enabled,    \* the three controls initiation needs
  pc, op      \* what each caller is doing, and what it has read for it

vars == <<sessions, handled, status, jobs, enabled, pc, op>>

NoOp == [about |-> "none", session |-> NoSession, status |-> "none",
         transfer |-> NoTransfer]

Accepted == {r \in Requests : status[r] # "NONE"}
Open == {r \in Accepted : status[r] \notin ClosedStatuses}

(* The session that holds activeChatKey, which is unique.                      *)
ActiveSession(c) ==
  LET active == {i \in DOMAIN sessions : sessions[i].chat = c /\ sessions[i].active}
  IN IF active = {} THEN NoSession ELSE CHOOSE i \in active : TRUE

(* What a caller remembers of session i.                                       *)
Seen(a, i) ==
  IF i = NoSession THEN [NoOp EXCEPT !.about = a]
  ELSE [about |-> a, session |-> i, status |-> sessions[i].status,
        transfer |-> sessions[i].transfer]

Init ==
  /\ sessions = <<>>
  /\ handled = {}
  /\ status = [r \in Requests |-> "NONE"]
  /\ jobs = {}
  /\ enabled = TRUE
  /\ pc = [p \in Callers |-> "idle"]
  /\ op = [p \in Callers |-> NoOp]

Go(p, label, memory) ==
  /\ pc' = [pc EXCEPT ![p] = label]
  /\ op' = [op EXCEPT ![p] = memory]

Finish(p) == Go(p, "idle", NoOp)

(* The transaction fails, is refused by a DomainError, or times out: whatever it *)
(* wrote is rolled back and the lock is free.                                   *)
Abort(p) ==
  /\ pc[p] # "idle"
  /\ Finish(p)
  /\ UNCHANGED <<sessions, handled, status, jobs, enabled>>

(* ------------------------------ acceptInbound ------------------------------ *)

(* A message that was not handled yet reads the session of its chat.           *)
Receive(p, m) ==
  /\ pc[p] = "idle"
  /\ m \notin handled
  /\ Go(p, "inbound", Seen(m, ActiveSession(MessageChat[m])))
  /\ UNCHANGED <<sessions, handled, status, jobs, enabled>>

Message(p) == op[p].about
ReadWaiting(p) == op[p].status = "WAITING" /\ op[p].transfer # NoTransfer

(* Mutant of Handle: externalEventId is not unique.                            *)
HandleTwice(p) ==
  /\ pc[p] = "inbound"
  /\ handled' = handled \union {Message(p)}
  /\ Finish(p)

(* The event row goes in with whatever else the message does; its id is unique, *)
(* so the second of two deliveries aborts.                                     *)
Handle(p) ==
  /\ pc[p] = "inbound"
  /\ Message(p) \notin handled
  /\ handled' = handled \union {Message(p)}
  /\ Finish(p)

AskStatus(p) ==
  /\ Handle(p)
  /\ ReadWaiting(p)
  /\ jobs' = jobs \union {<<"status-query", op[p].transfer>>}
  /\ UNCHANGED <<sessions, status, enabled>>

(* CANCEL closes a session that owned no transfer when it was read.            *)
CancelSession(p) ==
  /\ Handle(p)
  /\ op[p].session # NoSession /\ ~ReadWaiting(p)
  /\ IntentOf[Message(p)] = "CANCEL"
  /\ op[p].transfer = NoTransfer
  /\ sessions' = [sessions EXCEPT ![op[p].session].status = "CLOSED",
                                  ![op[p].session].active = FALSE]
  /\ UNCHANGED <<status, jobs, enabled>>

CaptureConsent(p) ==
  /\ Handle(p)
  /\ op[p].session # NoSession /\ ~ReadWaiting(p)
  /\ IntentOf[Message(p)] = "CONSENT"
  /\ op[p].transfer = NoTransfer
  /\ sessions' = [sessions EXCEPT ![op[p].session].consented = TRUE]
  /\ UNCHANGED <<status, jobs, enabled>>

(* CANCEL_NOT_AVAILABLE, ACTIVE_TRANSFER_SESSION or NO_ACTIVE_SESSION.         *)
RecordOnly(p) ==
  /\ Handle(p)
  /\ ~ReadWaiting(p)
  /\ IF op[p].session # NoSession
     THEN IntentOf[Message(p)] \in {"CANCEL", "CONSENT"} => op[p].transfer # NoTransfer
     ELSE IntentOf[Message(p)] \in {"CANCEL", "STATUS"}
  /\ UNCHANGED <<sessions, status, jobs, enabled>>

(* A second session with the same activeChatKey is refused by the unique index. *)
OpenSession(p) ==
  LET m == Message(p)
  IN /\ Handle(p)
     /\ op[p].session = NoSession
     /\ IntentOf[m] \notin {"CANCEL", "STATUS"}
     /\ ActiveSession(MessageChat[m]) = NoSession
     /\ Len(sessions) < MaxSessions
     /\ sessions' = Append(sessions,
          [chat |-> MessageChat[m], status |-> "ACTIVE", active |-> TRUE,
           transfer |-> NoTransfer, consented |-> IntentOf[m] = "CONSENT",
           opener |-> m])
     /\ UNCHANGED <<status, jobs, enabled>>

AcceptInbound(p) ==
  AskStatus(p) \/ CancelSession(p) \/ CaptureConsent(p) \/ RecordOnly(p) \/ OpenSession(p)

(* ------------------------------ expireSession ------------------------------ *)

(* An ACTIVE session whose fifteen minutes are over; time is not modelled.     *)
ReadExpired(p, i) ==
  /\ pc[p] = "idle"
  /\ sessions[i].status = "ACTIVE"
  /\ sessions[i].transfer = NoTransfer => "expire" \in Operations
  /\ Go(p, "expire", Seen("none", i))
  /\ UNCHANGED <<sessions, handled, status, jobs, enabled>>

CloseExpired(p) ==
  /\ pc[p] = "expire"
  /\ op[p].transfer = NoTransfer
  /\ sessions' = [sessions EXCEPT ![op[p].session].status = "CLOSED",
                                  ![op[p].session].active = FALSE]
  /\ Finish(p)
  /\ UNCHANGED <<handled, status, jobs, enabled>>

StartWaiting(p) ==
  /\ pc[p] = "expire"
  /\ op[p].transfer # NoTransfer
  /\ sessions' = [sessions EXCEPT ![op[p].session].status = "WAITING"]
  /\ jobs' = jobs \union {<<"timeout-status-recheck", op[p].transfer>>}
  /\ Finish(p)
  /\ UNCHANGED <<handled, status, enabled>>

ExpireSession(p) == CloseExpired(p) \/ StartWaiting(p)

(* -------------------------------- initiate --------------------------------- *)

(* pg_advisory_xact_lock: held until the transaction ends.                     *)
Locked(c) ==
  \E q \in Callers : pc[q] \in {"initiate", "accept"} /\ RequestChat[op[q].about] = c

KeyTaken(r) == \E a \in Accepted : KeyOf[a] = KeyOf[r]

(* Mutant of BeginInitiate: initiations of one chat may overlap.               *)
BeginUnlocked(p, r) ==
  LET i == ActiveSession(RequestChat[r])
  IN /\ pc[p] = "idle"
     /\ ~KeyTaken(r) /\ enabled
     /\ i # NoSession
     /\ sessions[i].transfer = NoTransfer /\ sessions[i].consented
     /\ Go(p, "initiate", Seen(r, i))
     /\ UNCHANGED <<sessions, handled, status, jobs, enabled>>

(* Mutant of BeginInitiate: a session may own several transfers in turn.       *)
BeginOwned(p, r) ==
  LET i == ActiveSession(RequestChat[r])
  IN /\ pc[p] = "idle"
     /\ ~Locked(RequestChat[r]) /\ ~KeyTaken(r) /\ enabled
     /\ i # NoSession
     /\ sessions[i].consented
     /\ Go(p, "initiate", Seen(r, i))
     /\ UNCHANGED <<sessions, handled, status, jobs, enabled>>

(* Mutant of BeginInitiate: consent is not looked at.                          *)
BeginUnconsented(p, r) ==
  LET i == ActiveSession(RequestChat[r])
  IN /\ pc[p] = "idle"
     /\ ~Locked(RequestChat[r]) /\ ~KeyTaken(r) /\ enabled
     /\ i # NoSession
     /\ sessions[i].transfer = NoTransfer
     /\ Go(p, "initiate", Seen(r, i))
     /\ UNCHANGED <<sessions, handled, status, jobs, enabled>>

(* The lock, the idempotency key, the controls and the session. A known key      *)
(* answers with the transfer it has, or with a conflict, and changes nothing.   *)
BeginInitiate(p, r) ==
  LET i == ActiveSession(RequestChat[r])
  IN /\ pc[p] = "idle"
     /\ ~Locked(RequestChat[r]) /\ ~KeyTaken(r) /\ enabled
     /\ i # NoSession
     /\ sessions[i].transfer = NoTransfer /\ sessions[i].consented
     /\ Go(p, "initiate", Seen(r, i))
     /\ UNCHANGED <<sessions, handled, status, jobs, enabled>>

SentBy(c) == {r \in Accepted : SenderOf[RequestChat[r]] = SenderOf[c]}
SumSend(S) == MapThenSumSet(LAMBDA r : SendMinor[r], S)
SumPayout(S) == MapThenSumSet(LAMBDA r : PayoutMinor[r], S)
InStatus(S) == {r \in Accepted : status[r] \in S}
Pending == InStatus({"INITIATED", "PENDING_COLLECTION", "PENDING_PAYOUT"})
Waiting == {i \in DOMAIN sessions : sessions[i].status = "WAITING"}

(* Mutant of WithinLimits: the transfer itself is not counted.                 *)
WithinLimitsSoFar(r) ==
  /\ SumSend(SentBy(RequestChat[r])) <= DailyLimit
  /\ Cardinality(Pending) < MaxPending
  /\ SumSend(Accepted) <= GlobalDaily
  /\ Cardinality(Waiting) < MaxWaiting
  /\ Cardinality(InStatus({"PAYOUT_FAILED"})) < MaxRecovery
  /\ SumPayout(InStatus({"PENDING_PAYOUT"})) <= MaxSettlement

(* The sender's and the pilot's limits, all of one day.                        *)
WithinLimits(r) ==
  /\ SumSend(SentBy(RequestChat[r])) + SendMinor[r] <= DailyLimit
  /\ Cardinality(Pending) < MaxPending
  /\ SumSend(Accepted) + SendMinor[r] <= GlobalDaily
  /\ Cardinality(Waiting) < MaxWaiting
  /\ Cardinality(InStatus({"PAYOUT_FAILED"})) < MaxRecovery
  /\ SumPayout(InStatus({"PENDING_PAYOUT"})) + PayoutMinor[r] <= MaxSettlement

(* The checks of the profile, the beneficiary and the corridor read data nothing *)
(* else here depends on: what they refuse is an Abort.                          *)
CheckLimits(p) ==
  /\ pc[p] = "initiate"
  /\ WithinLimits(op[p].about)
  /\ Go(p, "accept", op[p])
  /\ UNCHANGED <<sessions, handled, status, jobs, enabled>>

(* Mutant of AcceptTransfer: idempotencyKey is not unique.                     *)
AcceptAnyKey(p) ==
  LET r == op[p].about
  IN /\ pc[p] = "accept"
     /\ status' = [status EXCEPT ![r] = "INITIATED"]
     /\ jobs' = jobs \union {<<"COLLECTION", r>>}
     /\ sessions' = [sessions EXCEPT ![op[p].session].transfer = r]
     /\ Finish(p)
     /\ UNCHANGED <<handled, enabled>>

(* The transfer, its first job and its session, if the key is still free.      *)
AcceptTransfer(p) ==
  LET r == op[p].about
  IN /\ pc[p] = "accept"
     /\ ~KeyTaken(r)
     /\ status' = [status EXCEPT ![r] = "INITIATED"]
     /\ jobs' = jobs \union {<<"COLLECTION", r>>}
     /\ sessions' = [sessions EXCEPT ![op[p].session].transfer = r]
     /\ Finish(p)
     /\ UNCHANGED <<handled, enabled>>

(* ------------------------------- the worker -------------------------------- *)

(* TransferWorker moves the transfer on.                                       *)
Progress(r) ==
  /\ r \in Accepted
  /\ \E next \in Statuses :
       /\ <<status[r], next>> \in AllowedTransitions
       /\ status' = [status EXCEPT ![r] = next]
  /\ UNCHANGED <<sessions, handled, jobs, enabled, pc, op>>

(* prepareManualPayoutRetry leaves the session alone.                          *)
RetryPayout(r) ==
  /\ "retry" \in Operations
  /\ CanRetryPayout(status[r])
  /\ status' = [status EXCEPT ![r] = "PENDING_PAYOUT"]
  /\ UNCHANGED <<sessions, handled, jobs, enabled, pc, op>>

(* Mutant of ResolveSession: the session is closed and keeps its key.          *)
ResolveKeepingKey(r) ==
  /\ status[r] \in ClosedStatuses
  /\ sessions' = [i \in DOMAIN sessions |->
       IF sessions[i].transfer = r
       THEN [sessions[i] EXCEPT !.status = "CLOSED"]
       ELSE sessions[i]]
  /\ jobs' = jobs \union {<<"NOTIFICATION", r>>}
  /\ UNCHANGED <<handled, status, enabled, pc, op>>

(* resolveWaitingSession closes the session and tells the sender, once.        *)
ResolveSession(r) ==
  /\ status[r] \in ClosedStatuses
  /\ \E i \in DOMAIN sessions : sessions[i].transfer = r
  /\ sessions' = [i \in DOMAIN sessions |->
       IF sessions[i].transfer = r
       THEN [sessions[i] EXCEPT !.status = "CLOSED", !.active = FALSE]
       ELSE sessions[i]]
  /\ jobs' = jobs \union {<<"NOTIFICATION", r>>}
  /\ UNCHANGED <<handled, status, enabled, pc, op>>

SetControl ==
  /\ "pause" \in Operations
  /\ enabled' = ~enabled
  /\ UNCHANGED <<sessions, handled, status, jobs, pc, op>>

Next ==
  \/ \E p \in Callers :
       \/ \E m \in Messages : Receive(p, m)
       \/ AcceptInbound(p)
       \/ \E i \in DOMAIN sessions : ReadExpired(p, i)
       \/ ExpireSession(p)
       \/ \E r \in Requests : BeginInitiate(p, r)
       \/ CheckLimits(p) \/ AcceptTransfer(p)
       \/ Abort(p)
  \/ \E r \in Requests : Progress(r) \/ RetryPayout(r) \/ ResolveSession(r)
  \/ SetControl

Spec == Init /\ [][Next]_vars

(* ------------------------------ Properties --------------------------------- *)

(* An accepted transfer belongs to exactly one session, of its own chat, so the  *)
(* sender can be told how it ended.                                            *)
OwnedByOneSession ==
  \A r \in Accepted :
    \E i \in DOMAIN sessions :
      /\ sessions[i].transfer = r /\ sessions[i].chat = RequestChat[r]
      /\ \A k \in DOMAIN sessions : sessions[k].transfer = r => k = i

(* No transfer is accepted for a session without consent.                      *)
ConsentFirst ==
  \A i \in DOMAIN sessions : sessions[i].transfer # NoTransfer => sessions[i].consented

(* A message opens one session at most, however often it is delivered.         *)
OpenedOnce ==
  \A i, k \in DOMAIN sessions : sessions[i].opener = sessions[k].opener => i = k

(* An idempotency key makes one transfer at most, across chats too.            *)
KeyUsedOnce ==
  \A r, q \in Accepted : KeyOf[r] = KeyOf[q] => r = q

(* A sender who has one chat never sends more than the daily limit.            *)
SenderWithinLimit ==
  \A c \in Chats : SumSend(SentBy(c)) <= DailyLimit

(* A chat has one transfer under way at most.                                  *)
OneTransferPerChat ==
  \A r, q \in Open : RequestChat[r] = RequestChat[q] => r = q

(* Once the sender was told how a transfer ended, the chat is free of it, and     *)
(* stays so.                                                                   *)
ToldMeansFree ==
  \A i \in DOMAIN sessions :
    <<"NOTIFICATION", sessions[i].transfer>> \in jobs => ~sessions[i].active
=============================================================================
