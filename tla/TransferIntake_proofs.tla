------------------------ MODULE TransferIntake_proofs ------------------------
(* What intake promises, whatever messages, expiries and initiations race, for   *)
(* any number of chats, requests, messages and callers: an accepted transfer     *)
(* belongs to one consented session of its chat, a key makes one transfer, a     *)
(* message opens one session, a sender who was told an end has a free chat, and  *)
(* what a sender spends stays within the daily limit.                            *)
(*                                                                              *)
(* The argument: initiations of a chat exclude each other, and nothing else      *)
(* writes transferId or takes a consent back. So what an initiation read of its  *)
(* session still holds when it commits, however stale the rest of it is.         *)
(* That the session is still active is not part of this: a CANCEL, an expiry or  *)
(* a payout retried by hand may overtake it, and as long as none does, a chat    *)
(* has one transfer under way at most. What a sender spent, the sum the limit    *)
(* bounds, also holds still under the lock, for a sender who has one chat.       *)
EXTENDS TransferIntake, SequenceTheorems, FiniteSetTheorems, WellFoundedInduction,
        TLAPS

SessionType ==
  [chat: Chats, status: {"ACTIVE", "WAITING", "CLOSED"}, active: BOOLEAN,
   transfer: Requests \union {NoTransfer}, consented: BOOLEAN, opener: Messages]

OpType ==
  [about: Messages \union Requests \union {"none"}, session: Nat,
   status: {"none", "ACTIVE", "WAITING", "CLOSED"},
   transfer: Requests \union {NoTransfer}]

ShapeInv ==
  /\ sessions \in Seq(SessionType)
  /\ status \in [Requests -> Statuses \union {"NONE"}]
  /\ pc \in [Callers -> {"idle", "inbound", "expire", "initiate", "accept"}]
  /\ op \in [Callers -> OpType]
  /\ \A p \in Callers : pc[p] = "inbound" => op[p].about \in Messages
  /\ \A p \in Callers : pc[p] \in {"initiate", "accept"} => op[p].about \in Requests
  /\ \A p \in Callers : op[p].session \in DOMAIN sessions \union {NoSession}

Initiating(p) == pc[p] \in {"initiate", "accept"}

(* One initiation at a time in a chat, and what it read is still so.           *)
LockInv ==
  /\ \A p, q \in Callers :
       Initiating(p) /\ Initiating(q) /\ RequestChat[op[p].about] = RequestChat[op[q].about]
         => p = q
  /\ \A p \in Callers : Initiating(p) =>
       /\ op[p].session \in DOMAIN sessions
       /\ sessions[op[p].session].chat = RequestChat[op[p].about]
       /\ sessions[op[p].session].transfer = NoTransfer
       /\ sessions[op[p].session].consented

(* Transfers and the sessions that own them.                                   *)
OwnerInv ==
  /\ \A i \in DOMAIN sessions :
       sessions[i].transfer # NoTransfer =>
         /\ sessions[i].transfer \in Accepted
         /\ sessions[i].chat = RequestChat[sessions[i].transfer]
         /\ sessions[i].consented
  /\ \A i, k \in DOMAIN sessions :
       sessions[i].transfer # NoTransfer /\ sessions[i].transfer = sessions[k].transfer
         => i = k
  /\ \A r \in Accepted : \E i \in DOMAIN sessions : sessions[i].transfer = r

IntakeInv == ShapeInv /\ LockInv /\ OwnerInv

(* What every step but an acceptance does to the sessions: it may add some, and   *)
(* leaves chats, owners and given consents alone.                              *)
SessionsGrow ==
  /\ sessions' \in Seq(SessionType)
  /\ DOMAIN sessions \subseteq DOMAIN sessions'
  /\ \A i \in DOMAIN sessions :
       /\ sessions'[i].chat = sessions[i].chat
       /\ sessions'[i].transfer = sessions[i].transfer
       /\ sessions[i].consented => sessions'[i].consented
  /\ \A i \in DOMAIN sessions' \ DOMAIN sessions : sessions'[i].transfer = NoTransfer

SameAccepted ==
  /\ status' \in [Requests -> Statuses \union {"NONE"}]
  /\ \A r \in Requests : status'[r] = "NONE" <=> status[r] = "NONE"

NoNewInitiation ==
  \A p \in Callers : Initiating(p)' => Initiating(p) /\ op'[p] = op[p]

LEMMA OwnerKept ==
  ASSUME ShapeInv, OwnerInv, SessionsGrow, SameAccepted
  PROVE  OwnerInv'
<1>1. Accepted' = Accepted
  BY DEF SameAccepted, Accepted
<1>2. ASSUME NEW i \in DOMAIN sessions', sessions'[i].transfer # NoTransfer
      PROVE  i \in DOMAIN sessions /\ sessions[i].transfer = sessions'[i].transfer
  BY <1>2 DEF SessionsGrow
<1>3. \A i \in DOMAIN sessions' :
        sessions'[i].transfer # NoTransfer =>
          /\ sessions'[i].transfer \in Accepted
          /\ sessions'[i].chat = RequestChat[sessions'[i].transfer]
          /\ sessions'[i].consented
  BY <1>2 DEF OwnerInv, SessionsGrow
<1>4. \A i, k \in DOMAIN sessions' :
        sessions'[i].transfer # NoTransfer /\ sessions'[i].transfer = sessions'[k].transfer
          => i = k
  BY <1>2 DEF OwnerInv
<1>5. \A r \in Accepted : \E i \in DOMAIN sessions' : sessions'[i].transfer = r
  BY DEF OwnerInv, SessionsGrow
<1> QED  BY <1>1, <1>3, <1>4, <1>5 DEF OwnerInv

LEMMA LockKept ==
  ASSUME LockInv, SessionsGrow, NoNewInitiation
  PROVE  LockInv'
  BY DEF LockInv, SessionsGrow, NoNewInitiation, Initiating

(* A caller that goes on to label with a proper memory.                        *)
LEMMA ShapeGo ==
  ASSUME ShapeInv, SessionsGrow, status' \in [Requests -> Statuses \union {"NONE"}],
         NEW p \in Callers, NEW m \in OpType,
         NEW label \in {"idle", "inbound", "expire", "initiate", "accept"},
         Go(p, label, m),
         label = "inbound" => m.about \in Messages,
         label \in {"initiate", "accept"} => m.about \in Requests,
         m.session \in DOMAIN sessions \union {NoSession}
  PROVE  ShapeInv'
  BY DEF ShapeInv, Go, SessionsGrow

LEMMA ShapeStill ==
  ASSUME ShapeInv, SessionsGrow, status' \in [Requests -> Statuses \union {"NONE"}],
         UNCHANGED <<pc, op>>
  PROVE  ShapeInv'
  BY DEF ShapeInv, SessionsGrow

LEMMA SameSessions ==
  ASSUME ShapeInv, UNCHANGED sessions
  PROVE  SessionsGrow
  BY DEF ShapeInv, SessionsGrow

LEMMA SameStatus ==
  ASSUME ShapeInv, UNCHANGED status
  PROVE  SameAccepted
  BY DEF ShapeInv, SameAccepted

(* One session is rewritten.                                                   *)
LEMMA UpdateSession ==
  ASSUME ShapeInv, NEW i \in DOMAIN sessions, NEW s \in SessionType,
         s.chat = sessions[i].chat, s.transfer = sessions[i].transfer,
         sessions[i].consented => s.consented,
         sessions' = [sessions EXCEPT ![i] = s]
  PROVE  SessionsGrow
<1>1. i \in 1..Len(sessions) /\ DOMAIN sessions = 1..Len(sessions)
  BY LenProperties DEF ShapeInv
<1>2. sessions' \in Seq(SessionType)
  BY <1>1, ExceptSeq DEF ShapeInv
<1> QED  BY <1>2 DEF SessionsGrow

LEMMA ActiveSessionIs ==
  ASSUME NEW c, ActiveSession(c) # NoSession
  PROVE  /\ ActiveSession(c) \in DOMAIN sessions
         /\ sessions[ActiveSession(c)].chat = c
<1> DEFINE active == {i \in DOMAIN sessions : sessions[i].chat = c /\ sessions[i].active}
<1>1. active # {} /\ ActiveSession(c) = CHOOSE i \in active : TRUE
  BY DEF ActiveSession
<1>2. ActiveSession(c) \in active
  BY <1>1
<1> QED  BY <1>2

LEMMA SeenType ==
  ASSUME ShapeInv, NEW a \in Messages \union Requests \union {"none"},
         NEW i \in DOMAIN sessions \union {NoSession}
  PROVE  /\ Seen(a, i) \in OpType
         /\ Seen(a, i).about = a /\ Seen(a, i).session = i
         /\ NoOp \in OpType /\ NoOp.session = NoSession
<1>1. NoOp \in OpType /\ NoOp.session = NoSession
  BY DEF NoOp, OpType, NoSession
<1>2. CASE i = NoSession
  BY <1>1, <1>2 DEF Seen, NoOp, OpType, NoSession
<1>3. CASE i # NoSession
  <2>1. i \in DOMAIN sessions /\ i \in Nat /\ sessions[i] \in SessionType
    BY <1>3, LenProperties, ElementOfSeq DEF ShapeInv
  <2> QED  BY <1>1, <1>3, <2>1 DEF Seen, OpType, SessionType
<1> QED  BY <1>2, <1>3

LEMMA IntakeInit == Init => IntakeInv
<1> SUFFICES ASSUME Init
             PROVE  IntakeInv
  OBVIOUS
<1>1. sessions \in Seq(SessionType) /\ DOMAIN sessions = {}
  BY EmptySeq DEF Init
<1>2. NoOp \in OpType /\ NoOp.session = NoSession
  BY DEF NoOp, OpType, NoSession
<1>3. ShapeInv
  BY <1>1, <1>2 DEF Init, ShapeInv
<1>4. LockInv
  BY DEF Init, LockInv, Initiating
<1>5. OwnerInv
  BY <1>1 DEF Init, OwnerInv, Accepted
<1> QED  BY <1>3, <1>4, <1>5 DEF IntakeInv

(* A step that keeps sessions, acceptances and running initiations as they were. *)
LEMMA Harmless ==
  ASSUME IntakeInv, SessionsGrow, SameAccepted, NoNewInitiation, ShapeInv'
  PROVE  IntakeInv'
  BY OwnerKept, LockKept DEF IntakeInv

(* A caller that finishes without having changed a status.                     *)
LEMMA FinishHarmless ==
  ASSUME IntakeInv, SessionsGrow, UNCHANGED status, NEW p \in Callers, Finish(p)
  PROVE  IntakeInv'
<1>1. ShapeInv /\ SameAccepted
  BY SameStatus DEF IntakeInv
<1>2. NoOp \in OpType /\ NoOp.session = NoSession
  BY DEF NoOp, OpType, NoSession
<1>3. ShapeInv'
  BY <1>1, <1>2, ShapeGo DEF Finish, SameAccepted
<1>4. NoNewInitiation
  BY <1>1 DEF Finish, Go, NoNewInitiation, Initiating, ShapeInv
<1> QED  BY <1>1, <1>3, <1>4, Harmless

LEMMA ReceiveStep ==
  ASSUME IntakeInv, NEW p \in Callers, NEW m \in Messages, Receive(p, m)
  PROVE  IntakeInv'
<1>1. ShapeInv /\ SessionsGrow /\ SameAccepted
  BY SameSessions, SameStatus DEF IntakeInv, Receive
<1> DEFINE i == ActiveSession(MessageChat[m])
<1>2. i \in DOMAIN sessions \union {NoSession}
  BY ActiveSessionIs
<1>3. Seen(m, i) \in OpType /\ Seen(m, i).about = m /\ Seen(m, i).session = i
  BY <1>1, <1>2, SeenType
<1>4. ShapeInv'
  BY <1>1, <1>2, <1>3, ShapeGo DEF Receive, SameAccepted
<1>5. NoNewInitiation
  BY <1>1 DEF Receive, Go, NoNewInitiation, Initiating, ShapeInv
<1> QED  BY <1>1, <1>4, <1>5, Harmless

LEMMA ReadExpiredStep ==
  ASSUME IntakeInv, NEW p \in Callers, NEW i \in DOMAIN sessions, ReadExpired(p, i)
  PROVE  IntakeInv'
<1>1. ShapeInv /\ SessionsGrow /\ SameAccepted
  BY SameSessions, SameStatus DEF IntakeInv, ReadExpired
<1>2. Seen("none", i) \in OpType /\ Seen("none", i).session = i
  BY <1>1, SeenType
<1>3. ShapeInv'
  BY <1>1, <1>2, ShapeGo DEF ReadExpired, SameAccepted
<1>4. NoNewInitiation
  BY <1>1 DEF ReadExpired, Go, NoNewInitiation, Initiating, ShapeInv
<1> QED  BY <1>1, <1>3, <1>4, Harmless

(* Cancelling, consenting and expiring rewrite one session.                    *)
LEMMA RewriteStep ==
  ASSUME IntakeInv, NEW p \in Callers,
         CancelSession(p) \/ CaptureConsent(p) \/ ExpireSession(p)
  PROVE  IntakeInv'
<1> DEFINE i == op[p].session
<1>1. ShapeInv
  BY DEF IntakeInv
<1>2. CASE i \in DOMAIN sessions
  <2>1. sessions[i] \in SessionType
    BY <1>1, <1>2, LenProperties, ElementOfSeq DEF ShapeInv
  <2>2. CASE CancelSession(p) \/ CloseExpired(p)
    <3> DEFINE s == [sessions[i] EXCEPT !.status = "CLOSED", !.active = FALSE]
    <3>1. sessions' = [sessions EXCEPT ![i] = s]
      BY <2>2 DEF CancelSession, CloseExpired
    <3>2. s \in SessionType /\ s.chat = sessions[i].chat
          /\ s.transfer = sessions[i].transfer /\ s.consented = sessions[i].consented
      BY <2>1 DEF SessionType
    <3>3. SessionsGrow
      BY <1>1, <1>2, <3>1, <3>2, UpdateSession
    <3> QED  BY <2>2, <3>3, FinishHarmless DEF CancelSession, CloseExpired, Handle
  <2>3. CASE CaptureConsent(p)
    <3> DEFINE s == [sessions[i] EXCEPT !.consented = TRUE]
    <3>1. sessions' = [sessions EXCEPT ![i] = s]
      BY <2>3 DEF CaptureConsent
    <3>2. s \in SessionType /\ s.chat = sessions[i].chat
          /\ s.transfer = sessions[i].transfer /\ s.consented
      BY <2>1 DEF SessionType
    <3>3. SessionsGrow
      BY <1>1, <1>2, <3>1, <3>2, UpdateSession
    <3> QED  BY <2>3, <3>3, FinishHarmless DEF CaptureConsent, Handle
  <2>4. CASE StartWaiting(p)
    <3> DEFINE s == [sessions[i] EXCEPT !.status = "WAITING"]
    <3>1. sessions' = [sessions EXCEPT ![i] = s]
      BY <2>4 DEF StartWaiting
    <3>2. s \in SessionType /\ s.chat = sessions[i].chat
          /\ s.transfer = sessions[i].transfer /\ s.consented = sessions[i].consented
      BY <2>1 DEF SessionType
    <3>3. SessionsGrow
      BY <1>1, <1>2, <3>1, <3>2, UpdateSession
    <3> QED  BY <2>4, <3>3, FinishHarmless DEF StartWaiting
  <2> QED  BY <2>2, <2>3, <2>4 DEF ExpireSession
<1>3. CASE i \notin DOMAIN sessions
  <2>1. sessions' = sessions
    BY <1>1, <1>3 DEF CancelSession, CaptureConsent, ExpireSession, CloseExpired,
       StartWaiting, ShapeInv
  <2>2. SessionsGrow
    BY <1>1, <2>1, SameSessions
  <2> QED  BY <2>2, FinishHarmless DEF CancelSession, CaptureConsent, ExpireSession,
       CloseExpired, StartWaiting, Handle
<1> QED  BY <1>2, <1>3

LEMMA OpenStep ==
  ASSUME IntakeInv, NEW p \in Callers, OpenSession(p)
  PROVE  IntakeInv'
<1> DEFINE m == op[p].about
           s == [chat |-> MessageChat[m], status |-> "ACTIVE", active |-> TRUE,
                 transfer |-> NoTransfer, consented |-> IntentOf[m] = "CONSENT",
                 opener |-> m]
<1>1. ShapeInv /\ m \in Messages
  BY DEF IntakeInv, ShapeInv, OpenSession, Handle
<1>2. s \in SessionType
  BY <1>1, IntakeAssumption DEF SessionType
<1>3. sessions' = Append(sessions, s)
  BY DEF OpenSession, Message
<1>4. sessions \in Seq(SessionType) /\ Len(sessions) \in Nat
      /\ DOMAIN sessions = 1..Len(sessions)
  BY <1>1, LenProperties DEF ShapeInv
<1>5. sessions' \in Seq(SessionType) /\ DOMAIN sessions' = 1..(Len(sessions) + 1)
      /\ sessions'[Len(sessions) + 1] = s
      /\ \A i \in DOMAIN sessions : sessions'[i] = sessions[i]
  BY <1>2, <1>3, <1>4
<1>6. SessionsGrow
  <2>1. \A i \in DOMAIN sessions' \ DOMAIN sessions : i = Len(sessions) + 1
    BY <1>4, <1>5
  <2>2. s.transfer = NoTransfer
    OBVIOUS
  <2>3. \A i \in DOMAIN sessions' \ DOMAIN sessions : sessions'[i].transfer = NoTransfer
    BY <1>5, <2>1, <2>2
  <2>4. DOMAIN sessions \subseteq DOMAIN sessions'
    BY <1>4, <1>5
  <2> HIDE DEF s
  <2> QED  BY <1>5, <2>3, <2>4 DEF SessionsGrow
<1> QED  BY <1>6, FinishHarmless DEF OpenSession, Handle

(* Nothing is written but events and jobs.                                     *)
LEMMA RecordStep ==
  ASSUME IntakeInv, NEW p \in Callers, AskStatus(p) \/ RecordOnly(p) \/ Abort(p)
  PROVE  IntakeInv'
<1>1. SessionsGrow
  BY SameSessions DEF IntakeInv, AskStatus, RecordOnly, Abort
<1> QED  BY <1>1, FinishHarmless DEF AskStatus, RecordOnly, Abort, Handle

(* The lock keeps every other initiation of the chat out.                      *)
LEMMA BeginStep ==
  ASSUME IntakeInv, NEW p \in Callers, NEW r \in Requests, BeginInitiate(p, r)
  PROVE  IntakeInv'
<1> DEFINE i == ActiveSession(RequestChat[r])
<1>1. ShapeInv /\ LockInv /\ OwnerInv /\ SessionsGrow /\ SameAccepted
  BY SameSessions, SameStatus DEF IntakeInv, BeginInitiate
<1>2. i \in DOMAIN sessions /\ sessions[i].chat = RequestChat[r]
      /\ sessions[i].transfer = NoTransfer /\ sessions[i].consented
  BY ActiveSessionIs DEF BeginInitiate
<1>3. Seen(r, i) \in OpType /\ Seen(r, i).about = r /\ Seen(r, i).session = i
  BY <1>1, <1>2, SeenType
<1>4. ShapeInv'
  BY <1>1, <1>2, <1>3, ShapeGo DEF BeginInitiate, SameAccepted
<1>5. /\ pc'[p] = "initiate" /\ op'[p] = Seen(r, i)
      /\ \A q \in Callers \ {p} : pc'[q] = pc[q] /\ op'[q] = op[q]
  BY <1>1 DEF BeginInitiate, Go, ShapeInv
<1>6. \A q \in Callers : Initiating(q) => RequestChat[op[q].about] # RequestChat[r]
  BY DEF BeginInitiate, Locked, Initiating
<1>7. UNCHANGED sessions
  BY DEF BeginInitiate
<1>8. \A a, b \in Callers :
        Initiating(a)' /\ Initiating(b)'
        /\ RequestChat[op'[a].about] = RequestChat[op'[b].about]
          => a = b
  BY <1>1, <1>3, <1>5, <1>6 DEF LockInv, Initiating
<1>9. \A q \in Callers : Initiating(q)' =>
        /\ op'[q].session \in DOMAIN sessions
        /\ sessions[op'[q].session].chat = RequestChat[op'[q].about]
        /\ sessions[op'[q].session].transfer = NoTransfer
        /\ sessions[op'[q].session].consented
  BY <1>1, <1>2, <1>3, <1>5 DEF LockInv, Initiating
<1>10. LockInv'
  BY <1>7, <1>8, <1>9 DEF LockInv
<1> QED  BY <1>1, <1>4, <1>10, OwnerKept DEF IntakeInv

LEMMA CheckStep ==
  ASSUME IntakeInv, NEW p \in Callers, CheckLimits(p)
  PROVE  IntakeInv'
<1>1. ShapeInv /\ SessionsGrow /\ SameAccepted
  BY SameSessions, SameStatus DEF IntakeInv, CheckLimits
<1>2. op[p] \in OpType /\ op[p].about \in Requests
      /\ op[p].session \in DOMAIN sessions \union {NoSession}
  BY <1>1 DEF ShapeInv, CheckLimits
<1>3. ShapeInv'
  BY <1>1, <1>2, ShapeGo DEF CheckLimits, SameAccepted
<1>4. NoNewInitiation
  BY <1>1 DEF CheckLimits, Go, NoNewInitiation, Initiating, ShapeInv
<1> QED  BY <1>1, <1>3, <1>4, Harmless

(* What the initiation read of its session still holds: it takes ownership.    *)
LEMMA AcceptStep ==
  ASSUME IntakeInv, NEW p \in Callers, AcceptTransfer(p)
  PROVE  IntakeInv'
<1> DEFINE r == op[p].about
           i == op[p].session
           s == [sessions[i] EXCEPT !.transfer = r]
<1>1. ShapeInv /\ LockInv /\ OwnerInv /\ Initiating(p)
  BY DEF IntakeInv, AcceptTransfer, Initiating
<1>2. r \in Requests /\ r # NoTransfer
  BY <1>1, IntakeAssumption DEF ShapeInv, Initiating
<1>3. i \in DOMAIN sessions /\ sessions[i].chat = RequestChat[r]
      /\ sessions[i].transfer = NoTransfer /\ sessions[i].consented
  BY <1>1 DEF LockInv
<1>4. r \notin Accepted /\ \A k \in DOMAIN sessions : sessions[k].transfer # r
  BY <1>1, <1>2 DEF AcceptTransfer, KeyTaken, OwnerInv
<1>5. sessions[i] \in SessionType /\ DOMAIN sessions = 1..Len(sessions)
  BY <1>1, <1>3, LenProperties, ElementOfSeq DEF ShapeInv
<1>6. s \in SessionType /\ s.transfer = r /\ s.chat = sessions[i].chat
      /\ s.consented = sessions[i].consented
  BY <1>2, <1>5 DEF SessionType
<1>7. sessions' = [sessions EXCEPT ![i] = s]
  BY DEF AcceptTransfer
<1>8. sessions' \in Seq(SessionType) /\ DOMAIN sessions' = DOMAIN sessions
      /\ sessions'[i] = s
      /\ \A k \in DOMAIN sessions \ {i} : sessions'[k] = sessions[k]
  <2>1. sessions' \in Seq(SessionType)
    BY <1>1, <1>3, <1>5, <1>6, <1>7, ExceptSeq DEF ShapeInv
  <2> QED  BY <1>3, <1>7, <2>1
<1>9. status' = [status EXCEPT ![r] = "INITIATED"] /\ Accepted' = Accepted \union {r}
  BY <1>1, <1>2 DEF AcceptTransfer, Accepted, ShapeInv
<1>10. /\ pc'[p] = "idle" /\ op'[p] = NoOp
       /\ \A q \in Callers \ {p} : pc'[q] = pc[q] /\ op'[q] = op[q]
  BY <1>1 DEF AcceptTransfer, Finish, Go, ShapeInv
<1>11. ShapeInv'
  <2>1. status' \in [Requests -> Statuses \union {"NONE"}]
    BY <1>1, <1>9 DEF ShapeInv, Statuses, PreCollection
  <2>2. pc' \in [Callers -> {"idle", "inbound", "expire", "initiate", "accept"}]
        /\ op' \in [Callers -> OpType]
    BY <1>1 DEF AcceptTransfer, Finish, Go, ShapeInv, NoOp, OpType, NoSession
  <2>3. NoOp.session = NoSession
    BY DEF NoOp
  <2> QED  BY <1>1, <1>8, <1>10, <2>1, <2>2, <2>3 DEF ShapeInv
<1>12. LockInv'
  <2>1. \A q \in Callers : Initiating(q)' => q # p /\ Initiating(q) /\ op'[q] = op[q]
    BY <1>10 DEF Initiating
  <2>2. \A q \in Callers : Initiating(q)' => op[q].session # i
    BY <1>1, <1>3, <2>1 DEF LockInv
  <2> QED  BY <1>1, <1>8, <2>1, <2>2 DEF LockInv
<1>13. OwnerInv'
  <2> HIDE DEF s
  <2>1. \A k \in DOMAIN sessions :
          sessions'[k].transfer # NoTransfer =>
            /\ sessions'[k].transfer \in Accepted \union {r}
            /\ sessions'[k].chat = RequestChat[sessions'[k].transfer]
            /\ sessions'[k].consented
    <3>1. ASSUME NEW k \in DOMAIN sessions, k # i, sessions'[k].transfer # NoTransfer
          PROVE  /\ sessions'[k].transfer \in Accepted
                 /\ sessions'[k].chat = RequestChat[sessions'[k].transfer]
                 /\ sessions'[k].consented
      <4>1. sessions'[k] = sessions[k]
        BY <1>8, <3>1
      <4> QED  BY <1>1, <3>1, <4>1 DEF OwnerInv
    <3>2. sessions'[i].transfer = r /\ sessions'[i].chat = RequestChat[r]
      BY <1>3, <1>6, <1>8
    <3>3. sessions'[i].consented
      BY <1>3, <1>6, <1>8
    <3> QED  BY <3>1, <3>2, <3>3
  <2>2. \A k, l \in DOMAIN sessions :
          sessions'[k].transfer # NoTransfer /\ sessions'[k].transfer = sessions'[l].transfer
            => k = l
    BY <1>1, <1>4, <1>6, <1>8 DEF OwnerInv
  <2>3. \A q \in Accepted \union {r} : \E k \in DOMAIN sessions : sessions'[k].transfer = q
    <3>1. sessions'[i].transfer = r
      BY <1>6, <1>8
    <3>2. ASSUME NEW q \in Accepted
          PROVE  \E k \in DOMAIN sessions : sessions'[k].transfer = q
      <4>1. PICK k \in DOMAIN sessions : sessions[k].transfer = q
        BY <1>1, <3>2 DEF OwnerInv
      <4>2. q # NoTransfer
        BY <3>2, IntakeAssumption DEF Accepted
      <4>3. sessions'[k] = sessions[k]
        BY <1>3, <1>8, <4>1, <4>2
      <4> QED  BY <4>1, <4>3
    <3> QED  BY <1>3, <3>1, <3>2
  <2> QED  BY <1>8, <1>9, <2>1, <2>2, <2>3 DEF OwnerInv
<1> QED  BY <1>11, <1>12, <1>13 DEF IntakeInv

LEMMA WorkerStep ==
  ASSUME IntakeInv, NEW r \in Requests, Progress(r) \/ RetryPayout(r)
  PROVE  IntakeInv'
<1>1. ShapeInv /\ SessionsGrow
  BY SameSessions DEF IntakeInv, Progress, RetryPayout
<1>2. \A s \in Statuses : s # "NONE"
  BY DEF Statuses, PreCollection, PostCollection
<1>3. status[r] # "NONE"
  BY DEF Progress, RetryPayout, Accepted, CanRetryPayout
<1>4. PICK s \in Statuses : status' = [status EXCEPT ![r] = s]
  BY DEF Progress, RetryPayout, Statuses, PostCollection
<1>5. SameAccepted
  BY <1>1, <1>2, <1>3, <1>4 DEF SameAccepted, ShapeInv
<1>6. ShapeInv' /\ NoNewInitiation
  BY <1>1, <1>5, ShapeStill DEF Progress, RetryPayout, NoNewInitiation, Initiating,
     SameAccepted
<1> QED  BY <1>1, <1>5, <1>6, Harmless

LEMMA ResolveStep ==
  ASSUME IntakeInv, NEW r \in Requests, ResolveSession(r)
  PROVE  IntakeInv'
<1>1. ShapeInv /\ SameAccepted
  BY SameStatus DEF IntakeInv, ResolveSession
<1>2. sessions \in Seq(SessionType) /\ Len(sessions) \in Nat
      /\ DOMAIN sessions = 1..Len(sessions)
  BY <1>1, LenProperties DEF ShapeInv
<1>3. DOMAIN sessions' = DOMAIN sessions
  BY DEF ResolveSession
<1>4. ASSUME NEW i \in DOMAIN sessions
      PROVE  /\ sessions'[i] \in SessionType
             /\ sessions'[i].chat = sessions[i].chat
             /\ sessions'[i].transfer = sessions[i].transfer
             /\ sessions'[i].consented = sessions[i].consented
  <2>1. sessions[i] \in SessionType
    BY <1>2, ElementOfSeq
  <2>2. \/ sessions'[i] = sessions[i]
        \/ sessions'[i] = [sessions[i] EXCEPT !.status = "CLOSED", !.active = FALSE]
    BY DEF ResolveSession
  <2> QED  BY <2>1, <2>2 DEF SessionType
<1>5. sessions' \in Seq(SessionType)
  <2>1. sessions' \in [1..Len(sessions) -> SessionType]
    BY <1>2, <1>3, <1>4 DEF ResolveSession
  <2> QED  BY <1>2, <2>1, SeqDef
<1>6. SessionsGrow
  BY <1>3, <1>4, <1>5 DEF SessionsGrow
<1>7. ShapeInv' /\ NoNewInitiation
  BY <1>1, <1>6, ShapeStill DEF ResolveSession, NoNewInitiation, Initiating, SameAccepted
<1> QED  BY <1>1, <1>6, <1>7, Harmless

LEMMA QuietStep ==
  ASSUME IntakeInv, SetControl \/ UNCHANGED vars
  PROVE  IntakeInv'
<1>1. ShapeInv /\ SessionsGrow /\ SameAccepted
  BY SameSessions, SameStatus DEF IntakeInv, SetControl, vars
<1>2. ShapeInv' /\ NoNewInitiation
  BY <1>1, ShapeStill DEF SetControl, vars, NoNewInitiation, Initiating, SameAccepted
<1> QED  BY <1>1, <1>2, Harmless

LEMMA IntakeStep == IntakeInv /\ [Next]_vars => IntakeInv'
<1> SUFFICES ASSUME IntakeInv, [Next]_vars
             PROVE  IntakeInv'
  OBVIOUS
<1>1. ASSUME NEW p \in Callers, NEW m \in Messages, Receive(p, m)
      PROVE  IntakeInv'
  BY <1>1, ReceiveStep
<1>2. ASSUME NEW p \in Callers, AcceptInbound(p)
      PROVE  IntakeInv'
  BY <1>2, RecordStep, RewriteStep, OpenStep DEF AcceptInbound
<1>3. ASSUME NEW p \in Callers, NEW i \in DOMAIN sessions, ReadExpired(p, i)
      PROVE  IntakeInv'
  BY <1>3, ReadExpiredStep
<1>4. ASSUME NEW p \in Callers, ExpireSession(p)
      PROVE  IntakeInv'
  BY <1>4, RewriteStep
<1>5. ASSUME NEW p \in Callers, NEW r \in Requests, BeginInitiate(p, r)
      PROVE  IntakeInv'
  BY <1>5, BeginStep
<1>6. ASSUME NEW p \in Callers, CheckLimits(p) \/ AcceptTransfer(p) \/ Abort(p)
      PROVE  IntakeInv'
  BY <1>6, CheckStep, AcceptStep, RecordStep
<1>7. ASSUME NEW r \in Requests, Progress(r) \/ RetryPayout(r) \/ ResolveSession(r)
      PROVE  IntakeInv'
  BY <1>7, WorkerStep, ResolveStep
<1>8. CASE SetControl \/ UNCHANGED vars
  BY <1>8, QuietStep
<1> QED  BY <1>1, <1>2, <1>3, <1>4, <1>5, <1>6, <1>7, <1>8 DEF Next

LEMMA IntakeAlways == Spec => []IntakeInv
  BY IntakeInit, IntakeStep, PTL DEF Spec

(* The sender of every accepted transfer can be found, and is one sender.      *)
THEOREM TransferHasOneSession == Spec => []OwnedByOneSession
<1>1. IntakeInv => OwnedByOneSession
  <2> SUFFICES ASSUME IntakeInv, NEW r \in Accepted
               PROVE  \E i \in DOMAIN sessions :
                        /\ sessions[i].transfer = r /\ sessions[i].chat = RequestChat[r]
                        /\ \A k \in DOMAIN sessions : sessions[k].transfer = r => k = i
    BY DEF OwnedByOneSession
  <2>1. OwnerInv /\ r # NoTransfer
    BY IntakeAssumption DEF IntakeInv, Accepted
  <2>2. PICK i \in DOMAIN sessions : sessions[i].transfer = r
    BY <2>1 DEF OwnerInv
  <2> QED  BY <2>1, <2>2 DEF OwnerInv
<1> QED  BY <1>1, IntakeAlways, PTL

(* No transfer is accepted without the consent of its session.                 *)
THEOREM ConsentedTransfers == Spec => []ConsentFirst
<1>1. IntakeInv => ConsentFirst
  BY DEF IntakeInv, OwnerInv, ConsentFirst
<1> QED  BY <1>1, IntakeAlways, PTL

(* An idempotency key makes one transfer, however its calls race.              *)
THEOREM OneTransferPerKey == Spec => []KeyUsedOnce
<1>1. Init => KeyUsedOnce
  BY DEF Init, KeyUsedOnce, Accepted
<1>2. IntakeInv /\ KeyUsedOnce /\ [Next]_vars => KeyUsedOnce'
  <2> SUFFICES ASSUME IntakeInv, KeyUsedOnce, [Next]_vars
               PROVE  KeyUsedOnce'
    OBVIOUS
  <2>1. ASSUME NEW p \in Callers, AcceptTransfer(p)
        PROVE  KeyUsedOnce'
    <3>1. Accepted' \subseteq Accepted \union {op[p].about}
      BY <2>1 DEF AcceptTransfer, Accepted, IntakeInv, ShapeInv
    <3> QED  BY <2>1, <3>1 DEF AcceptTransfer, KeyTaken, KeyUsedOnce
  <2>2. ASSUME NEW r \in Requests, Progress(r) \/ RetryPayout(r)
        PROVE  KeyUsedOnce'
    <3>1. Accepted' \subseteq Accepted \union {r} /\ r \in Accepted
      BY <2>2 DEF Progress, RetryPayout, Accepted, CanRetryPayout, IntakeInv, ShapeInv
    <3> QED  BY <3>1 DEF KeyUsedOnce
  <2>3. CASE UNCHANGED status
    <3>1. Accepted' = Accepted
      BY <2>3 DEF Accepted
    <3> QED  BY <3>1 DEF KeyUsedOnce
  <2> QED
    BY <2>1, <2>2, <2>3 DEF Next, vars, Receive, AcceptInbound, AskStatus, CancelSession,
       CaptureConsent, RecordOnly, OpenSession, ReadExpired, ExpireSession, CloseExpired,
       StartWaiting, BeginInitiate, CheckLimits, Abort, ResolveSession, SetControl
<1> QED  BY <1>1, <1>2, IntakeAlways, PTL DEF Spec

(* ------------------------------- Openers and ends --------------------------- *)

(* What a step does to the sessions: an acceptance gives one its transfer, a    *)
(* message opens one, and every other step leaves owners and openers alone and  *)
(* makes none active again.                                                    *)
SameHolder(i) ==
  /\ sessions'[i].chat = sessions[i].chat
  /\ sessions'[i].opener = sessions[i].opener
  /\ sessions'[i].active => sessions[i].active

Unowned ==
  /\ DOMAIN sessions' = DOMAIN sessions
  /\ \A i \in DOMAIN sessions :
       SameHolder(i) /\ sessions'[i].transfer = sessions[i].transfer

Owns(p) ==
  /\ AcceptTransfer(p)
  /\ DOMAIN sessions' = DOMAIN sessions
  /\ op[p].session \in DOMAIN sessions
  /\ sessions'[op[p].session].transfer = op[p].about
  /\ \A i \in DOMAIN sessions :
       /\ SameHolder(i) /\ sessions'[i].active = sessions[i].active
       /\ i # op[p].session => sessions'[i].transfer = sessions[i].transfer

Opens(p, n) ==
  /\ OpenSession(p)
  /\ n \notin DOMAIN sessions /\ DOMAIN sessions' = DOMAIN sessions \union {n}
  /\ sessions'[n].opener = op[p].about
  /\ sessions'[n].chat = MessageChat[op[p].about]
  /\ sessions'[n].transfer = NoTransfer
  /\ \A i \in DOMAIN sessions : sessions'[i] = sessions[i]

(* Every session was opened by a message that was handled then.                *)
OpenerInv ==
  /\ OpenedOnce
  /\ \A i \in DOMAIN sessions : sessions[i].opener \in handled

(* Who was told has a transfer, and its session is free.                        *)
FreeInv ==
  \A r \in Requests \union {NoTransfer} : <<"NOTIFICATION", r>> \in jobs =>
    /\ r \in Accepted
    /\ \A i \in DOMAIN sessions : sessions[i].transfer = r => ~sessions[i].active

(* A session is closed by a message or by expiry while no transfer under way has *)
(* it and no initiation has read it, and a payout is retried while its session   *)
(* still has the chat: neither overtakes what was read before it.              *)
ClosesInOrder ==
  /\ \A p \in Callers :
       CancelSession(p) \/ CloseExpired(p) =>
         /\ sessions[op[p].session].transfer \notin Open
         /\ \A q \in Callers : Initiating(q) => op[q].session # op[p].session
  /\ \A r \in Requests :
       RetryPayout(r) =>
         \E i \in DOMAIN sessions : sessions[i].transfer = r /\ sessions[i].active

(* The same by configuration: nothing but its end takes a transfer's chat away.  *)
NothingElseCloses ==
  /\ \A m \in Messages : IntentOf[m] # "CANCEL"
  /\ "expire" \notin Operations /\ "retry" \notin Operations

(* A chat has one active session at most; a transfer under way and an           *)
(* initiation have it.                                                         *)
ChatInv ==
  /\ \A i, k \in DOMAIN sessions :
       sessions[i].active /\ sessions[k].active /\ sessions[i].chat = sessions[k].chat
         => i = k
  /\ \A i \in DOMAIN sessions : sessions[i].transfer \in Open => sessions[i].active
  /\ \A p \in Callers : Initiating(p) => sessions[op[p].session].active

(* Who expires a session has read its transfer.                                *)
ExpireInv ==
  \A p \in Callers : pc[p] = "expire" => op[p].transfer # NoTransfer

(* Sessions that a step rewrites in place.                                     *)
LEMMA Rewritten ==
  ASSUME ShapeInv, NEW i, NEW s, sessions' = [sessions EXCEPT ![i] = s],
         i \in DOMAIN sessions =>
           /\ s.chat = sessions[i].chat /\ s.opener = sessions[i].opener
           /\ s.transfer = sessions[i].transfer /\ (s.active => sessions[i].active)
  PROVE  Unowned
<1>1. DOMAIN sessions' = DOMAIN sessions
  OBVIOUS
<1>2. ASSUME NEW k \in DOMAIN sessions
      PROVE  SameHolder(k) /\ sessions'[k].transfer = sessions[k].transfer
  <2>1. CASE k = i
    BY <2>1 DEF SameHolder
  <2>2. CASE k # i
    BY <2>2 DEF SameHolder
  <2> QED  BY <2>1, <2>2
<1> QED  BY <1>1, <1>2 DEF Unowned

LEMMA AcceptOwns ==
  ASSUME IntakeInv, NEW p \in Callers, AcceptTransfer(p)
  PROVE  Owns(p)
<1>a. ASSUME NEW i \in DOMAIN sessions
      PROVE  sessions[i] \in SessionType
  BY LenProperties, ElementOfSeq DEF IntakeInv, ShapeInv
<1> DEFINE i == op[p].session
           s == [sessions[i] EXCEPT !.transfer = op[p].about]
<1>1. i \in DOMAIN sessions /\ sessions' = [sessions EXCEPT ![i] = s]
  BY DEF IntakeInv, LockInv, Initiating, AcceptTransfer
<1>2. /\ s.chat = sessions[i].chat /\ s.opener = sessions[i].opener
      /\ s.active = sessions[i].active /\ s.transfer = op[p].about
  BY <1>a, <1>1 DEF SessionType
<1>3. DOMAIN sessions' = DOMAIN sessions /\ sessions'[i] = s
  BY <1>1
<1>4. \A k \in DOMAIN sessions : k # i => sessions'[k] = sessions[k]
  BY <1>1
<1> HIDE DEF s
<1> QED  BY <1>1, <1>2, <1>3, <1>4 DEF Owns, SameHolder

LEMMA OpenOpens ==
  ASSUME IntakeInv, NEW p \in Callers, OpenSession(p)
  PROVE  Opens(p, Len(sessions) + 1)
<1> DEFINE m == op[p].about
           s == [chat |-> MessageChat[m], status |-> "ACTIVE", active |-> TRUE,
                 transfer |-> NoTransfer, consented |-> IntentOf[m] = "CONSENT",
                 opener |-> m]
<1>1. m \in Messages /\ sessions' = Append(sessions, s)
  BY DEF IntakeInv, OpenSession, Message, Handle, ShapeInv
<1>2. s \in SessionType
  BY <1>1, IntakeAssumption DEF SessionType
<1>3. sessions \in Seq(SessionType) /\ Len(sessions) \in Nat
      /\ DOMAIN sessions = 1..Len(sessions)
  BY LenProperties DEF IntakeInv, ShapeInv
<1>4. /\ DOMAIN sessions' = 1..(Len(sessions) + 1)
      /\ sessions'[Len(sessions) + 1] = s
      /\ \A k \in DOMAIN sessions : sessions'[k] = sessions[k]
  BY <1>1, <1>2, <1>3
<1>5. /\ Len(sessions) + 1 \notin DOMAIN sessions
      /\ DOMAIN sessions' = DOMAIN sessions \union {Len(sessions) + 1}
  BY <1>3, <1>4
<1> QED  BY <1>4, <1>5 DEF Opens

LEMMA SessionSteps ==
  ASSUME IntakeInv, [Next]_vars
  PROVE  \/ Unowned
         \/ \E p \in Callers : Owns(p) \/ \E n : Opens(p, n)
<1>0. ShapeInv /\ LockInv
  BY DEF IntakeInv
<1>a. ASSUME NEW i \in DOMAIN sessions
      PROVE  sessions[i] \in SessionType
  BY <1>0, LenProperties, ElementOfSeq DEF ShapeInv
<1>1. ASSUME UNCHANGED sessions
      PROVE  Unowned
  BY <1>1 DEF Unowned, SameHolder
<1>2. ASSUME NEW p \in Callers, CancelSession(p) \/ CloseExpired(p)
      PROVE  Unowned
  <2> DEFINE i == op[p].session
             s == [sessions[i] EXCEPT !.status = "CLOSED", !.active = FALSE]
  <2>1. sessions' = [sessions EXCEPT ![i] = s]
    BY <1>2 DEF CancelSession, CloseExpired
  <2>2. i \in DOMAIN sessions =>
          /\ s.chat = sessions[i].chat /\ s.opener = sessions[i].opener
          /\ s.transfer = sessions[i].transfer /\ (s.active => sessions[i].active)
    BY <1>a DEF SessionType
  <2> HIDE DEF i, s
  <2> QED  BY <1>0, <2>1, <2>2, Rewritten
<1>3. ASSUME NEW p \in Callers, CaptureConsent(p)
      PROVE  Unowned
  <2> DEFINE i == op[p].session
             s == [sessions[i] EXCEPT !.consented = TRUE]
  <2>1. sessions' = [sessions EXCEPT ![i] = s]
    BY <1>3 DEF CaptureConsent
  <2>2. i \in DOMAIN sessions =>
          /\ s.chat = sessions[i].chat /\ s.opener = sessions[i].opener
          /\ s.transfer = sessions[i].transfer /\ (s.active => sessions[i].active)
    BY <1>a DEF SessionType
  <2> HIDE DEF i, s
  <2> QED  BY <1>0, <2>1, <2>2, Rewritten
<1>4. ASSUME NEW p \in Callers, StartWaiting(p)
      PROVE  Unowned
  <2> DEFINE i == op[p].session
             s == [sessions[i] EXCEPT !.status = "WAITING"]
  <2>1. sessions' = [sessions EXCEPT ![i] = s]
    BY <1>4 DEF StartWaiting
  <2>2. i \in DOMAIN sessions =>
          /\ s.chat = sessions[i].chat /\ s.opener = sessions[i].opener
          /\ s.transfer = sessions[i].transfer /\ (s.active => sessions[i].active)
    BY <1>a DEF SessionType
  <2> HIDE DEF i, s
  <2> QED  BY <1>0, <2>1, <2>2, Rewritten
<1>5. ASSUME NEW r \in Requests, ResolveSession(r)
      PROVE  Unowned
  <2>1. DOMAIN sessions' = DOMAIN sessions
    BY <1>5 DEF ResolveSession
  <2>2. ASSUME NEW i \in DOMAIN sessions
        PROVE  SameHolder(i) /\ sessions'[i].transfer = sessions[i].transfer
    <3>1. \/ sessions'[i] = sessions[i]
          \/ sessions'[i] = [sessions[i] EXCEPT !.status = "CLOSED", !.active = FALSE]
      BY <1>5 DEF ResolveSession
    <3> QED  BY <3>1, <1>a DEF SessionType, SameHolder
  <2> QED  BY <2>1, <2>2 DEF Unowned
<1> QED
  BY <1>1, <1>2, <1>3, <1>4, <1>5, AcceptOwns, OpenOpens
     DEF Next, vars, Receive, AcceptInbound, AskStatus, RecordOnly, ReadExpired,
         ExpireSession, BeginInitiate, CheckLimits, Abort, Progress, RetryPayout,
         SetControl

(* What a step makes of a caller.                                              *)
LEMMA CallerSteps ==
  ASSUME IntakeInv, [Next]_vars, NEW q \in Callers
  PROVE  \/ pc'[q] = pc[q] /\ op'[q] = op[q]
         \/ pc'[q] \in {"idle", "inbound"}
         \/ CheckLimits(q) /\ op'[q] = op[q]
         \/ \E r \in Requests : BeginInitiate(q, r)
         \/ \E i \in DOMAIN sessions : ReadExpired(q, i)
<1> DEFINE Goal == \/ pc'[q] = pc[q] /\ op'[q] = op[q]
                   \/ pc'[q] \in {"idle", "inbound"}
                   \/ CheckLimits(q) /\ op'[q] = op[q]
                   \/ \E r \in Requests : BeginInitiate(q, r)
                   \/ \E i \in DOMAIN sessions : ReadExpired(q, i)
<1>0. ShapeInv
  BY DEF IntakeInv
<1>1. ASSUME NEW p \in Callers, NEW label, NEW m, Go(p, label, m), p # q
      PROVE  Goal
  BY <1>0, <1>1 DEF Go, ShapeInv
<1>2. ASSUME NEW label \in {"idle", "inbound"}, NEW m, Go(q, label, m)
      PROVE  Goal
  BY <1>0, <1>2 DEF Go, ShapeInv
<1>3. ASSUME NEW p \in Callers, Finish(p)
      PROVE  Goal
  BY <1>1, <1>2, <1>3 DEF Finish
<1>4. ASSUME NEW p \in Callers, AcceptInbound(p) \/ ExpireSession(p) \/ AcceptTransfer(p)
                                  \/ Abort(p)
      PROVE  Goal
  BY <1>3, <1>4 DEF AcceptInbound, AskStatus, CancelSession, CaptureConsent, RecordOnly,
     OpenSession, Handle, ExpireSession, CloseExpired, StartWaiting, AcceptTransfer, Abort
<1>5. ASSUME NEW p \in Callers, NEW m \in Messages, Receive(p, m)
      PROVE  Goal
  BY <1>1, <1>2, <1>5 DEF Receive
<1>6. ASSUME NEW p \in Callers, NEW i \in DOMAIN sessions, ReadExpired(p, i)
      PROVE  Goal
  BY <1>1, <1>6 DEF ReadExpired
<1>7. ASSUME NEW p \in Callers, NEW r \in Requests, BeginInitiate(p, r)
      PROVE  Goal
  BY <1>1, <1>7 DEF BeginInitiate
<1>8. ASSUME NEW p \in Callers, CheckLimits(p)
      PROVE  Goal
  BY <1>0, <1>1, <1>8 DEF CheckLimits, Go, ShapeInv
<1>9. ASSUME UNCHANGED <<pc, op>>
      PROVE  Goal
  BY <1>9
<1> QED
  BY <1>4, <1>5, <1>6, <1>7, <1>8, <1>9 DEF Next, vars, Progress, RetryPayout,
     ResolveSession, SetControl

(* What a step makes of a status: it moves one along, or accepts a transfer.    *)
LEMMA StatusSteps ==
  ASSUME IntakeInv, [Next]_vars, NEW r \in Requests
  PROVE  \/ status'[r] = status[r]
         \/ status[r] = "NONE" /\ status'[r] = "INITIATED"
         \/ <<status[r], status'[r]>> \in AllowedTransitions
         \/ RetryPayout(r)
<1>0. status \in [Requests -> Statuses \union {"NONE"}]
  BY DEF IntakeInv, ShapeInv
<1>1. ASSUME NEW p \in Callers, AcceptTransfer(p)
      PROVE  status'[r] = status[r] \/ (status[r] = "NONE" /\ status'[r] = "INITIATED")
  <2>1. op[p].about \in Requests => status[op[p].about] = "NONE"
    BY <1>1 DEF AcceptTransfer, KeyTaken, Accepted
  <2> QED  BY <1>0, <1>1, <2>1 DEF AcceptTransfer
<1>2. ASSUME NEW q \in Requests, Progress(q) \/ RetryPayout(q)
      PROVE  \/ status'[r] = status[r]
             \/ <<status[r], status'[r]>> \in AllowedTransitions
             \/ RetryPayout(r)
  BY <1>0, <1>2 DEF Progress, RetryPayout
<1>3. ASSUME UNCHANGED status
      PROVE  status'[r] = status[r]
  BY <1>3
<1> QED
  BY <1>1, <1>2, <1>3 DEF Next, vars, Receive, AcceptInbound, AskStatus, CancelSession,
     CaptureConsent, RecordOnly, OpenSession, ReadExpired, ExpireSession, CloseExpired,
     StartWaiting, BeginInitiate, CheckLimits, Abort, ResolveSession, SetControl

LEMMA AcceptedGrows ==
  ASSUME IntakeInv, [Next]_vars
  PROVE  Accepted \subseteq Accepted'
<1> SUFFICES ASSUME NEW r \in Accepted PROVE r \in Accepted'
  OBVIOUS
<1>1. r \in Requests /\ status[r] # "NONE"
  BY DEF Accepted
<1>2. status'[r] # "NONE"
  BY <1>1, StatusSteps DEF AllowedTransitions, RetryPayout, IntakeInv, ShapeInv
<1> QED  BY <1>1, <1>2 DEF Accepted

(* A handled message stays handled; and who is told is told by an end.          *)
LEMMA RecordsGrow ==
  ASSUME [Next]_vars
  PROVE  /\ handled \subseteq handled'
         /\ \A r : <<"NOTIFICATION", r>> \in jobs' =>
              \/ <<"NOTIFICATION", r>> \in jobs
              \/ r \in Requests /\ ResolveSession(r)
<1> DEFINE Grows == handled \subseteq handled'
           Tells == \A r : <<"NOTIFICATION", r>> \in jobs' =>
                      \/ <<"NOTIFICATION", r>> \in jobs
                      \/ r \in Requests /\ ResolveSession(r)
<1>1. ASSUME NEW p \in Callers, AskStatus(p) \/ StartWaiting(p) \/ AcceptTransfer(p)
      PROVE  Grows /\ Tells
  BY <1>1 DEF AskStatus, Handle, StartWaiting, AcceptTransfer
<1>2. ASSUME NEW r \in Requests, ResolveSession(r)
      PROVE  Grows /\ Tells
  BY <1>2 DEF ResolveSession
<1>3. ASSUME NEW p \in Callers, CancelSession(p) \/ CaptureConsent(p) \/ RecordOnly(p)
                                  \/ OpenSession(p)
      PROVE  Grows /\ Tells
  BY <1>3 DEF CancelSession, CaptureConsent, RecordOnly, OpenSession, Handle
<1>4. ASSUME UNCHANGED <<handled, jobs>>
      PROVE  Grows /\ Tells
  BY <1>4
<1> QED
  BY <1>1, <1>2, <1>3, <1>4 DEF Next, vars, Receive, AcceptInbound, ReadExpired,
     ExpireSession, CloseExpired, BeginInitiate, CheckLimits, Abort, Progress,
     RetryPayout, SetControl

(* A message opens one session at most, however often it is delivered.         *)
THEOREM OpenedByOneMessage == Spec => []OpenedOnce
<1>1. Init => OpenerInv
  BY EmptySeq DEF Init, OpenerInv, OpenedOnce
<1>2. IntakeInv /\ OpenerInv /\ [Next]_vars => OpenerInv'
  <2> SUFFICES ASSUME IntakeInv, OpenerInv, [Next]_vars
               PROVE  OpenerInv'
    OBVIOUS
  <2>1. handled \subseteq handled'
    BY RecordsGrow
  <2>2. ASSUME NEW p \in Callers, NEW n, Opens(p, n)
        PROVE  OpenerInv'
    <3>1. op[p].about \notin handled /\ op[p].about \in handled'
      BY <2>2 DEF Opens, OpenSession, Handle, Message
    <3>2. \A i \in DOMAIN sessions : sessions[i].opener # op[p].about
      BY <3>1 DEF OpenerInv
    <3> QED  BY <2>1, <2>2, <3>1, <3>2 DEF Opens, OpenerInv, OpenedOnce
  <2>3. CASE Unowned
    BY <2>1, <2>3 DEF Unowned, SameHolder, OpenerInv, OpenedOnce
  <2>4. ASSUME NEW p \in Callers, Owns(p)
        PROVE  OpenerInv'
    BY <2>1, <2>4 DEF Owns, SameHolder, OpenerInv, OpenedOnce
  <2> QED  BY <2>2, <2>3, <2>4, SessionSteps
<1>3. OpenerInv => OpenedOnce
  BY DEF OpenerInv
<1> QED  BY <1>1, <1>2, <1>3, IntakeAlways, PTL DEF Spec

(* Once the sender was told how a transfer ended, its session holds no chat any *)
(* more, and never will.                                                       *)
THEOREM ToldSessionsAreFree == Spec => []ToldMeansFree
<1>1. Init => FreeInv
  BY DEF Init, FreeInv
<1>2. IntakeInv /\ FreeInv /\ [Next]_vars => FreeInv'
  <2> SUFFICES ASSUME IntakeInv, [Next]_vars, FreeInv,
                      NEW r \in Requests \union {NoTransfer},
                      <<"NOTIFICATION", r>> \in jobs'
               PROVE  /\ r \in Accepted'
                      /\ \A i \in DOMAIN sessions' :
                           sessions'[i].transfer = r => ~sessions'[i].active
    BY DEF FreeInv
  <2>1. CASE ~(<<"NOTIFICATION", r>> \in jobs)
    <3>1. r \in Requests /\ ResolveSession(r)
      BY <2>1, RecordsGrow
    <3>2. r \in Accepted
      BY <3>1 DEF ResolveSession, ClosedStatuses, Accepted
    <3>3. ASSUME NEW i \in DOMAIN sessions, sessions'[i].transfer = r
          PROVE  ~sessions'[i].active
      <4>1. sessions[i] \in SessionType
        BY LenProperties, ElementOfSeq DEF IntakeInv, ShapeInv
      <4>2. \/ sessions[i].transfer # r /\ sessions'[i] = sessions[i]
            \/ sessions'[i] = [sessions[i] EXCEPT !.status = "CLOSED", !.active = FALSE]
        BY <3>1 DEF ResolveSession
      <4> QED  BY <3>3, <4>1, <4>2 DEF SessionType
    <3>4. DOMAIN sessions' = DOMAIN sessions
      BY <3>1 DEF ResolveSession
    <3> QED  BY <3>2, <3>3, <3>4, AcceptedGrows
  <2>2. CASE <<"NOTIFICATION", r>> \in jobs
    <3>1. /\ r \in Accepted /\ r # NoTransfer
          /\ \A i \in DOMAIN sessions : sessions[i].transfer = r => ~sessions[i].active
      BY <2>2, IntakeAssumption DEF FreeInv, Accepted
    <3>2. CASE Unowned
      BY <3>1, <3>2, AcceptedGrows DEF Unowned, SameHolder
    <3>3. ASSUME NEW p \in Callers, Owns(p)
          PROVE  \A i \in DOMAIN sessions' :
                   sessions'[i].transfer = r => ~sessions'[i].active
      <4>1. op[p].about \notin Accepted
        BY <3>3 DEF Owns, AcceptTransfer, KeyTaken
      <4> QED  BY <3>1, <3>3, <4>1 DEF Owns, SameHolder
    <3>4. ASSUME NEW p \in Callers, NEW n, Opens(p, n)
          PROVE  \A i \in DOMAIN sessions' :
                   sessions'[i].transfer = r => ~sessions'[i].active
      BY <3>1, <3>4 DEF Opens
    <3> QED  BY <3>1, <3>2, <3>3, <3>4, SessionSteps, AcceptedGrows
  <2> QED  BY <2>1, <2>2
<1>3. IntakeInv /\ FreeInv => ToldMeansFree
  <2>1. ASSUME ShapeInv, NEW i \in DOMAIN sessions
        PROVE  sessions[i].transfer \in Requests \union {NoTransfer}
    <3>1. sessions[i] \in SessionType
      BY <2>1, LenProperties, ElementOfSeq DEF ShapeInv
    <3> QED  BY <3>1 DEF SessionType
  <2> QED  BY <2>1 DEF IntakeInv, FreeInv, ToldMeansFree
<1> QED  BY <1>1, <1>2, <1>3, IntakeAlways, PTL DEF Spec

(* ------------------------------ One at a time ------------------------------- *)

LEMMA ActiveSessionHas ==
  ASSUME ShapeInv, NEW c
  PROVE  /\ ActiveSession(c) # NoSession => sessions[ActiveSession(c)].active
         /\ ActiveSession(c) = NoSession =>
              \A i \in DOMAIN sessions : ~(sessions[i].chat = c /\ sessions[i].active)
<1> DEFINE active == {i \in DOMAIN sessions : sessions[i].chat = c /\ sessions[i].active}
<1>1. CASE active = {}
  BY <1>1 DEF ActiveSession
<1>2. CASE active # {}
  <2>1. ActiveSession(c) = CHOOSE i \in active : TRUE
    BY <1>2 DEF ActiveSession
  <2>2. ActiveSession(c) \in active
    BY <1>2, <2>1
  <2>3. 0 \notin DOMAIN sessions
    BY LenProperties DEF ShapeInv
  <2> QED  BY <2>2, <2>3 DEF NoSession
<1> QED  BY <1>1, <1>2

(* An active session stays active as long as a transfer under way or an          *)
(* initiation has it.                                                          *)
LEMMA StaysActive ==
  ASSUME IntakeInv, [Next]_vars, ClosesInOrder,
         NEW i \in DOMAIN sessions, sessions[i].active,
         \/ sessions[i].transfer \in Open
         \/ \E q \in Callers : Initiating(q) /\ op[q].session = i
  PROVE  sessions'[i].active
<1> DEFINE Goal == sessions'[i].active
<1>0. sessions[i] \in SessionType
  BY LenProperties, ElementOfSeq DEF IntakeInv, ShapeInv
<1>1. CASE UNCHANGED sessions
  BY <1>1
<1>2. ASSUME NEW p \in Callers, CancelSession(p) \/ CloseExpired(p)
      PROVE  Goal
  <2>1. i # op[p].session
    BY <1>2 DEF ClosesInOrder
  <2> QED  BY <1>2, <2>1 DEF CancelSession, CloseExpired
<1>4. ASSUME NEW p \in Callers, CaptureConsent(p) \/ StartWaiting(p)
      PROVE  Goal
  <2>1. CASE CaptureConsent(p)
    BY <1>0, <2>1 DEF CaptureConsent, SessionType
  <2>2. CASE StartWaiting(p)
    BY <1>0, <2>2 DEF StartWaiting, SessionType
  <2> QED  BY <1>4, <2>1, <2>2
<1>5. ASSUME NEW p \in Callers, Owns(p) \/ \E n : Opens(p, n)
      PROVE  Goal
  BY <1>5 DEF Owns, Opens
<1>6. ASSUME NEW r \in Requests, ResolveSession(r)
      PROVE  Goal
  <2>1. r # NoTransfer /\ r \notin Open
    BY <1>6, IntakeAssumption DEF ResolveSession, Open
  <2>2. sessions[i].transfer # r
    BY <2>1 DEF IntakeInv, LockInv
  <2> QED  BY <1>6, <2>2 DEF ResolveSession
<1> QED
  BY <1>1, <1>2, <1>4, <1>5, <1>6, AcceptOwns, OpenOpens
     DEF Next, vars, Receive, AcceptInbound, AskStatus, RecordOnly, ReadExpired,
         ExpireSession, BeginInitiate, CheckLimits, Abort, Progress, RetryPayout,
         SetControl

LEMMA ChatStep ==
  ASSUME IntakeInv, ChatInv, [Next]_vars, ClosesInOrder
  PROVE  ChatInv'
<1>0. /\ ShapeInv /\ LockInv /\ OwnerInv
      /\ \A i \in DOMAIN sessions : sessions[i].transfer \in Requests \union {NoTransfer}
  <2>1. ASSUME ShapeInv, NEW i \in DOMAIN sessions
        PROVE  sessions[i] \in SessionType
    BY <2>1, LenProperties, ElementOfSeq DEF ShapeInv
  <2> QED  BY <2>1 DEF IntakeInv, SessionType
<1>1. ASSUME NEW i \in DOMAIN sessions', NEW k \in DOMAIN sessions',
             sessions'[i].active, sessions'[k].active, sessions'[i].chat = sessions'[k].chat
      PROVE  i = k
  <2>1. CASE Unowned \/ \E p \in Callers : Owns(p)
    BY <1>1, <2>1 DEF Unowned, Owns, SameHolder, ChatInv
  <2>2. ASSUME NEW p \in Callers, NEW n, Opens(p, n)
        PROVE  i = k
    <3>1. \A j \in DOMAIN sessions :
            ~(sessions[j].chat = sessions'[n].chat /\ sessions[j].active)
      BY <1>0, <2>2, ActiveSessionHas DEF Opens, OpenSession, Message
    <3> QED  BY <1>1, <2>2, <3>1 DEF Opens, ChatInv
  <2> QED  BY <2>1, <2>2, SessionSteps
<1>2. ASSUME NEW i \in DOMAIN sessions', sessions'[i].transfer \in Open'
      PROVE  sessions'[i].active
  <2> DEFINE t == sessions'[i].transfer
  <2>1. /\ t \in Requests /\ t # NoTransfer
        /\ status'[t] # "NONE" /\ status'[t] \notin ClosedStatuses
    BY <1>2, IntakeAssumption DEF Open, Accepted
  <2>2. CASE i \in DOMAIN sessions /\ sessions[i].transfer = t
    <3>1. status[t] # "NONE"
      BY <1>0, <2>1, <2>2 DEF OwnerInv, Accepted
    <3>2. CASE RetryPayout(t)
      <4>1. PICK k \in DOMAIN sessions : sessions[k].transfer = t /\ sessions[k].active
        BY <2>1, <3>2 DEF ClosesInOrder
      <4>2. k = i
        BY <1>0, <2>1, <2>2, <4>1 DEF OwnerInv
      <4> QED  BY <3>2, <4>1, <4>2 DEF RetryPayout
    <3>3. CASE ~RetryPayout(t)
      <4>1. \/ status'[t] = status[t] \/ status[t] = "NONE"
            \/ <<status[t], status'[t]>> \in AllowedTransitions
        BY <2>1, <3>3, StatusSteps
      <4>2. status[t] \notin ClosedStatuses
        <5> HIDE DEF t
        <5> QED  BY <2>1, <4>1 DEF ClosedStatuses, AllowedTransitions
      <4>3. sessions[i].transfer \in Open
        BY <2>1, <2>2, <3>1, <4>2 DEF Open, Accepted
      <4> QED  BY <2>2, <4>3, StaysActive DEF ChatInv
    <3> QED  BY <3>2, <3>3
  <2>3. ASSUME NEW p \in Callers, Owns(p), i = op[p].session
        PROVE  sessions'[i].active
    <3>1. Initiating(p) /\ i \in DOMAIN sessions
      BY <2>3 DEF Owns, AcceptTransfer, Initiating
    <3>2. sessions[i].active
      BY <2>3, <3>1 DEF ChatInv
    <3> QED  BY <2>3, <3>1, <3>2 DEF Owns
  <2>4. ASSUME NEW p \in Callers, NEW n, Opens(p, n), i = n
        PROVE  FALSE
    BY <2>1, <2>4 DEF Opens
  <2> QED  BY <2>2, <2>3, <2>4, SessionSteps DEF Unowned, Owns, Opens
<1>3. ASSUME NEW q \in Callers, Initiating(q)'
      PROVE  sessions'[op'[q].session].active
  <2>1. CASE Initiating(q) /\ op'[q] = op[q]
    BY <1>0, <2>1, StaysActive DEF LockInv, ChatInv
  <2>2. ASSUME NEW r \in Requests, BeginInitiate(q, r)
        PROVE  sessions'[op'[q].session].active
    <3> DEFINE a == ActiveSession(RequestChat[r])
    <3>1. a \in DOMAIN sessions /\ sessions[a].active /\ UNCHANGED sessions
      BY <1>0, <2>2, ActiveSessionIs, ActiveSessionHas DEF BeginInitiate
    <3>2. op'[q] = Seen(r, a) /\ Seen(r, a).session = a
      BY <1>0, <2>2, <3>1, SeenType DEF BeginInitiate, Go, ShapeInv
    <3> QED  BY <3>1, <3>2
  <2>3. ASSUME NEW k \in DOMAIN sessions, ReadExpired(q, k)
        PROVE  FALSE
    BY <1>0, <1>3, <2>3 DEF ReadExpired, Go, Initiating, ShapeInv
  <2>4. CASE CheckLimits(q) /\ op'[q] = op[q]
    BY <2>1, <2>4 DEF CheckLimits, Initiating
  <2>5. CASE pc'[q] = pc[q] /\ op'[q] = op[q]
    BY <1>3, <2>1, <2>5 DEF Initiating
  <2> QED  BY <1>3, <2>2, <2>3, <2>4, <2>5, CallerSteps DEF Initiating
<1> QED  BY <1>1, <1>2, <1>3 DEF ChatInv

LEMMA ExpireStep ==
  ASSUME IntakeInv, ExpireInv, [Next]_vars, NothingElseCloses
  PROVE  ExpireInv'
<1>0. ShapeInv
  BY DEF IntakeInv
<1>1. ASSUME NEW q \in Callers, pc'[q] = "expire"
      PROVE  op'[q].transfer # NoTransfer
  <2>1. ASSUME NEW k \in DOMAIN sessions, ReadExpired(q, k)
        PROVE  op'[q].transfer # NoTransfer
    <3>1. sessions[k].transfer # NoTransfer
      BY <2>1 DEF ReadExpired, NothingElseCloses
    <3>2. op'[q] = Seen("none", k) /\ k # NoSession
      BY <1>0, <2>1, LenProperties DEF ReadExpired, Go, ShapeInv, NoSession
    <3> QED  BY <3>1, <3>2 DEF Seen
  <2>2. ASSUME NEW r \in Requests, BeginInitiate(q, r)
        PROVE  FALSE
    BY <1>0, <1>1, <2>2 DEF BeginInitiate, Go, ShapeInv
  <2>3. CASE CheckLimits(q)
    BY <1>0, <1>1, <2>3 DEF CheckLimits, Go, ShapeInv
  <2>4. CASE pc'[q] = pc[q] /\ op'[q] = op[q]
    BY <1>1, <2>4 DEF ExpireInv
  <2> QED  BY <1>1, <2>1, <2>2, <2>3, <2>4, CallerSteps
<1> QED  BY <1>1 DEF ExpireInv

LEMMA ClosedByItsEnd ==
  ASSUME NothingElseCloses, IntakeInv, ExpireInv
  PROVE  ClosesInOrder
<1>1. ASSUME NEW p \in Callers, CancelSession(p)
      PROVE  FALSE
  <2>1. op[p].about \in Messages
    BY <1>1 DEF CancelSession, Handle, IntakeInv, ShapeInv
  <2> QED  BY <1>1, <2>1 DEF CancelSession, Message, NothingElseCloses
<1>2. ASSUME NEW p \in Callers, CloseExpired(p)
      PROVE  FALSE
  BY <1>2 DEF CloseExpired, ExpireInv
<1>3. ASSUME NEW r \in Requests, RetryPayout(r)
      PROVE  FALSE
  BY <1>3 DEF RetryPayout, NothingElseCloses
<1> QED  BY <1>1, <1>2, <1>3 DEF ClosesInOrder

LEMMA ChatStarts == Init => ChatInv
  BY EmptySeq DEF Init, ChatInv, Initiating

LEMMA ChatIsOne == IntakeInv /\ ChatInv => OneTransferPerChat
<1> SUFFICES ASSUME IntakeInv, ChatInv, NEW r \in Open, NEW q \in Open,
                    RequestChat[r] = RequestChat[q]
             PROVE  r = q
  BY DEF OneTransferPerChat
<1>1. r \in Accepted /\ q \in Accepted /\ r # NoTransfer /\ q # NoTransfer
  BY IntakeAssumption DEF Open, Accepted
<1>2. PICK i \in DOMAIN sessions : sessions[i].transfer = r
  BY <1>1 DEF IntakeInv, OwnerInv
<1>3. PICK k \in DOMAIN sessions : sessions[k].transfer = q
  BY <1>1 DEF IntakeInv, OwnerInv
<1>4. sessions[i].chat = sessions[k].chat /\ sessions[i].active /\ sessions[k].active
  BY <1>1, <1>2, <1>3 DEF IntakeInv, OwnerInv, ChatInv
<1> QED  BY <1>2, <1>3, <1>4 DEF ChatInv

(* A close or a retry that overtakes what was read before it is all that can     *)
(* bring two transfers under way into one chat: in a behaviour where none does,  *)
(* with messages, expiries, initiations and retries racing as they like         *)
(* otherwise, a chat has one at most.                                          *)
THEOREM OnlyOvertakingDoubles ==
  Init /\ [][Next /\ ClosesInOrder]_vars => []OneTransferPerChat
<1> DEFINE Inv == IntakeInv /\ ChatInv
<1>1. Init => Inv
  BY IntakeInit, ChatStarts
<1>2. Inv /\ [Next /\ ClosesInOrder]_vars => Inv'
  <2> SUFFICES ASSUME Inv, [Next /\ ClosesInOrder]_vars
               PROVE  Inv'
    OBVIOUS
  <2>1. CASE Next /\ ClosesInOrder
    BY <2>1, IntakeStep, ChatStep
  <2>2. CASE UNCHANGED vars
    <3>1. IntakeInv'
      BY <2>2, IntakeStep
    <3>2. ChatInv'
      BY <2>2 DEF vars, ChatInv, Open, Accepted, Initiating
    <3> QED  BY <3>1, <3>2
  <2> QED  BY <2>1, <2>2
<1>3. Inv => OneTransferPerChat
  BY ChatIsOne
<1> QED  BY <1>1, <1>2, <1>3, PTL

(* Where nobody cancels, no session without a transfer expires and no payout is  *)
(* retried by hand, nothing overtakes.                                         *)
THEOREM OneAtATime ==
  ASSUME NothingElseCloses
  PROVE  Spec => []OneTransferPerChat
<1> DEFINE Inv == IntakeInv /\ ExpireInv /\ ChatInv
<1>1. Init => Inv
  BY IntakeInit, ChatStarts DEF Init, ExpireInv
<1>2. Inv /\ [Next]_vars => Inv'
  BY IntakeStep, ExpireStep, ClosedByItsEnd, ChatStep
<1>3. Inv => OneTransferPerChat
  BY ChatIsOne
<1> QED  BY <1>1, <1>2, <1>3, PTL DEF Spec

(* ---------------------------------- Sums ------------------------------------ *)

(* Among the parts of a finite set that have some property, one contains no     *)
(* other: arguments by the smallest counterexample need no induction.           *)
LEMMA SmallestSubset ==
  ASSUME NEW S, IsFiniteSet(S), NEW K, K \subseteq SUBSET S, K # {}
  PROVE  \E s \in K : \A t \in K : t \subseteq s => t = s
<1>1. IsWellFoundedOn(StrictSubsetOrdering(S), SUBSET S)
  BY FS_StrictSubsetOrderingWellFounded, FS_FiniteSubsetsOfFinite
<1>2. PICK s \in K : \A t \in K : <<t, s>> \notin StrictSubsetOrdering(S)
  BY <1>1, WFMin
<1>3. \A t \in K : t \subseteq s => t = s
  BY <1>2 DEF StrictSubsetOrdering
<1> QED  BY <1>3

(* The sum of amounts w over the parts of a set, as the library computes it: by  *)
(* taking out one member after the other.                                      *)
Any(s) == CHOOSE r \in s : TRUE
OneOut(w, f, s) == IF s = {} THEN 0 ELSE w[Any(s)] + f[s \ {Any(s)}]
IsSum(w, f, S) == f = [s \in SUBSET S |-> OneOut(w, f, s)]
SumOf(w, S) == (CHOOSE f : IsSum(w, f, S))[S]

LEMMA AnyIsMember ==
  ASSUME NEW s, s # {}
  PROVE  Any(s) \in s /\ s \ {Any(s)} \subseteq s /\ s \ {Any(s)} # s
  BY DEF Any

LEMMA SumOfPart ==
  ASSUME NEW w, NEW f, NEW S, IsSum(w, f, S), NEW T, T \subseteq S
  PROVE  IsSum(w, [s \in SUBSET T |-> f[s]], T)
<1> DEFINE g == [s \in SUBSET T |-> f[s]]
<1>1. \A s \in SUBSET T : s \in SUBSET S /\ g[s] = f[s]
  OBVIOUS
<1>2. \A s \in SUBSET T : f[s] = OneOut(w, f, s)
  BY <1>1 DEF IsSum
<1>3. \A s \in SUBSET T : OneOut(w, f, s) = OneOut(w, g, s)
  BY AnyIsMember DEF OneOut
<1> QED  BY <1>2, <1>3 DEF IsSum

LEMMA SumIsOne ==
  ASSUME NEW w, NEW S, IsFiniteSet(S), NEW f, IsSum(w, f, S), NEW g, IsSum(w, g, S)
  PROVE  f = g
<1> DEFINE K == {s \in SUBSET S : f[s] # g[s]}
<1>1. SUFFICES ASSUME f # g PROVE FALSE
  OBVIOUS
<1>2. K # {}
  BY <1>1 DEF IsSum
<1>3. PICK s \in K : \A t \in K : t \subseteq s => t = s
  <2>1. K \subseteq SUBSET S
    OBVIOUS
  <2> HIDE DEF K
  <2> QED  BY <1>2, <2>1, SmallestSubset
<1>4. s \in SUBSET S /\ f[s] = OneOut(w, f, s) /\ g[s] = OneOut(w, g, s)
  BY DEF IsSum
<1>5. CASE s = {}
  BY <1>4, <1>5 DEF OneOut
<1>6. CASE s # {}
  <2>1. s \ {Any(s)} \in SUBSET S /\ s \ {Any(s)} \notin K
    BY <1>3, <1>6, AnyIsMember
  <2> QED  BY <1>4, <2>1 DEF OneOut
<1> QED  BY <1>5, <1>6

LEMMA SumExists ==
  ASSUME NEW w, NEW S, IsFiniteSet(S)
  PROVE  \E f : IsSum(w, f, S)
<1> DEFINE K == {T \in SUBSET S : ~\E f : IsSum(w, f, T)}
<1>1. SUFFICES ASSUME K # {} PROVE FALSE
  OBVIOUS
<1>2. PICK T \in K : \A t \in K : t \subseteq T => t = T
  <2>1. K \subseteq SUBSET S
    OBVIOUS
  <2> HIDE DEF K
  <2> QED  BY <1>1, <2>1, SmallestSubset
<1>3. \A t \in SUBSET T : t # T => \E f : IsSum(w, f, t)
  BY <1>2
<1> DEFINE sum == [t \in SUBSET T |-> SumOf(w, t)]
           h == [s \in SUBSET T |-> OneOut(w, sum, s)]
<1>4. ASSUME NEW t \in SUBSET T, t # T
      PROVE  h[t] = sum[t]
  <2> DEFINE f == CHOOSE f : IsSum(w, f, t)
             u == t \ {Any(t)}
  <2>1. IsSum(w, f, t)
    BY <1>3, <1>4
  <2>2. SumOf(w, t) = OneOut(w, f, t)
    BY <2>1 DEF IsSum, SumOf
  <2>3. CASE t = {}
    BY <2>2, <2>3 DEF OneOut
  <2>4. CASE t # {}
    <3>1. u \in SUBSET t /\ u \in SUBSET T /\ u # T /\ IsFiniteSet(u)
      BY <1>4, <2>4, AnyIsMember, FS_Subset
    <3>2. IsSum(w, [s \in SUBSET u |-> f[s]], u)
      BY <2>1, <3>1, SumOfPart
    <3>3. IsSum(w, CHOOSE k : IsSum(w, k, u), u)
      BY <1>3, <3>1
    <3>4. [s \in SUBSET u |-> f[s]] = (CHOOSE k : IsSum(w, k, u))
      BY <3>1, <3>2, <3>3, SumIsOne
    <3>5. f[u] = SumOf(w, u)
      BY <3>4 DEF SumOf
    <3> QED  BY <2>2, <2>4, <3>1, <3>5 DEF OneOut
  <2> QED  BY <2>3, <2>4
<1>5. \A s \in SUBSET T : OneOut(w, sum, s) = OneOut(w, h, s)
  <2> SUFFICES ASSUME NEW s \in SUBSET T, s # {}
               PROVE  sum[s \ {Any(s)}] = h[s \ {Any(s)}]
    BY DEF OneOut
  <2>1. s \ {Any(s)} \in SUBSET T /\ s \ {Any(s)} # T
    BY AnyIsMember
  <2> QED  BY <1>4, <2>1
<1>6. IsSum(w, h, T)
  BY <1>5 DEF IsSum
<1> QED  BY <1>6

LEMMA SumTakesOut ==
  ASSUME NEW w, NEW S, IsFiniteSet(S)
  PROVE  SumOf(w, S) = IF S = {} THEN 0 ELSE w[Any(S)] + SumOf(w, S \ {Any(S)})
<1> DEFINE f == CHOOSE f : IsSum(w, f, S)
           u == S \ {Any(S)}
<1>1. IsSum(w, f, S)
  BY SumExists
<1>2. SumOf(w, S) = OneOut(w, f, S)
  BY <1>1 DEF IsSum, SumOf
<1>3. CASE S = {}
  BY <1>2, <1>3 DEF OneOut
<1>4. CASE S # {}
  <2>1. u \in SUBSET S /\ IsFiniteSet(u)
    BY <1>4, AnyIsMember, FS_Subset
  <2>2. IsSum(w, [s \in SUBSET u |-> f[s]], u)
    BY <1>1, <2>1, SumOfPart
  <2>3. IsSum(w, CHOOSE k : IsSum(w, k, u), u)
    BY <2>1, SumExists
  <2>4. [s \in SUBSET u |-> f[s]] = (CHOOSE k : IsSum(w, k, u))
    BY <2>1, <2>2, <2>3, SumIsOne
  <2>5. f[u] = SumOf(w, u)
    BY <2>4 DEF SumOf
  <2> QED  BY <1>2, <1>4, <2>5 DEF OneOut
<1> QED  BY <1>3, <1>4

LEMMA SumIsNat ==
  ASSUME NEW R, NEW w \in [R -> Nat], NEW S \in SUBSET R, IsFiniteSet(S)
  PROVE  SumOf(w, S) \in Nat
<1> DEFINE K == {s \in SUBSET S : SumOf(w, s) \notin Nat}
<1>1. SUFFICES ASSUME K # {} PROVE FALSE
  OBVIOUS
<1>2. PICK s \in K : \A t \in K : t \subseteq s => t = s
  <2>1. K \subseteq SUBSET S
    OBVIOUS
  <2> HIDE DEF K
  <2> QED  BY <1>1, <2>1, SmallestSubset
<1>3. IsFiniteSet(s)
  BY FS_Subset
<1>4. CASE s = {}
  <2>1. SumOf(w, s) = 0
    BY <1>3, <1>4, SumTakesOut
  <2> QED  BY <2>1
<1>5. CASE s # {}
  <2>0. Any(s) \in s /\ s \ {Any(s)} \in SUBSET S /\ s \ {Any(s)} \notin K
    BY <1>2, <1>5, AnyIsMember
  <2>1. w[Any(s)] \in Nat /\ SumOf(w, s \ {Any(s)}) \in Nat
    BY <2>0
  <2>2. SumOf(w, s) = w[Any(s)] + SumOf(w, s \ {Any(s)})
    BY <1>3, <1>5, SumTakesOut
  <2> QED  BY <2>1, <2>2
<1> QED  BY <1>4, <1>5

(* Whichever member is taken out.                                              *)
LEMMA SumAdds ==
  ASSUME NEW R, NEW w \in [R -> Nat], NEW S \in SUBSET R, IsFiniteSet(S), NEW r \in S
  PROVE  SumOf(w, S) = SumOf(w, S \ {r}) + w[r]
<1> DEFINE K == {s \in SUBSET S :
                   \E x \in s : SumOf(w, s) # SumOf(w, s \ {x}) + w[x]}
<1>1. SUFFICES ASSUME K # {} PROVE FALSE
  OBVIOUS
<1>2. PICK s \in K : \A t \in K : t \subseteq s => t = s
  <2>1. K \subseteq SUBSET S
    OBVIOUS
  <2> HIDE DEF K
  <2> QED  BY <1>1, <2>1, SmallestSubset
<1>3. PICK x \in s : SumOf(w, s) # SumOf(w, s \ {x}) + w[x]
  OBVIOUS
<1> DEFINE a == Any(s)
<1>4. a \in s /\ IsFiniteSet(s)
  BY AnyIsMember, FS_Subset
<1>5. SumOf(w, s) = w[a] + SumOf(w, s \ {a})
  BY <1>4, SumTakesOut
<1> HIDE DEF a
<1>6. \A t \in SUBSET s : SumOf(w, t) \in Nat
  BY <1>4, FS_Subset, SumIsNat
<1>7. w[a] \in Nat /\ w[x] \in Nat
  BY <1>4
<1>8. a # x
  BY <1>3, <1>5, <1>6, <1>7
<1>9. /\ SumOf(w, s \ {a}) = SumOf(w, (s \ {a}) \ {x}) + w[x]
      /\ SumOf(w, s \ {x}) = SumOf(w, (s \ {x}) \ {a}) + w[a]
  <2>1. s \ {a} \in SUBSET S /\ s \ {a} # s /\ s \ {x} \in SUBSET S /\ s \ {x} # s
    BY <1>4
  <2>2. s \ {a} \notin K /\ s \ {x} \notin K
    BY <1>2, <2>1
  <2> QED  BY <1>4, <1>8, <2>1, <2>2
<1>10. (s \ {a}) \ {x} = (s \ {x}) \ {a}
  OBVIOUS
<1> QED  BY <1>3, <1>5, <1>6, <1>7, <1>9, <1>10

LEMMA SumSendIs ==
  ASSUME NEW S
  PROVE  SumSend(S) = SumOf(SendMinor, S)
  BY DEF SumSend, MapThenSumSet, MapThenFoldSet, SumOf, IsSum, OneOut, Any

(* What a set of requests sends is a number, and one more request adds its      *)
(* amount.                                                                     *)
LEMMA SumSendAdds ==
  ASSUME NEW S \in SUBSET Requests
  PROVE  /\ SumSend(S) \in Nat
         /\ S = {} => SumSend(S) = 0
         /\ \A r \in Requests \ S : SumSend(S \union {r}) = SumSend(S) + SendMinor[r]
<1> USE SumSendIs, IntakeAssumption
<1>1. ASSUME NEW T \in SUBSET Requests
      PROVE  IsFiniteSet(T) /\ SumSend(T) \in Nat
  BY FS_Subset, SumIsNat
<1>2. S = {} => SumSend(S) = 0
  BY <1>1, SumTakesOut
<1>3. ASSUME NEW r \in Requests \ S
      PROVE  SumSend(S \union {r}) = SumSend(S) + SendMinor[r]
  <2>1. (S \union {r}) \ {r} = S
    OBVIOUS
  <2> DEFINE T == S \union {r}
  <2>2. T \in SUBSET Requests /\ IsFiniteSet(T) /\ r \in T
    BY <1>1
  <2> HIDE DEF T
  <2>3. SumOf(SendMinor, T) = SumOf(SendMinor, T \ {r}) + SendMinor[r]
    BY <2>2, SumAdds
  <2> QED  BY <2>1, <2>3 DEF T
<1> QED  BY <1>1, <1>2, <1>3

(* ------------------------------- The limit ---------------------------------- *)

(* The profile and the phone of a sender are behind one chat.                   *)
OneChatEach == \A c, d \in Chats : SenderOf[c] = SenderOf[d] => c = d

SpentIn(c) == SumSend(SentBy(c))
Affordable(p) ==
  SpentIn(RequestChat[op[p].about]) + SendMinor[op[p].about] <= DailyLimit

(* What an initiation compared with the limit still holds when it commits.      *)
LimitInv ==
  /\ SenderWithinLimit
  /\ \A p \in Callers : pc[p] = "accept" => Affordable(p)

LEMMA AcceptedSteps ==
  ASSUME IntakeInv, [Next]_vars
  PROVE  \/ Accepted' = Accepted
         \/ \E p \in Callers :
              /\ AcceptTransfer(p) /\ op[p].about \in Requests \ Accepted
              /\ Accepted' = Accepted \union {op[p].about}
<1>0. status \in [Requests -> Statuses \union {"NONE"}]
  BY DEF IntakeInv, ShapeInv
<1>1. ASSUME NEW p \in Callers, AcceptTransfer(p)
      PROVE  /\ op[p].about \in Requests \ Accepted
             /\ Accepted' = Accepted \union {op[p].about}
  <2>1. op[p].about \in Requests
    BY <1>1 DEF AcceptTransfer, IntakeInv, ShapeInv
  <2>2. /\ op[p].about \notin Accepted
        /\ status' = [status EXCEPT ![op[p].about] = "INITIATED"]
    BY <1>1 DEF AcceptTransfer, KeyTaken
  <2> QED  BY <1>0, <2>1, <2>2 DEF Accepted
<1>2. ASSUME NEW q \in Requests, Progress(q) \/ RetryPayout(q)
      PROVE  Accepted' = Accepted
  <2>0. "NONE" \notin Statuses
    BY DEF Statuses, PreCollection, PostCollection
  <2>1. PICK s \in Statuses : status' = [status EXCEPT ![q] = s]
    <3>1. "PENDING_PAYOUT" \in Statuses
      BY DEF Statuses, PostCollection
    <3>2. CASE Progress(q)
      BY <3>2 DEF Progress
    <3>3. CASE RetryPayout(q)
      BY <3>1, <3>3 DEF RetryPayout
    <3> QED  BY <1>2, <3>2, <3>3
  <2>2. q \in Accepted
    BY <1>2 DEF Progress, RetryPayout, CanRetryPayout, Accepted
  <2> QED  BY <1>0, <2>0, <2>1, <2>2 DEF Accepted
<1>3. ASSUME UNCHANGED status
      PROVE  Accepted' = Accepted
  BY <1>3 DEF Accepted
<1> QED
  BY <1>1, <1>2, <1>3 DEF Next, vars, Receive, AcceptInbound, AskStatus, CancelSession,
     CaptureConsent, RecordOnly, OpenSession, ReadExpired, ExpireSession, CloseExpired,
     StartWaiting, BeginInitiate, CheckLimits, Abort, ResolveSession, SetControl

LEMMA LimitStep ==
  ASSUME OneChatEach, IntakeInv, LimitInv, [Next]_vars
  PROVE  LimitInv'
<1>0. ShapeInv /\ LockInv
  BY DEF IntakeInv
<1>1. CASE Accepted' = Accepted
  <2>1. \A c : SpentIn(c)' = SpentIn(c)
    BY <1>1 DEF SpentIn, SentBy
  <2>2. SenderWithinLimit'
    BY <2>1 DEF LimitInv, SenderWithinLimit, SpentIn
  <2>3. ASSUME NEW q \in Callers, pc'[q] = "accept"
        PROVE  Affordable(q)'
    <3>1. CASE pc'[q] = pc[q] /\ op'[q] = op[q]
      BY <2>1, <2>3, <3>1 DEF LimitInv, Affordable
    <3>2. CASE CheckLimits(q) /\ op'[q] = op[q]
      BY <2>1, <3>2 DEF CheckLimits, WithinLimits, Affordable, SpentIn
    <3>3. ASSUME NEW r \in Requests, BeginInitiate(q, r)
          PROVE  FALSE
      BY <1>0, <2>3, <3>3 DEF BeginInitiate, Go, ShapeInv
    <3>4. ASSUME NEW i \in DOMAIN sessions, ReadExpired(q, i)
          PROVE  FALSE
      BY <1>0, <2>3, <3>4 DEF ReadExpired, Go, ShapeInv
    <3> QED  BY <2>3, <3>1, <3>2, <3>3, <3>4, CallerSteps
  <2> QED  BY <2>2, <2>3 DEF LimitInv
<1>2. ASSUME NEW p \in Callers, AcceptTransfer(p), op[p].about \in Requests \ Accepted,
             Accepted' = Accepted \union {op[p].about}
      PROVE  LimitInv'
  <2> DEFINE r == op[p].about
             home == RequestChat[r]
  <2>1. /\ home \in Chats /\ pc[p] = "accept"
        /\ pc' = [pc EXCEPT ![p] = "idle"] /\ op' = [op EXCEPT ![p] = NoOp]
    BY <1>2, IntakeAssumption DEF AcceptTransfer, Finish, Go
  <2>2. ASSUME NEW c \in Chats
        PROVE  SpentIn(c)' = IF c = home THEN SpentIn(c) + SendMinor[r] ELSE SpentIn(c)
    <3>1. SentBy(c)' = IF c = home THEN SentBy(c) \union {r} ELSE SentBy(c)
      BY <1>2, <2>1, IntakeAssumption DEF SentBy, OneChatEach
    <3>2. SumSend(SentBy(c) \union {r}) = SumSend(SentBy(c)) + SendMinor[r]
      BY <1>2, SumSendAdds DEF SentBy, Accepted
    <3> QED  BY <3>1, <3>2 DEF SpentIn
  <2>3. ASSUME NEW c \in Chats
        PROVE  (SpentIn(c) <= DailyLimit)'
    <3>1. CASE c # home
      BY <2>2, <3>1 DEF LimitInv, SenderWithinLimit, SpentIn
    <3>2. CASE c = home
      BY <2>1, <2>2, <3>2 DEF LimitInv, Affordable
    <3> QED  BY <3>1, <3>2
  <2>4. ASSUME NEW q \in Callers, pc'[q] = "accept"
        PROVE  Affordable(q)'
    <3>1. q # p /\ pc[q] = "accept" /\ op'[q] = op[q]
      BY <1>0, <2>1, <2>4 DEF ShapeInv
    <3>2. RequestChat[op[q].about] # home /\ RequestChat[op[q].about] \in Chats
      BY <1>0, <2>1, <3>1, IntakeAssumption DEF LockInv, Initiating, ShapeInv
    <3> QED  BY <2>2, <3>1, <3>2 DEF LimitInv, Affordable
  <2> QED  BY <2>3, <2>4 DEF LimitInv, SenderWithinLimit, SpentIn
<1> QED  BY <1>1, <1>2, AcceptedSteps

(* However initiations race, what a sender with one chat has accepted never     *)
(* exceeds the daily limit.                                                    *)
THEOREM SendersStayWithinLimit ==
  ASSUME OneChatEach
  PROVE  Spec => []SenderWithinLimit
<1>1. Init => LimitInv
  <2> SUFFICES ASSUME Init
               PROVE  LimitInv
    OBVIOUS
  <2>1. \A c : SentBy(c) = {}
    BY DEF Init, SentBy, Accepted
  <2>2. SumSend({}) = 0 /\ 0 <= DailyLimit
    BY SumSendAdds, IntakeAssumption
  <2> QED  BY <2>1, <2>2 DEF Init, LimitInv, SenderWithinLimit
<1>2. IntakeInv /\ LimitInv /\ [Next]_vars => LimitInv'
  BY LimitStep
<1>3. LimitInv => SenderWithinLimit
  BY DEF LimitInv
<1> QED  BY <1>1, <1>2, <1>3, IntakeAlways, PTL DEF Spec
=============================================================================
