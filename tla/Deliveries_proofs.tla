--------------------------- MODULE Deliveries_proofs ---------------------------
(* The three parts that must get a queue done: the alert outbox, for any number *)
(* of dispatchers, operators and retries; the notifications, for any number of  *)
(* couriers; and the backfill script, for any tables and batches. Each is       *)
(* proved of its own specification, with every fault its constants allow.      *)
EXTENDS MC_Deliveries, FiniteSetTheorems, TLAPS

(* ------------------------------ The alert outbox ---------------------------- *)

(* That an alert is escalated once rests on the conditional update alone:       *)
(* nothing is assumed of what dispatchers hold in their hands.                 *)
EscalationInv ==
  /\ escalated \in [Alerts -> BOOLEAN]
  /\ escalations \in [Alerts -> Nat]
  /\ EscalatedOnce

LEMMA EscalationInit == Init => EscalationInv
  BY DEF Init, EscalationInv, EscalatedOnce

(* The two actions that escalate look at escalatedAt in the same update.       *)
LEMMA EscalationStep == EscalationInv /\ [Next]_vars => EscalationInv'
<1> SUFFICES ASSUME EscalationInv, [Next]_vars
             PROVE  EscalationInv'
  OBVIOUS
<1>1. ASSUME UNCHANGED <<escalated, escalations>>
      PROVE  EscalationInv'
  BY <1>1 DEF EscalationInv, EscalatedOnce
<1>2. ASSUME NEW a, ~escalated[a],
             escalated' = [escalated EXCEPT ![a] = TRUE],
             escalations' = [escalations EXCEPT ![a] = @ + 1]
      PROVE  EscalationInv'
  <2>1. ASSUME NEW b \in Alerts, b = a
        PROVE  escalated'[b] /\ escalations'[b] = 1
    BY <1>2, <2>1 DEF EscalationInv, EscalatedOnce
  <2>2. ASSUME NEW b \in Alerts, b # a
        PROVE  escalated'[b] = escalated[b] /\ escalations'[b] = escalations[b]
    BY <1>2, <2>2 DEF EscalationInv
  <2>3. EscalatedOnce'
    BY <2>1, <2>2 DEF EscalationInv, EscalatedOnce
  <2>4. escalated' \in [Alerts -> BOOLEAN]
    BY <1>2 DEF EscalationInv
  <2>5. escalations' = [b \in Alerts |-> escalations'[b]]
    BY <1>2 DEF EscalationInv
  <2>6. escalations' \in [Alerts -> Nat]
    <3>1. ASSUME NEW b \in Alerts
          PROVE  escalations'[b] \in Nat
      <4>1. CASE b = a
        <5>1. escalations'[b] = 1
          BY <2>1, <4>1
        <5> QED  BY <5>1
      <4>2. CASE b # a
        BY <2>2, <4>2 DEF EscalationInv
      <4> QED  BY <4>1, <4>2
    <3> QED  BY <3>1, <2>5
  <2> QED  BY <2>3, <2>4, <2>6 DEF EscalationInv
<1>3. CASE UNCHANGED vars
  BY <1>1, <1>3 DEF vars, rowVars
<1>4. ASSUME NEW a \in Alerts, Raise(a) \/ BackoffEnds(a)
      PROVE  EscalationInv'
  BY <1>1, <1>4 DEF Raise, BackoffEnds
<1>5. ASSUME NEW a \in Alerts, EscalateByOps(a)
      PROVE  EscalationInv'
  BY <1>2, <1>5 DEF EscalateByOps
<1>6. ASSUME NEW d \in Dispatchers, Dispatch(d) \/ Crash(d)
      PROVE  EscalationInv'
  <2>1. CASE EscalateExhausted(d)
    BY <1>1, <1>2, <2>1 DEF EscalateExhausted
  <2>2. CASE ~EscalateExhausted(d)
    BY <1>1, <1>6, <2>2 DEF Dispatch, FindDeliveries, SkipUnrouted, Post,
       RecordDelivered, RecordingThrows, RecordFailure, Crash, rowVars
  <2> QED  BY <2>1, <2>2
<1> QED  BY <1>3, <1>4, <1>5, <1>6 DEF Next

(* One escalation takes effect, whoever races.                                 *)
THEOREM OneEscalation == Spec => []EscalatedOnce
<1>1. Spec => []EscalationInv
  BY EscalationInit, EscalationStep, PTL DEF Spec
<1>2. EscalationInv => EscalatedOnce
  BY DEF EscalationInv
<1> QED  BY <1>1, <1>2, PTL

(* What a dispatcher holds is a snapshot: an escalation it shows took place, and *)
(* what it is about to record as delivered was seen by the webhook.             *)
TrueSnapshot(s) == s.escalated => escalated[s.alert]

OutboxInv ==
  /\ TypeOK
  /\ ExhaustedIsEscalated
  /\ DeliveredWasReceived
  /\ \A d \in Dispatchers :
       /\ \A s \in batch[d] : TrueSnapshot(s)
       /\ pc[d] # "idle" => TrueSnapshot(held[d])
       /\ pc[d] = "posted" => held[d].alert \in received

LEMMA SnapshotIsTrue ==
  ASSUME TypeOK, NEW i \in DOMAIN raised
  PROVE  Snapshot(i) \in Snapshots /\ TrueSnapshot(Snapshot(i))
<1>1. i \in Nat /\ raised[i] \in Alerts
  BY DEF TypeOK
<1>2. Snapshot(i) \in Snapshots
  BY <1>1 DEF TypeOK, Snapshot, Snapshots
<1> QED  BY <1>1, <1>2 DEF Snapshot, TrueSnapshot

LEMMA FoundAreSnapshots ==
  ASSUME TypeOK
  PROVE  FoundRows \subseteq Snapshots /\ \A s \in FoundRows : TrueSnapshot(s)
BY SnapshotIsTrue DEF FoundRows, Waiting

LEMMA OutboxInit == Init => OutboxInv
  BY DEF Init, OutboxInv, TypeOK, ExhaustedIsEscalated, DeliveredWasReceived

(* A step of one dispatcher leaves the other ones their rows.                   *)
OthersRest(d) ==
  \A o \in Dispatchers :
    o # d => pc'[o] = pc[o] /\ batch'[o] = batch[o] /\ held'[o] = held[o]

LEMMA OutboxType ==
  ASSUME TypeOK, [Next]_vars
  PROVE  TypeOK'
<1>1. CASE UNCHANGED vars
  BY <1>1 DEF vars, rowVars, TypeOK
<1>2. ASSUME NEW a \in Alerts, Raise(a)
      PROVE  TypeOK'
  BY <1>2 DEF Raise, TypeOK
<1>3. ASSUME NEW a \in Alerts, BackoffEnds(a) \/ EscalateByOps(a)
      PROVE  TypeOK'
  <2>1. CASE BackoffEnds(a)
    BY <2>1 DEF BackoffEnds, TypeOK
  <2>2. CASE EscalateByOps(a)
    <3>1. /\ escalated' \in [Alerts -> BOOLEAN]
          /\ escalations' \in [Alerts -> Nat]
      BY <2>2 DEF EscalateByOps, TypeOK
    <3> QED  BY <2>2, <3>1 DEF EscalateByOps, TypeOK
  <2> QED  BY <1>3, <2>1, <2>2
<1>4. ASSUME NEW d \in Dispatchers, Dispatch(d) \/ Crash(d)
      PROVE  TypeOK'
  <2>1. CASE FindDeliveries(d)
    BY <2>1, FoundAreSnapshots DEF FindDeliveries, rowVars, TypeOK
  <2>2. ASSUME NEW s \in batch[d], SkipUnrouted(d, s) \/ Post(d, s)
        PROVE  TypeOK'
    <3>1. s \in Snapshots /\ s.alert \in Alerts
      BY DEF TypeOK, Snapshots
    <3>2. CASE SkipUnrouted(d, s)
      BY <3>2 DEF SkipUnrouted, Take, rowVars, TypeOK
    <3>3. CASE Post(d, s)
      <4>1. received' \subseteq Alerts
        BY <3>1, <3>3 DEF Post, TypeOK
      <4>2. /\ pc' \in [Dispatchers -> {"idle", "posted", "failed"}]
            /\ batch' \in [Dispatchers -> SUBSET Snapshots]
            /\ held' \in [Dispatchers -> Snapshots \union {None}]
            /\ \A o \in Dispatchers : pc'[o] # "idle" => held'[o] \in Snapshots
        BY <3>1, <3>3 DEF Post, Take, TypeOK
      <4> QED  BY <3>3, <4>1, <4>2 DEF Post, rowVars, TypeOK
    <3> QED  BY <2>2, <3>2, <3>3
  <2>3. CASE RecordingThrows(d) \/ Crash(d)
    BY <2>3 DEF RecordingThrows, Crash, rowVars, TypeOK
  <2>4. CASE RecordDelivered(d) \/ RecordFailure(d) \/ EscalateExhausted(d)
    <3>1. held[d] \in Snapshots /\ held[d].alert \in Alerts
      BY <2>4 DEF RecordDelivered, RecordFailure, EscalateExhausted, TypeOK,
         Snapshots
    <3>2. CASE RecordDelivered(d)
      BY <3>1, <3>2 DEF RecordDelivered, Done, TypeOK
    <3>3. CASE RecordFailure(d)
      BY <3>1, <3>3 DEF RecordFailure, Done, TypeOK
    <3>4. CASE EscalateExhausted(d)
      <4> DEFINE a == held[d].alert
      <4>1. /\ status' \in [Alerts -> {"ABSENT", "PENDING", "DELIVERED", "FAILED"}]
            /\ attempts' \in [Alerts -> Nat]
            /\ due' \in [Alerts -> {"past", "future", "null"}]
            /\ escalated' \in [Alerts -> BOOLEAN]
            /\ escalations' \in [Alerts -> Nat]
        <5>1. CASE escalated[a]
          BY <3>4, <5>1 DEF EscalateExhausted, TypeOK
        <5>2. CASE ~escalated[a]
          <6>1. /\ status' = [status EXCEPT ![a] = "FAILED"]
                /\ attempts' = [attempts EXCEPT ![a] = @ + 1]
                /\ due' = [due EXCEPT ![a] = "null"]
                /\ escalated' = [escalated EXCEPT ![a] = TRUE]
                /\ escalations' = [escalations EXCEPT ![a] = @ + 1]
            BY <3>4, <5>2 DEF EscalateExhausted
          <6>2. a \in Alerts
            BY <3>1
          <6> HIDE DEF a
          <6>3. attempts' \in [Alerts -> Nat] /\ escalations' \in [Alerts -> Nat]
            BY <6>1, <6>2 DEF TypeOK
          <6>4. escalated' \in [Alerts -> BOOLEAN]
            BY <6>1, <6>2 DEF TypeOK
          <6> QED  BY <6>1, <6>2, <6>3, <6>4 DEF TypeOK
        <5> QED  BY <5>1, <5>2
      <4>3. /\ pc' \in [Dispatchers -> {"idle", "posted", "failed"}]
            /\ held' \in [Dispatchers -> Snapshots \union {None}]
            /\ \A o \in Dispatchers : pc'[o] # "idle" => held'[o] \in Snapshots
        BY <3>4 DEF EscalateExhausted, Done, TypeOK
      <4> QED
        BY <3>4, <4>1, <4>3 DEF EscalateExhausted, Done, TypeOK
    <3> QED  BY <2>4, <3>2, <3>3, <3>4
  <2> QED  BY <1>4, <2>1, <2>2, <2>3, <2>4 DEF Dispatch
<1> QED  BY <1>1, <1>2, <1>3, <1>4 DEF Next

(* Only an escalation sets escalatedAt, and nothing takes it back; what the     *)
(* webhook has seen it has seen.                                               *)
LEMMA Remains ==
  ASSUME TypeOK, [Next]_vars
  PROVE  /\ \A a \in Alerts : escalated[a] => escalated'[a]
         /\ received \subseteq received'
<1>1. CASE UNCHANGED vars
  BY <1>1 DEF vars, rowVars
<1>2. ASSUME NEW a \in Alerts, Raise(a) \/ BackoffEnds(a) \/ EscalateByOps(a)
      PROVE  /\ \A b \in Alerts : escalated[b] => escalated'[b]
             /\ received \subseteq received'
  BY <1>2 DEF Raise, BackoffEnds, EscalateByOps, TypeOK
<1>3. ASSUME NEW d \in Dispatchers, Dispatch(d) \/ Crash(d)
      PROVE  /\ \A b \in Alerts : escalated[b] => escalated'[b]
             /\ received \subseteq received'
  BY <1>3 DEF Dispatch, FindDeliveries, SkipUnrouted, Post, RecordDelivered,
     RecordingThrows, RecordFailure, EscalateExhausted, Crash, rowVars, TypeOK
<1> QED  BY <1>1, <1>2, <1>3 DEF Next

(* What dispatchers hold stays true, for what is escalated or received remains  *)
(* so.                                                                         *)
LEMMA HoldsTrue ==
  ASSUME OutboxInv, [Next]_vars, TypeOK', NEW o \in Dispatchers
  PROVE  /\ \A s \in batch'[o] : TrueSnapshot(s)'
         /\ pc'[o] # "idle" => TrueSnapshot(held[o])'
         /\ pc'[o] = "posted" => held'[o].alert \in received'
<1> DEFINE Goal == /\ \A s \in batch'[o] : TrueSnapshot(s)'
                   /\ pc'[o] # "idle" => TrueSnapshot(held[o])'
                   /\ pc'[o] = "posted" => held'[o].alert \in received'
<1>0. /\ \A s \in Snapshots : s.alert \in Alerts
      /\ \A s \in Snapshots : TrueSnapshot(s) => TrueSnapshot(s)'
      /\ received \subseteq received'
  BY Remains DEF OutboxInv, TrueSnapshot, Snapshots
<1>1. ASSUME pc'[o] = pc[o], batch'[o] \subseteq batch[o], held'[o] = held[o]
      PROVE  Goal
  BY <1>0, <1>1 DEF OutboxInv, TypeOK, TrueSnapshot
<1>2. CASE \/ UNCHANGED vars
           \/ \E a \in Alerts : Raise(a) \/ BackoffEnds(a) \/ EscalateByOps(a)
  BY <1>1, <1>2 DEF vars, Raise, BackoffEnds, EscalateByOps
<1>3. ASSUME NEW d \in Dispatchers, Dispatch(d) \/ Crash(d), d # o
      PROVE  Goal
  BY <1>1, <1>3 DEF Dispatch, FindDeliveries, SkipUnrouted, Post, Take, Done,
     RecordDelivered, RecordingThrows, RecordFailure, EscalateExhausted, Crash,
     OutboxInv, TypeOK
<1>4. CASE FindDeliveries(o)
  <2>1. batch'[o] = FoundRows /\ pc'[o] = "idle"
    BY <1>4 DEF FindDeliveries, OutboxInv, TypeOK
  <2>2. \A s \in FoundRows : s \in Snapshots /\ TrueSnapshot(s)
    BY FoundAreSnapshots DEF OutboxInv
  <2> QED  BY <1>0, <2>1, <2>2
<1>5. ASSUME NEW s \in batch[o], SkipUnrouted(o, s)
      PROVE  Goal
  BY <1>1, <1>5 DEF SkipUnrouted, Take, OutboxInv, TypeOK
<1>6. ASSUME NEW s \in batch[o], Post(o, s)
      PROVE  Goal
  <2>1. s \in Snapshots /\ TrueSnapshot(s)
    BY DEF OutboxInv, TypeOK
  <2>2. /\ batch'[o] \subseteq batch[o] /\ held'[o] = s
        /\ pc'[o] = "posted" => s.alert \in received'
    BY <1>6 DEF Post, Take, OutboxInv, TypeOK
  <2>3. \A x \in batch[o] : x \in Snapshots /\ TrueSnapshot(x)
    BY DEF OutboxInv, TypeOK
  <2>4. TrueSnapshot(held[o])'
    BY <1>0, <2>1, <2>2 DEF TrueSnapshot
  <2> QED  BY <1>0, <2>2, <2>3, <2>4
<1>7. CASE RecordingThrows(o)
  <2>1. /\ pc[o] = "posted" /\ pc'[o] = "failed"
        /\ batch'[o] = batch[o] /\ held'[o] = held[o]
    BY <1>7 DEF RecordingThrows, OutboxInv, TypeOK
  <2> QED  BY <1>0, <2>1 DEF OutboxInv, TypeOK, TrueSnapshot
<1>8. CASE \/ RecordDelivered(o) \/ RecordFailure(o) \/ EscalateExhausted(o)
           \/ Crash(o)
  <2>1. pc'[o] = "idle" /\ batch'[o] \subseteq batch[o]
    BY <1>8 DEF RecordDelivered, RecordFailure, EscalateExhausted, Crash, Done,
       OutboxInv, TypeOK
  <2> QED  BY <1>0, <2>1 DEF OutboxInv, TypeOK
<1> QED
  BY <1>2, <1>3, <1>4, <1>5, <1>6, <1>7, <1>8 DEF Next, Dispatch

(* A row turns DELIVERED or runs out of retries in the hands of a dispatcher    *)
(* that posted it, or that saw it escalated or escalates it.                   *)
LEMMA RowsHold ==
  ASSUME OutboxInv, [Next]_vars
  PROVE  ExhaustedIsEscalated' /\ DeliveredWasReceived'
<1> DEFINE Goal == ExhaustedIsEscalated' /\ DeliveredWasReceived'
<1>0. /\ \A a \in Alerts : escalated[a] => escalated'[a]
      /\ received \subseteq received'
  BY Remains DEF OutboxInv
<1>1. ASSUME UNCHANGED <<status, due>>
      PROVE  Goal
  BY <1>0, <1>1 DEF OutboxInv, ExhaustedIsEscalated, DeliveredWasReceived
<1>2. CASE UNCHANGED vars
  BY <1>1, <1>2 DEF vars, rowVars
<1>3. ASSUME NEW a \in Alerts, Raise(a) \/ BackoffEnds(a) \/ EscalateByOps(a)
      PROVE  Goal
  <2>1. \A b \in Alerts : \/ status'[b] = status[b] /\ due'[b] = due[b]
                          \/ due'[b] = "past" /\ status'[b] \in {status[b], "PENDING"}
    BY <1>3 DEF Raise, BackoffEnds, EscalateByOps, OutboxInv, TypeOK
  <2> QED  BY <1>0, <2>1 DEF OutboxInv, ExhaustedIsEscalated, DeliveredWasReceived
<1>4. ASSUME NEW d \in Dispatchers, Dispatch(d) \/ Crash(d)
      PROVE  Goal
  <2>1. CASE RecordDelivered(d)
    <3>1. \A b \in Alerts : \/ status'[b] = status[b] /\ due'[b] = due[b]
                            \/ b \in received /\ status'[b] = "DELIVERED"
      BY <2>1 DEF RecordDelivered, OutboxInv, TypeOK
    <3> QED
      BY <1>0, <3>1 DEF OutboxInv, ExhaustedIsEscalated, DeliveredWasReceived
  <2>2. CASE RecordFailure(d)
    <3>1. held[d] \in Snapshots
      BY <2>2 DEF RecordFailure, OutboxInv, TypeOK
    <3>2. \A b \in Alerts : \/ status'[b] = status[b] /\ due'[b] = due[b]
                            \/ /\ status'[b] = "FAILED"
                               /\ due'[b] = "null" => escalated[b]
      BY <2>2, <3>1 DEF RecordFailure, OutboxInv, TypeOK, TrueSnapshot
    <3> QED
      BY <1>0, <3>2 DEF OutboxInv, ExhaustedIsEscalated, DeliveredWasReceived
  <2>3. CASE EscalateExhausted(d)
    <3>1. \A b \in Alerts : \/ status'[b] = status[b] /\ due'[b] = due[b]
                            \/ status'[b] = "FAILED" /\ escalated'[b]
      BY <2>3 DEF EscalateExhausted, OutboxInv, TypeOK
    <3> QED
      BY <1>0, <3>1 DEF OutboxInv, ExhaustedIsEscalated, DeliveredWasReceived
  <2>4. CASE FindDeliveries(d) \/ RecordingThrows(d) \/ Crash(d)
    BY <1>1, <2>4 DEF FindDeliveries, RecordingThrows, Crash, rowVars
  <2>5. ASSUME NEW s \in batch[d], SkipUnrouted(d, s) \/ Post(d, s)
        PROVE  Goal
    BY <1>1, <2>5 DEF SkipUnrouted, Post, rowVars
  <2> QED  BY <1>4, <2>1, <2>2, <2>3, <2>4, <2>5 DEF Dispatch
<1> QED  BY <1>2, <1>3, <1>4 DEF Next

LEMMA OutboxHolds == Spec => []OutboxInv
<1>1. OutboxInv /\ [Next]_vars => OutboxInv'
  BY OutboxType, HoldsTrue, RowsHold DEF OutboxInv
<1> QED  BY <1>1, OutboxInit, PTL DEF Spec

(* An alert that ran out of retries was escalated, by its dispatcher or by Ops. *)
THEOREM ExhaustedEscalate == Spec => []ExhaustedIsEscalated
<1>1. OutboxInv => ExhaustedIsEscalated
  BY DEF OutboxInv
<1> QED  BY <1>1, OutboxHolds, PTL

(* What the outbox calls delivered, the webhook has seen.                       *)
THEOREM DeliveredReceived == Spec => []DeliveredWasReceived
<1>1. OutboxInv => DeliveredWasReceived
  BY DEF OutboxInv
<1> QED  BY <1>1, OutboxHolds, PTL

(* ------------------------------- The notifications -------------------------- *)

(* c holds n and may still send it, or has just done so.                        *)
Handles(c, n) == taken[c] = n /\ at[c] \in {"gate", "send", "sent", "unsent"}

(* As long as nothing was lost for n, a single courier handles it and its row   *)
(* says so; once sent, it is being recorded or has been.                        *)
InOrder(n) ==
  /\ sends[n] < 2
  /\ noteRow[n] # "LAPSED"
  /\ \A c \in Couriers : Handles(c, n) => noteRow[n] = "RUNNING"
  /\ \A c, d \in Couriers : Handles(c, n) /\ Handles(d, n) => c = d
  /\ sends[n] = 1 => noteRow[n] \in {"RUNNING", "SUCCEEDED"}
  /\ sends[n] = 1 /\ noteRow[n] = "RUNNING" =>
       \E c \in Couriers : Handles(c, n) /\ at[c] = "sent"

(* What holds of every note: a row that exists, and a note in somebody's hands, *)
(* belong to an intent that exists; what is about to be recorded as sent was    *)
(* taken by WhatsApp; a closed row was sent; and it is in order unless excused. *)
Accounted(n) ==
  /\ noteRow[n] # "ABSENT" \/ (\E c \in Couriers : taken[c] = n) => note[n] # "ABSENT"
  /\ \A c \in Couriers : taken[c] = n /\ at[c] = "sent" => sends[n] > 0
  /\ noteRow[n] = "SUCCEEDED" => note[n] = "SENT" /\ sends[n] > 0
  /\ excused[n] \/ InOrder(n)

NotesInv == NoteTypeOK /\ \A n \in Notes : Accounted(n)

LEMMA NotesInit == NoteInit => NotesInv
<1> SUFFICES ASSUME NoteInit PROVE NotesInv
  OBVIOUS
<1>0. 0 \in 0..MaxNotes /\ 0 \in 0..2 /\ 0 \notin Notes
  BY NotesAssumption DEF Notes
<1>1. NoteTypeOK
  BY <1>0 DEF NoteInit, NoteTypeOK
<1>2. \A n \in Notes : InOrder(n)
  BY DEF NoteInit, InOrder, Handles
<1> QED  BY <1>0, <1>1, <1>2 DEF NotesInv, NoteInit, Accounted

LEMMA NotesType ==
  ASSUME NoteTypeOK, [NoteNext]_noteVars
  PROVE  NoteTypeOK'
<1> USE DEF NoteTypeOK, SetNote, SetRow, Excuse, Move, Leave
<1>0. Notes \subseteq 0..MaxNotes
  BY NotesAssumption DEF Notes
<1>1. CASE UNCHANGED noteVars
  BY <1>1 DEF noteVars
<1>2. ASSUME NEW n \in Notes, CreateNote(n) \/ NoteLeaseLapses(n)
      PROVE  NoteTypeOK'
  BY <1>2 DEF CreateNote, NoteLeaseLapses
<1>3. CASE SwitchNotes
  BY <1>3 DEF SwitchNotes
<1>4. ASSUME NEW c \in Couriers, FindNotes(c)
      PROVE  NoteTypeOK'
  BY <1>4 DEF FindNotes, NotesFound, Due
<1>5. ASSUME NEW c \in Couriers, NEW n \in Notes, ClaimNote(c, n)
      PROVE  NoteTypeOK'
  <2>1. page' \in [Couriers -> SUBSET Notes]
    BY <1>5 DEF ClaimNote, NextOnPage
  <2> QED  BY <1>0, <1>5, <2>1 DEF ClaimNote
<1>6. ASSUME NEW c \in Couriers, HoldBack(c) \/ ReadNote(c) \/ RecordingSentThrows(c)
      PROVE  NoteTypeOK'
  <2>1. taken[c] \in Notes
    BY <1>6 DEF HoldBack, ReadNote, RecordingSentThrows
  <2>2. 0 \in 0..MaxNotes
    BY NotesAssumption
  <2>3. CASE HoldBack(c)
    BY <2>1, <2>2, <2>3 DEF HoldBack
  <2>4. CASE ReadNote(c)
    BY <2>1, <2>4 DEF ReadNote
  <2>5. CASE RecordingSentThrows(c)
    BY <2>1, <2>5 DEF RecordingSentThrows
  <2> QED  BY <1>6, <2>3, <2>4, <2>5
<1>7. ASSUME NEW c \in Couriers, SendNote(c)
      PROVE  NoteTypeOK'
  <2>1. taken[c] \in Notes
    BY <1>7 DEF SendNote
  <2>2. sends' \in [Notes -> 0..2]
    BY <1>7, <2>1 DEF SendNote
  <2>3. excused' \in [Notes -> BOOLEAN]
    BY <1>7, <2>1 DEF SendNote
  <2> QED  BY <1>7, <2>1, <2>2, <2>3 DEF SendNote
<1>8. ASSUME NEW c \in Couriers, RecordSent(c) \/ RecordUnsent(c)
      PROVE  NoteTypeOK'
  <2>1. taken[c] \in Notes
    BY <1>8 DEF RecordSent, RecordUnsent
  <2>2. 0 \in 0..MaxNotes
    BY NotesAssumption
  <2> QED  BY <1>8, <2>1, <2>2 DEF RecordSent, RecordUnsent
<1>9. ASSUME NEW c \in Couriers, FailNoteJob(c)
      PROVE  NoteTypeOK'
  <2>1. taken[c] \in Notes
    BY <1>9 DEF FailNoteJob
  <2>2. 0 \in 0..MaxNotes
    BY NotesAssumption
  <2>3. excused' \in [Notes -> BOOLEAN]
    BY <1>9, <2>1 DEF FailNoteJob
  <2> QED  BY <1>9, <2>1, <2>2, <2>3 DEF FailNoteJob
<1>10. ASSUME NEW c \in Couriers, CourierCrash(c)
       PROVE  NoteTypeOK'
  <2>1. 0 \in 0..MaxNotes
    BY NotesAssumption
  <2> QED  BY <1>10, <2>1 DEF CourierCrash
<1> QED
  BY <1>1, <1>2, <1>3, <1>4, <1>5, <1>6, <1>7, <1>8, <1>9, <1>10
     DEF NoteNext, Deliver

(* A note that a step does not touch stays accounted for.                       *)
Untouched(n) ==
  /\ noteRow'[n] = noteRow[n] /\ note'[n] = note[n]
  /\ sends'[n] = sends[n] /\ excused'[n] = excused[n]
  /\ \A c \in Couriers : /\ taken'[c] = n <=> taken[c] = n
                         /\ taken[c] = n => at'[c] = at[c]

LEMMA UntouchedStays ==
  ASSUME NEW n \in Notes, Accounted(n), Untouched(n)
  PROVE  Accounted(n)'
BY DEF Accounted, Untouched, InOrder, Handles

(* A step of a courier that holds n touches no other note.                      *)
LEMMA OneNote ==
  ASSUME NoteTypeOK, NEW c \in Couriers, NEW n \in Notes, n # taken[c],
         \/ HoldBack(c) \/ ReadNote(c) \/ SendNote(c) \/ RecordSent(c)
         \/ RecordUnsent(c) \/ FailNoteJob(c) \/ RecordingSentThrows(c)
         \/ CourierCrash(c)
  PROVE  Untouched(n)
<1> USE DEF NoteTypeOK, SetNote, SetRow, Excuse, Move, Leave, Untouched
<1>0. 0 \notin Notes
  BY DEF Notes
<1>1. CASE HoldBack(c) \/ ReadNote(c)
  BY <1>0, <1>1 DEF HoldBack, ReadNote
<1>2. CASE SendNote(c)
  BY <1>0, <1>2 DEF SendNote
<1>3. CASE RecordSent(c) \/ RecordUnsent(c) \/ RecordingSentThrows(c)
  BY <1>0, <1>3 DEF RecordSent, RecordUnsent, RecordingSentThrows
<1>4. CASE FailNoteJob(c)
  BY <1>0, <1>4 DEF FailNoteJob
<1>5. CASE CourierCrash(c)
  BY <1>0, <1>5 DEF CourierCrash
<1> QED  BY <1>1, <1>2, <1>3, <1>4, <1>5

(* A step of the courier that holds n.                                         *)
LEMMA OwnNote ==
  ASSUME NotesInv, NEW c \in Couriers, NEW n \in Notes, n = taken[c],
         \/ HoldBack(c) \/ ReadNote(c) \/ SendNote(c) \/ RecordSent(c)
         \/ RecordUnsent(c) \/ FailNoteJob(c) \/ RecordingSentThrows(c)
         \/ CourierCrash(c)
  PROVE  Accounted(n)'
<1> USE DEF NoteTypeOK, SetNote, SetRow, Excuse, Move, Leave
<1>0. /\ NoteTypeOK /\ Accounted(n) /\ 0 \notin Notes
      /\ sends[n] \in 0..2
  BY DEF NotesInv, Notes
<1>1. CASE HoldBack(c)
  BY <1>0, <1>1 DEF HoldBack, Accounted, InOrder, Handles
<1>2. CASE ReadNote(c)
  BY <1>0, <1>2 DEF ReadNote, Accounted, InOrder, Handles
<1>3. CASE SendNote(c)
  BY <1>0, <1>3 DEF SendNote, Accounted, InOrder, Handles
<1>4. CASE RecordSent(c)
  BY <1>0, <1>4 DEF RecordSent, Accounted, InOrder, Handles
<1>5. CASE RecordUnsent(c)
  BY <1>0, <1>5 DEF RecordUnsent, Accounted, InOrder, Handles
<1>6. CASE FailNoteJob(c)
  <2>1. /\ noteRow'[n] = "FAILED" /\ UNCHANGED <<note, sends>>
        /\ taken'[c] # n /\ at[c] = "fail"
    BY <1>0, <1>6 DEF FailNoteJob
  <2>2. \A d \in Couriers : d # c => taken'[d] = taken[d] /\ at'[d] = at[d]
    BY <1>0, <1>6 DEF FailNoteJob
  <2>3. \/ excused'[n]
        \/ /\ ~excused[n] /\ noteRow[n] # "SUCCEEDED"
           /\ \A d \in Couriers \ {c} : taken[d] # n
    BY <1>0, <1>6 DEF FailNoteJob
  <2> QED  BY <1>0, <2>1, <2>2, <2>3 DEF Accounted, InOrder, Handles
<1>7. CASE RecordingSentThrows(c)
  BY <1>0, <1>7 DEF RecordingSentThrows, Accounted, InOrder, Handles
<1>8. CASE CourierCrash(c)
  <2>1. /\ UNCHANGED <<note, noteRow, sends>>
        /\ excused'[n] \/ (~excused[n] /\ at[c] # "sent")
        /\ taken'[c] # n
    BY <1>0, <1>8 DEF CourierCrash
  <2>2. \A d \in Couriers : d # c => taken'[d] = taken[d] /\ at'[d] = at[d]
    BY <1>0, <1>8 DEF CourierCrash
  <2> QED  BY <1>0, <2>1, <2>2 DEF Accounted, InOrder, Handles
<1> QED  BY <1>1, <1>2, <1>3, <1>4, <1>5, <1>6, <1>7, <1>8

LEMMA NotesStep ==
  ASSUME NotesInv, [NoteNext]_noteVars
  PROVE  NotesInv'
<1> USE DEF SetNote, SetRow
<1>0. NoteTypeOK /\ NoteTypeOK'
  BY NotesType DEF NotesInv
<1> SUFFICES ASSUME NEW n \in Notes PROVE Accounted(n)'
  BY <1>0 DEF NotesInv
<1>1. Accounted(n)
  BY DEF NotesInv
<1>2. CASE UNCHANGED noteVars \/ SwitchNotes \/ \E c \in Couriers : FindNotes(c)
  BY <1>1, <1>2, UntouchedStays DEF noteVars, SwitchNotes, FindNotes, Untouched
<1>3. ASSUME NEW m \in Notes, CreateNote(m)
      PROVE  Accounted(n)'
  <2>1. CASE n = m
    BY <1>0, <1>1, <1>3, <2>1
       DEF CreateNote, NoteTypeOK, Accounted, InOrder, Handles
  <2>2. CASE n # m
    BY <1>0, <1>1, <1>3, <2>2, UntouchedStays DEF CreateNote, NoteTypeOK, Untouched
  <2> QED  BY <2>1, <2>2
<1>4. ASSUME NEW m \in Notes, NoteLeaseLapses(m)
      PROVE  Accounted(n)'
  <2>1. CASE n = m
    BY <1>0, <1>1, <1>4, <2>1
       DEF NoteLeaseLapses, Excuse, NoteTypeOK, Accounted
  <2>2. CASE n # m
    BY <1>0, <1>1, <1>4, <2>2, UntouchedStays
       DEF NoteLeaseLapses, Excuse, NoteTypeOK, Untouched
  <2> QED  BY <2>1, <2>2
<1>5. ASSUME NEW c \in Couriers, NEW m \in Notes, ClaimNote(c, m)
      PROVE  Accounted(n)'
  <2>0. at[c] = "idle"
    BY <1>5 DEF ClaimNote, NextOnPage
  <2>1. CASE n = m
    BY <1>0, <1>1, <1>5, <2>0, <2>1
       DEF ClaimNote, Unclaimed, NoteTypeOK, Accounted, InOrder, Handles
  <2>2. CASE n # m
    BY <1>0, <1>1, <1>5, <2>0, <2>2
       DEF ClaimNote, NoteTypeOK, Accounted, InOrder, Handles
  <2> QED  BY <2>1, <2>2
<1>6. ASSUME NEW c \in Couriers,
             \/ HoldBack(c) \/ ReadNote(c) \/ SendNote(c) \/ RecordSent(c)
             \/ RecordUnsent(c) \/ FailNoteJob(c) \/ RecordingSentThrows(c)
             \/ CourierCrash(c)
      PROVE  Accounted(n)'
  BY <1>0, <1>1, <1>6, OneNote, OwnNote, UntouchedStays
<1> QED
  BY <1>2, <1>3, <1>4, <1>5, <1>6 DEF NoteNext, Deliver

LEMMA NotesHold == NoteSpec => []NotesInv
  BY NotesInit, NotesStep, PTL DEF NoteSpec

(* No message is dropped: a row is closed only when WhatsApp took the message.  *)
THEOREM ClosedNotesWereSent == NoteSpec => []ClosedWasSent
<1>1. NotesInv => ClosedWasSent
  BY DEF NotesInv, Accounted, ClosedWasSent
<1> QED  BY <1>1, NotesHold, PTL

(* No message goes out twice unless something was lost on the way.              *)
THEOREM NotesResentForAReason == NoteSpec => []ResentForAReason
<1>1. NotesInv => ResentForAReason
  BY DEF NotesInv, Accounted, InOrder, ResentForAReason, NoteTypeOK
<1> QED  BY <1>1, NotesHold, PTL

(* -------------------------------- The backfill ------------------------------ *)

(* Only a service writes a row that the script has read: what the script is     *)
(* about to write is still the row's value, and the one it was last given.      *)
FetchedIsCurrent ==
  /\ \A b, c \in fetched : b.row = c.row => b = c
  /\ \A b \in fetched : b.row \notin raced =>
       open[b.row] = b.value /\ truth[b.row] = b.value

BackfillInv ==
  /\ BackfillTypeOK
  /\ IsFiniteSet(fetched)
  /\ FetchedIsCurrent
  /\ NothingLost

LEMMA BatchBounds ==
  BatchSize \in Nat /\ 0 <= BatchSize /\ NTables \in Nat /\ 1 \in 1..(NTables + 1)
BY BackfillAssumption

LEMMA BackfillStarts == BackfillInit => BackfillInv
<1> SUFFICES ASSUME BackfillInit PROVE BackfillInv
  OBVIOUS
<1>1. /\ open \in [Records -> {"", "old"}]
      /\ truth = open /\ sealed = [r \in Records |-> Null]
  BY BackfillAssumption DEF BackfillInit
<1>2. /\ IsFiniteSet(fetched) /\ Cardinality(fetched) = 0
      /\ 0 <= BatchSize /\ 1 \in 1..(NTables + 1)
  <2>1. fetched = {}
    BY DEF BackfillInit
  <2> QED  BY <2>1, FS_EmptySet, BatchBounds
<1>3. BackfillTypeOK
  BY <1>1, <1>2 DEF BackfillInit, BackfillTypeOK, Null
<1> QED
  BY <1>1, <1>2, <1>3
     DEF BackfillInit, BackfillInv, FetchedIsCurrent, NothingLost, Reveal, Null

(* A batch is no larger than its rows: each row is read once.                   *)
LEMMA BatchFits ==
  ASSUME NEW R \in SUBSET Records, Cardinality(R) <= BatchSize
  PROVE  LET batchOf == {[row |-> r, value |-> open[r]] : r \in R}
         IN IsFiniteSet(batchOf) /\ Cardinality(batchOf) <= BatchSize
<1> DEFINE batchOf == {[row |-> r, value |-> open[r]] : r \in R}
           read == [r \in R |-> [row |-> r, value |-> open[r]]]
<1>1. IsFiniteSet(R) /\ Cardinality(R) \in Nat
  BY FS_Subset, FS_CardinalityType, BackfillAssumption
<1>2. read \in Surjection(R, batchOf)
  BY DEF Surjection
<1>3. IsFiniteSet(batchOf) /\ Cardinality(batchOf) <= Cardinality(R)
  BY ONLY <1>1, <1>2, FS_Surjection
<1>4. Cardinality(batchOf) \in Nat /\ BatchSize \in Nat
  BY <1>3, FS_CardinalityType, BackfillAssumption
<1> QED  BY <1>1, <1>3, <1>4

LEMMA FindBatchStep ==
  ASSUME BackfillInv, FindBatch
  PROVE  BackfillInv'
<1> DEFINE rows == {r \in Records : Pending(r)}
<1>1. CASE rows = {}
  <2>1. /\ table' = table + 1 /\ table' \in 1..(NTables + 1)
        /\ UNCHANGED <<open, sealed, truth, raced, fetched>>
    <3>1. /\ table <= NTables /\ table' = table + 1
          /\ UNCHANGED <<open, sealed, truth, raced, fetched>>
      BY <1>1 DEF FindBatch
    <3>2. table \in 1..(NTables + 1)
      BY DEF BackfillInv, BackfillTypeOK
    <3> QED  BY <3>1, <3>2, BatchBounds
  <2> QED
    BY <2>1 DEF BackfillInv, BackfillTypeOK, FetchedIsCurrent, NothingLost, Reveal
<1>2. CASE rows # {}
  <2>1. PICK R \in SUBSET rows :
          /\ Cardinality(R) = BatchSize \/ (R = rows /\ Cardinality(R) < BatchSize)
          /\ fetched' = {[row |-> r, value |-> open[r]] : r \in R}
    BY <1>2 DEF FindBatch
  <2>2. UNCHANGED <<open, sealed, truth, raced, table>>
    BY <1>2 DEF FindBatch
  <2>3. R \in SUBSET Records /\ Cardinality(R) <= BatchSize
    <3>1. IsFiniteSet(R)
      BY FS_Subset, BackfillAssumption
    <3>2. Cardinality(R) \in Nat
      BY <3>1, FS_CardinalityType
    <3> QED  BY <2>1, <3>2, BackfillAssumption
  <2>4. IsFiniteSet(fetched') /\ Cardinality(fetched') <= BatchSize
    BY <2>1, <2>3, BatchFits
  <2>5. \A b \in fetched' : /\ b.row \in Records /\ b.value = open[b.row]
                            /\ b.value # Null /\ b.value \in {"", "old", "new"}
    <3>1. ASSUME NEW s \in R
          PROVE  /\ s \in Records /\ open[s] # Null
                 /\ open[s] \in {"", "old", "new"}
      BY DEF Pending, BackfillInv, BackfillTypeOK
    <3>2. \A b \in fetched' : \E s \in R : b.row = s /\ b.value = open[s]
      BY <2>1
    <3> QED  BY <3>1, <3>2
  <2>6. \A b, c \in fetched' : b.row = c.row => b = c
    BY <2>1
  <2>7. FetchedIsCurrent'
    BY <2>2, <2>5, <2>6 DEF BackfillInv, FetchedIsCurrent, NothingLost, Reveal
  <2> QED
    BY <2>2, <2>4, <2>5, <2>7 DEF BackfillInv, BackfillTypeOK, NothingLost, Reveal
<1> QED  BY <1>1, <1>2

LEMMA SealRowStep ==
  ASSUME BackfillInv, NEW b \in fetched, SealRow(b)
  PROVE  BackfillInv'
<1>1. /\ IsFiniteSet(fetched') /\ Cardinality(fetched') <= BatchSize
      /\ fetched' = fetched \ {b}
  <2>1. fetched' \in SUBSET fetched
    BY DEF SealRow
  <2>2. IsFiniteSet(fetched') /\ Cardinality(fetched') <= Cardinality(fetched)
    BY <2>1, FS_Subset DEF BackfillInv
  <2>3. Cardinality(fetched') \in Nat /\ Cardinality(fetched) \in Nat
    BY <2>2, FS_CardinalityType DEF BackfillInv
  <2>4. Cardinality(fetched) <= BatchSize
    BY DEF BackfillInv, BackfillTypeOK
  <2>5. fetched' = fetched \ {b}
    BY DEF SealRow
  <2>6. Cardinality(fetched') <= BatchSize
    BY ONLY <2>2, <2>3, <2>4, BatchBounds
  <2> QED  BY <2>2, <2>5, <2>6
<1>2. /\ b.row \in Records /\ b.value \in {"", "old", "new"}
      /\ \A c \in fetched' : c.row # b.row
  BY <1>1 DEF BackfillInv, BackfillTypeOK, FetchedIsCurrent
<1>3. CASE b.value = ""
  <2>1. UNCHANGED <<open, sealed, truth, table, raced>>
    BY <1>3 DEF SealRow
  <2> QED
    BY <1>1, <2>1
       DEF BackfillInv, BackfillTypeOK, FetchedIsCurrent, NothingLost, Reveal
<1>4. CASE b.value # ""
  <2>1. /\ open' = [open EXCEPT ![b.row] = Null]
        /\ sealed' = [sealed EXCEPT ![b.row] = b.value]
        /\ UNCHANGED <<truth, table, raced>> /\ Kind(b.row) = "seal"
    BY <1>4 DEF SealRow
  <2>2. BackfillTypeOK'
    BY <1>1, <1>2, <2>1 DEF BackfillInv, BackfillTypeOK
  <2>3. FetchedIsCurrent'
    BY <1>1, <1>2, <2>1 DEF BackfillInv, BackfillTypeOK, FetchedIsCurrent
  <2>4. NothingLost'
    <3> SUFFICES ASSUME NEW r \in Records \ raced
                 PROVE  /\ Reveal(r)' = truth[r]
                        /\ Kind(r) = "index" => sealed'[r] \in {Null, open'[r]}
      BY <2>1 DEF NothingLost, Kind
    <3>1. CASE r = b.row
      <4>1. b.value = truth[r] /\ Kind(r) = "seal"
        BY <2>1, <3>1 DEF BackfillInv, FetchedIsCurrent
      <4>2. open'[r] = Null /\ sealed'[r] = b.value
        BY <1>2, <2>1, <3>1 DEF BackfillInv, BackfillTypeOK
      <4> QED  BY <4>1, <4>2 DEF Reveal
    <3>2. CASE r # b.row
      BY <2>1, <3>2 DEF BackfillInv, BackfillTypeOK, NothingLost, Reveal
    <3> QED  BY <3>1, <3>2
  <2> QED  BY <1>1, <2>2, <2>3, <2>4 DEF BackfillInv
<1> QED  BY <1>3, <1>4

LEMMA IndexBatchStep ==
  ASSUME BackfillInv, IndexBatch
  PROVE  BackfillInv'
<1>1. /\ fetched' = {} /\ UNCHANGED <<open, truth, table, raced>>
      /\ IsFiniteSet(fetched') /\ Cardinality(fetched') <= BatchSize
  BY FS_EmptySet, BatchBounds DEF IndexBatch
<1>2. ASSUME NEW r \in Records, InBatch(r)
      PROVE  \E b \in fetched : /\ b.row = r /\ Kind(r) = "index"
                                /\ sealed'[r] = IF b.value = "" THEN Null ELSE b.value
  <2> DEFINE b == CHOOSE x \in fetched : x.row = r
  <2>1. b \in fetched /\ b.row = r
    BY <1>2 DEF InBatch
  <2>2. sealed'[r] = IF b.value = "" THEN Null ELSE b.value
    BY <1>2 DEF IndexBatch
  <2>3. Kind(r) = "index"
    BY <2>1 DEF IndexBatch
  <2> QED  BY <2>1, <2>2, <2>3
<1>3. ASSUME NEW r \in Records, ~InBatch(r)
      PROVE  sealed'[r] = sealed[r]
  BY <1>3 DEF IndexBatch
<1>4. sealed' \in [Records -> {Null, "", "old", "new"}]
  <2> DEFINE to(r) == IF InBatch(r)
                      THEN LET b == CHOOSE x \in fetched : x.row = r
                           IN IF b.value = "" THEN Null ELSE b.value
                      ELSE sealed[r]
  <2>0. sealed' = [r \in Records |-> to(r)]
    BY DEF IndexBatch
  <2> HIDE DEF to
  <2>1. sealed' = [r \in Records |-> sealed'[r]]
    BY <2>0
  <2>2. \A r \in Records : sealed'[r] \in {Null, "", "old", "new"}
    BY <1>2, <1>3 DEF BackfillInv, BackfillTypeOK
  <2> QED  BY <2>1, <2>2
<1>5. BackfillTypeOK'
  BY <1>1, <1>4 DEF BackfillInv, BackfillTypeOK
<1>6. NothingLost'
  <2> SUFFICES ASSUME NEW r \in Records \ raced
               PROVE  /\ Reveal(r)' = truth[r]
                      /\ Kind(r) = "index" => sealed'[r] \in {Null, open[r]}
    BY <1>1 DEF NothingLost, Kind
  <2>1. CASE InBatch(r)
    <3>1. PICK b \in fetched :
                 /\ b.row = r
                 /\ sealed'[r] = IF b.value = "" THEN Null ELSE b.value
      BY <1>2, <2>1
    <3>2. open[r] = b.value /\ truth[r] = b.value
      BY <3>1 DEF BackfillInv, FetchedIsCurrent
    <3>3. b.value # Null
      BY DEF BackfillInv, BackfillTypeOK, Null
    <3> QED  BY <1>1, <3>1, <3>2, <3>3 DEF Reveal
  <2>2. CASE ~InBatch(r)
    BY <1>1, <1>3, <2>2 DEF BackfillInv, NothingLost, Reveal
  <2> QED  BY <2>1, <2>2
<1> QED  BY <1>1, <1>5, <1>6 DEF BackfillInv, FetchedIsCurrent

LEMMA LiveReplaceStep ==
  ASSUME BackfillInv, NEW r \in Records, LiveReplace(r)
  PROVE  BackfillInv'
<1>1. BackfillTypeOK'
  BY DEF LiveReplace, BackfillInv, BackfillTypeOK, Null
<1>2. FetchedIsCurrent'
  BY DEF LiveReplace, BackfillInv, BackfillTypeOK, FetchedIsCurrent, InBatch
<1>3. NothingLost'
  BY DEF LiveReplace, BackfillInv, BackfillTypeOK, NothingLost, Reveal, Null, Kind
<1> QED  BY <1>1, <1>2, <1>3 DEF BackfillInv, LiveReplace

LEMMA BackfillStep ==
  ASSUME BackfillInv, [BackfillNext]_backfillVars
  PROVE  BackfillInv'
<1>1. CASE UNCHANGED backfillVars
  BY <1>1 DEF backfillVars, BackfillInv, BackfillTypeOK, FetchedIsCurrent,
     NothingLost, Reveal
<1>2. CASE Rerun
  <2>1. IsFiniteSet({}) /\ Cardinality({}) = 0 /\ 0 <= BatchSize
    BY FS_EmptySet, BackfillAssumption
  <2>2. 1 \in 1..(NTables + 1)
    BY BackfillAssumption
  <2> QED
    BY <1>2, <2>1, <2>2 DEF Rerun, BackfillInv, BackfillTypeOK, FetchedIsCurrent,
       NothingLost, Reveal
<1> QED
  BY <1>1, <1>2, FindBatchStep, SealRowStep, IndexBatchStep, LiveReplaceStep
     DEF BackfillNext, Script

LEMMA BackfillHolds == BackfillSpec => []BackfillInv
  BY BackfillStarts, BackfillStep, PTL DEF BackfillSpec

(* However often the script is cut and run again, no record loses its value but *)
(* one that a service rewrote between the script's read and its write.          *)
THEOREM BackfillLosesNothing == BackfillSpec => []NothingLost
<1>1. BackfillInv => NothingLost
  BY DEF BackfillInv
<1> QED  BY <1>1, BackfillHolds, PTL

(* --------------------------- The three side by side ------------------------- *)

(* A behaviour of the composition is one of each part, so every part keeps its  *)
(* types.                                                                      *)
THEOREM DeliveriesType == DeliveriesSpec => []DeliveriesTypeOK
<1> DEFINE Inv == OutboxInv /\ NotesInv /\ BackfillInv
<1>1. DeliveriesInit => Inv
  BY OutboxInit, NotesInit, BackfillStarts DEF DeliveriesInit
<1>2. Inv /\ [Delivering /\ UNCHANGED acting]_deliveryVars => Inv'
  <2> SUFFICES ASSUME Inv, [Delivering /\ UNCHANGED acting]_deliveryVars
               PROVE  Inv'
    OBVIOUS
  <2>1. [Next]_vars /\ [NoteNext]_noteVars /\ [BackfillNext]_backfillVars
    BY DEF Delivering, deliveryVars
  <2>2. OutboxInv'
    BY <2>1, OutboxType, HoldsTrue, RowsHold DEF OutboxInv
  <2> QED  BY <2>1, <2>2, NotesStep, BackfillStep
<1>3. Inv => DeliveriesTypeOK
  BY DEF OutboxInv, NotesInv, BackfillInv, DeliveriesTypeOK
<1> QED  BY <1>1, <1>2, <1>3, PTL DEF DeliveriesSpec
=============================================================================
