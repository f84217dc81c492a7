---------------------------- MODULE Notifications ----------------------------
(* Messages to senders. A NotificationIntent and its NOTIFICATION row are       *)
(* inserted together; worker processes take the rows up, send the template      *)
(* through WhatsApp and record what came of it.                                *)
(*                                                                              *)
(* A courier is one worker process going through the page its findMany          *)
(* returned. After a failure it writes the row twice, once with the intent and  *)
(* once more in the outer catch; another courier may have claimed it between.   *)
EXTENDS Naturals, FiniteSets

CONSTANTS
  MaxNotes,    \* intents a run explores, numbered by createdAt
  Unreadable,  \* intents without a recipient, or one that cannot be decrypted
  Couriers,
  NotePage,    \* rows one findMany returns (20 in the code)
  NoteFaults   \* "crash", "throw": a transaction fails, "lapse": a lease runs out

Notes == 1..MaxNotes

ASSUME NotesAssumption ==
  /\ MaxNotes \in Nat
  /\ NotePage \in Nat \ {0}
  /\ Unreadable \subseteq Notes
  /\ NoteFaults \subseteq {"crash", "throw", "lapse"}

VARIABLES
  note,      \* NotificationIntent.status
  noteRow,   \* WorkerJob.status of its row; LAPSED is RUNNING past its lease
  muted,     \* GLOBAL or NOTIFICATION is not ENABLED
  sends,     \* how often WhatsApp took the message: 0, 1 or 2 (more than once)
  excused,   \* an answer, a record or a claim was lost: it may be sent again
  at, taken, page \* per courier: where it is, its note, the rest of its page

noteVars == <<note, noteRow, muted, sends, excused, at, taken, page>>

Held(n) == \E c \in Couriers : taken[c] = n

(* A process died on the row: it is RUNNING and nobody works on it.            *)
Orphaned(n) == noteRow[n] \in {"RUNNING", "LAPSED"} /\ ~Held(n)

(* Mutant of Due: failed rows are not selected again, as failed payouts are not. *)
DueOnce == {n \in Notes : noteRow[n] = "PENDING"}

(* Rows that a poll may select: pending ones and failed ones.                  *)
Due == {n \in Notes : noteRow[n] \in {"PENDING", "FAILED"}}

(* The oldest of them, as many as a page holds.                                 *)
NotesFound == {n \in Due : Cardinality({k \in Due : k < n}) < NotePage}

NoteInit ==
  /\ note = [n \in Notes |-> "ABSENT"]
  /\ noteRow = [n \in Notes |-> "ABSENT"]
  /\ muted = FALSE
  /\ sends = [n \in Notes |-> 0]
  /\ excused = [n \in Notes |-> FALSE]
  /\ at = [c \in Couriers |-> "idle"]
  /\ taken = [c \in Couriers |-> 0]
  /\ page = [c \in Couriers |-> {}]

Move(c, label) == at' = [at EXCEPT ![c] = label] /\ UNCHANGED taken
Leave(c) == at' = [at EXCEPT ![c] = "idle"] /\ taken' = [taken EXCEPT ![c] = 0]
SetNote(n, s) == note' = [note EXCEPT ![n] = s]
SetRow(n, s) == noteRow' = [noteRow EXCEPT ![n] = s]
Excuse(n) == excused' = [excused EXCEPT ![n] = TRUE]

(* Intent and row in one transaction; a known dedupKey changes nothing.        *)
CreateNote(n) ==
  /\ note[n] = "ABSENT" /\ \A k \in 1..(n - 1) : note[k] # "ABSENT"
  /\ SetNote(n, "PENDING") /\ SetRow(n, "PENDING")
  /\ UNCHANGED <<muted, sends, excused, at, taken, page>>

SwitchNotes ==
  /\ muted' = ~muted
  /\ UNCHANGED <<note, noteRow, sends, excused, at, taken, page>>

NoteLeaseLapses(n) ==
  /\ "lapse" \in NoteFaults
  /\ noteRow[n] = "RUNNING"
  /\ SetRow(n, "LAPSED") /\ Excuse(n)
  /\ UNCHANGED <<note, muted, sends, at, taken, page>>

FindNotes(c) ==
  /\ at[c] = "idle" /\ page[c] = {} /\ NotesFound # {}
  /\ page' = [page EXCEPT ![c] = NotesFound]
  /\ UNCHANGED <<note, noteRow, muted, sends, excused, at, taken>>

NextOnPage(c, n) ==
  /\ at[c] = "idle"
  /\ n \in page[c] /\ \A k \in page[c] : n <= k
  /\ page' = [page EXCEPT ![c] = @ \ {n}]

(* Mutant of Unclaimed: the claim does not ask whether another one holds it.    *)
UnclaimedAny(n) == noteRow[n] # "SUCCEEDED"

Unclaimed(n) == noteRow[n] \in {"PENDING", "FAILED", "LAPSED"}

(* The conditional update that claims the row, or passes it over.              *)
ClaimNote(c, n) ==
  /\ NextOnPage(c, n)
  /\ IF Unclaimed(n)
     THEN /\ SetRow(n, "RUNNING")
          /\ at' = [at EXCEPT ![c] = "gate"] /\ taken' = [taken EXCEPT ![c] = n]
     ELSE UNCHANGED <<noteRow, at, taken>>
  /\ UNCHANGED <<note, muted, sends, excused>>

HoldBack(c) ==
  /\ at[c] = "gate" /\ muted
  /\ SetRow(taken[c], "PENDING") /\ Leave(c)
  /\ UNCHANGED <<note, muted, sends, excused, page>>

(* The controls allow it; reading the intent or its recipient may throw before  *)
(* anything is sent.                                                           *)
ReadNote(c) ==
  /\ at[c] = "gate" /\ ~muted
  /\ Move(c, IF taken[c] \in Unreadable THEN "fail" ELSE "send")
  /\ UNCHANGED <<note, noteRow, muted, sends, excused, page>>

(* WhatsApp takes the message and says so, refuses it, or takes it while the    *)
(* answer is lost or late.                                                     *)
SendNote(c) ==
  LET n == taken[c]
  IN /\ at[c] = "send"
     /\ \E took \in BOOLEAN, heard \in BOOLEAN :
          /\ heard => took
          /\ sends' = [sends EXCEPT ![n] = IF took /\ @ < 2 THEN @ + 1 ELSE @]
          /\ excused' = [excused EXCEPT ![n] = @ \/ (took /\ ~heard)]
          /\ Move(c, IF heard THEN "sent" ELSE "unsent")
     /\ UNCHANGED <<note, noteRow, muted, page>>

RecordSent(c) ==
  /\ at[c] = "sent"
  /\ SetNote(taken[c], "SENT") /\ SetRow(taken[c], "SUCCEEDED") /\ Leave(c)
  /\ UNCHANGED <<muted, sends, excused, page>>

(* The transaction is inside the try: when it fails, the message counts as      *)
(* unsent.                                                                     *)
RecordingSentThrows(c) ==
  /\ "throw" \in NoteFaults /\ at[c] = "sent"
  /\ Excuse(taken[c]) /\ Move(c, "unsent")
  /\ UNCHANGED <<note, noteRow, muted, sends, page>>

(* Mutant of RecordUnsent: only the intent fails, and the row counts as done.   *)
RecordUnsentDone(c) ==
  /\ at[c] = "unsent"
  /\ SetNote(taken[c], "FAILED") /\ SetRow(taken[c], "SUCCEEDED") /\ Leave(c)
  /\ UNCHANGED <<muted, sends, excused, page>>

(* Intent and row fail together, then the error is thrown again. nextAttemptAt  *)
(* is written and never read.                                                  *)
RecordUnsent(c) ==
  /\ at[c] = "unsent"
  /\ \/ SetNote(taken[c], "FAILED") /\ SetRow(taken[c], "FAILED")
     \/ "throw" \in NoteFaults /\ UNCHANGED <<note, noteRow>>
  /\ Move(c, "fail")
  /\ UNCHANGED <<muted, sends, excused, page>>

(* The outer catch: failJob by id, whoever has the row by now.                 *)
FailNoteJob(c) ==
  LET n == taken[c]
      overwritten == \/ noteRow[n] = "SUCCEEDED"
                     \/ \E d \in Couriers \ {c} : taken[d] = n
  IN /\ at[c] = "fail"
     /\ SetRow(n, "FAILED") /\ Leave(c)
     /\ excused' = [excused EXCEPT ![n] = @ \/ overwritten]
     /\ UNCHANGED <<note, muted, sends, page>>

(* The process dies, or a write in the catch blocks fails and ends the page.    *)
CourierCrash(c) ==
  /\ "crash" \in NoteFaults
  /\ at[c] # "idle" \/ page[c] # {}
  /\ Leave(c)
  /\ page' = [page EXCEPT ![c] = {}]
  /\ excused' = [n \in Notes |-> excused[n] \/ (taken[c] = n /\ at[c] = "sent")]
  /\ UNCHANGED <<note, noteRow, muted, sends>>

Deliver(c) ==
  \/ FindNotes(c) \/ \E n \in Notes : ClaimNote(c, n)
  \/ HoldBack(c) \/ ReadNote(c) \/ SendNote(c)
  \/ RecordSent(c) \/ RecordUnsent(c) \/ FailNoteJob(c)

NoteNext ==
  \/ \E n \in Notes : CreateNote(n) \/ NoteLeaseLapses(n)
  \/ SwitchNotes
  \/ \E c \in Couriers : Deliver(c) \/ RecordingSentThrows(c) \/ CourierCrash(c)

NoteSpec == NoteInit /\ [][NoteNext]_noteVars

(* ------------------------------ Properties --------------------------------- *)

(* Every variable keeps its type.                                              *)
NoteTypeOK ==
  /\ note \in [Notes -> {"ABSENT", "PENDING", "FAILED", "SENT"}]
  /\ noteRow \in [Notes -> {"ABSENT", "PENDING", "RUNNING", "LAPSED", "FAILED",
                            "SUCCEEDED"}]
  /\ muted \in BOOLEAN
  /\ sends \in [Notes -> 0..2]
  /\ excused \in [Notes -> BOOLEAN]
  /\ at \in [Couriers -> {"idle", "gate", "send", "sent", "unsent", "fail"}]
  /\ taken \in [Couriers -> 0..MaxNotes]
  /\ \A c \in Couriers : at[c] # "idle" => taken[c] \in Notes
  /\ page \in [Couriers -> SUBSET Notes]

(* No message is dropped: whatever races, leases and failed writes come, a row  *)
(* is closed only while its intent is SENT and WhatsApp took the message.       *)
ClosedWasSent ==
  \A n \in Notes : noteRow[n] = "SUCCEEDED" => note[n] = "SENT" /\ sends[n] > 0

(* A sender is told the same thing twice only after an answer, a record or a    *)
(* lease was lost, or when the second write of a failure hit a row that another *)
(* courier had taken up since.                                                 *)
ResentForAReason == \A n \in Notes : sends[n] = 2 => excused[n]

(* An outage of WhatsApp or of the database ends, processes do not crash for    *)
(* ever, and a pause ends for good. Only the timers are fair.                  *)
OutagesEnd ==
  /\ <>[]~muted
  /\ <>[][\A c \in Couriers :
            /\ at[c] = "send" => at'[c] \in {"send", "sent"}
            /\ at[c] = "sent" => at'[c] # "unsent"
            /\ CourierCrash(c) => Deliver(c)]_noteVars

NoteFairness == OutagesEnd /\ \A c \in Couriers : WF_noteVars(Deliver(c))

(* If fewer rows than a page are undeliverable, every message is sent in the    *)
(* end, unless a process died on its row: nobody selects a RUNNING row again.   *)
EventuallyTold ==
  \A n \in Notes \ Unreadable :
    note[n] = "PENDING" ~> note[n] = "SENT" \/ Orphaned(n)
=============================================================================
