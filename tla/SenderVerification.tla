------------------------- MODULE SenderVerification -------------------------
(* Verification cases, and the tier and bound phone of the profiles they are    *)
(* about. OpenBiometricsVerificationService records a case, Ops reviewers        *)
(* approve, reject or escalate it, and an approval may expire.                  *)
(*                                                                              *)
(* A decision is a READ COMMITTED transaction: it checks what it read, and later *)
(* updates the case and the profile by id, whatever they have become. Nothing    *)
(* locks a case while a reviewer's decision is under way.                       *)
EXTENDS Naturals, FiniteSets

CONSTANTS
  Profiles,
  Cases,         \* by idempotencyKey, which is unique
  Callers,       \* requests served at the same time
  Identities,    \* who collects evidence and who reviews it
  Phones,
  ProfileOf,     \* [Cases -> Profiles]
  PhoneOf,       \* [Cases -> Phones]: the number a case verifies
  CollectorOf,   \* [Cases -> Identities or Nobody]
  FirstPhone     \* [Profiles -> Phones]: the number a profile is created with

Nobody == "nobody"
NoCase == "none"

ASSUME VerificationAssumption ==
  /\ ProfileOf \in [Cases -> Profiles]
  /\ PhoneOf \in [Cases -> Phones]
  /\ CollectorOf \in [Cases -> Identities \union {Nobody}]
  /\ FirstPhone \in [Profiles -> Phones]
  /\ Nobody \notin Identities /\ NoCase \notin Cases

VARIABLES
  case,          \* SenderVerification.status
  evidence,      \* what the stored evidence says of the technical checks
  reviewer,      \* reviewerIdentityId
  phone,         \* the number the profile is bound to
  tier,          \* SenderProfile.tier
  replacements,  \* SenderPhoneReplacement, one row per case at most
  pc, op         \* what each caller is doing, and what it has read for it

profileVars == <<phone, tier, replacements>>
vars == <<case, evidence, reviewer, profileVars, pc, op>>

CaseStatuses == {"TECHNICAL_REVIEW", "HUMAN_REVIEW", "APPROVED", "REJECTED",
                 "ESCALATED", "EXPIRED"}
NoOp == [case |-> NoCase, by |-> Nobody, decision |-> "none", read |-> "none"]

Init ==
  /\ case = [c \in Cases |-> "ABSENT"]
  /\ evidence = [c \in Cases |-> "none"]
  /\ reviewer = [c \in Cases |-> Nobody]
  /\ phone = FirstPhone
  /\ tier = [s \in Profiles |-> "TIER_0"]
  /\ replacements = {}
  /\ pc = [p \in Callers |-> "idle"]
  /\ op = [p \in Callers |-> NoOp]

(* ------------------------- recordTechnicalVerification --------------------- *)

(* The outcome of the technical checks decides which review the case goes to.  *)
Outcome(passed) == IF passed THEN "HUMAN_REVIEW" ELSE "TECHNICAL_REVIEW"

(* Mutant of Record: a retried key replaces the status and keeps the evidence. *)
RecordAgain(c, passed) ==
  /\ case' = [case EXCEPT ![c] = Outcome(passed)]
  /\ evidence' = IF case[c] # "ABSENT" THEN evidence
                 ELSE [evidence EXCEPT ![c] = IF passed THEN "passed" ELSE "failed"]
  /\ UNCHANGED <<reviewer, profileVars, pc, op>>

(* A key that was used answers with the case it has and changes nothing.       *)
Record(c, passed) ==
  /\ case[c] = "ABSENT"
  /\ case' = [case EXCEPT ![c] = Outcome(passed)]
  /\ evidence' = [evidence EXCEPT ![c] = IF passed THEN "passed" ELSE "failed"]
  /\ UNCHANGED <<reviewer, profileVars, pc, op>>

(* --------------------------------- decisions ------------------------------- *)

(* A transaction reads the case, its profile's phone included.                 *)
Read(p, label, c, by, decision) ==
  /\ pc[p] = "idle"
  /\ pc' = [pc EXCEPT ![p] = label]
  /\ op' = [op EXCEPT ![p] = [case |-> c, by |-> by, decision |-> decision,
                              read |-> phone[ProfileOf[c]]]]
  /\ UNCHANGED <<case, evidence, reviewer, profileVars>>

Finish(p) ==
  /\ pc' = [pc EXCEPT ![p] = "idle"]
  /\ op' = [op EXCEPT ![p] = NoOp]

(* Refused, failed or timed out: nothing it wrote is kept.                     *)
Abort(p) ==
  /\ pc[p] # "idle"
  /\ Finish(p)
  /\ UNCHANGED <<case, evidence, reviewer, profileVars>>

Decide(c, by, outcome) ==
  /\ case' = [case EXCEPT ![c] = outcome]
  /\ reviewer' = [reviewer EXCEPT ![c] = by]

(* Mutant of Independent: any reviewer will do.                                *)
AnyReviewer(c, by) == by # Nobody

Independent(c, by) == CollectorOf[c] # by

(* Mutant of BeginApprove: every reviewable case can be approved.              *)
BeginApproveReviewable(p, c, by) ==
  /\ case[c] \in {"TECHNICAL_REVIEW", "HUMAN_REVIEW"}
  /\ Independent(c, by)
  /\ Read(p, "approve", c, by, "APPROVED")

BeginApprove(p, c, by) ==
  /\ case[c] = "HUMAN_REVIEW"
  /\ Independent(c, by)
  /\ Read(p, "approve", c, by, "APPROVED")

Replaced(c) == \E row \in replacements : row.case = c
BoundElsewhere(c) == \E s \in Profiles \ {ProfileOf[c]} : phone[s] = PhoneOf[c]

(* Mutant of Replacement: a first verification is not a replacement.           *)
ReplacementOfVerified(p) ==
  op[p].read # PhoneOf[op[p].case] /\ tier[ProfileOf[op[p].case]] # "TIER_0"

(* Whether the transaction saw another phone than the one the case verified.   *)
Replacement(p) == op[p].read # PhoneOf[op[p].case]

(* The unique indexes: one replacement row per case, one profile per phone.    *)
CommitApprove(p) ==
  LET c == op[p].case
      s == ProfileOf[c]
  IN /\ pc[p] = "approve"
     /\ ~BoundElsewhere(c)
     /\ Replacement(p) => ~Replaced(c)
     /\ Decide(c, op[p].by, "APPROVED")
     /\ replacements' = IF Replacement(p)
                        THEN replacements \union
                               {[case |-> c, previous |-> op[p].read, phone |-> PhoneOf[c]]}
                        ELSE replacements
     /\ phone' = [phone EXCEPT ![s] = PhoneOf[c]]
     /\ tier' = [tier EXCEPT ![s] = "TIER_1"]
     /\ Finish(p)
     /\ UNCHANGED evidence

BeginResolve(p, c, by, decision) ==
  /\ case[c] \in {"TECHNICAL_REVIEW", "HUMAN_REVIEW"}
  /\ Independent(c, by)
  /\ Read(p, "resolve", c, by, decision)

CommitResolve(p) ==
  /\ pc[p] = "resolve"
  /\ Decide(op[p].case, op[p].by, op[p].decision)
  /\ Finish(p)
  /\ UNCHANGED <<evidence, profileVars>>

BeginExpire(p, c) ==
  /\ case[c] = "APPROVED"
  /\ Read(p, "expire", c, Nobody, "EXPIRED")

(* The reviewer of an expired case stays who approved it.                      *)
CommitExpire(p) ==
  LET c == op[p].case
  IN /\ pc[p] = "expire"
     /\ case' = [case EXCEPT ![c] = "EXPIRED"]
     /\ tier' = [tier EXCEPT ![ProfileOf[c]] = "TIER_0"]
     /\ Finish(p)
     /\ UNCHANGED <<evidence, reviewer, phone, replacements>>

Next ==
  \/ \E c \in Cases, passed \in BOOLEAN : Record(c, passed)
  \/ \E p \in Callers :
       \/ \E c \in Cases :
            \/ \E by \in Identities :
                 \/ BeginApprove(p, c, by)
                 \/ \E d \in {"REJECTED", "ESCALATED"} : BeginResolve(p, c, by, d)
            \/ BeginExpire(p, c)
       \/ CommitApprove(p) \/ CommitResolve(p) \/ CommitExpire(p)
       \/ Abort(p)

Spec == Init /\ [][Next]_vars

(* ------------------------------ Properties --------------------------------- *)

(* Every variable keeps its type.                                              *)
TypeOK ==
  /\ case \in [Cases -> CaseStatuses \union {"ABSENT"}]
  /\ evidence \in [Cases -> {"none", "passed", "failed"}]
  /\ reviewer \in [Cases -> Identities \union {Nobody}]
  /\ phone \in [Profiles -> Phones]
  /\ tier \in [Profiles -> {"TIER_0", "TIER_1"}]
  /\ replacements \subseteq [case: Cases, previous: Phones, phone: Phones]
  /\ pc \in [Callers -> {"idle", "approve", "resolve", "expire"}]
  /\ op \in [Callers -> [case: Cases \union {NoCase}, by: Identities \union {Nobody},
                         decision: {"none", "APPROVED", "REJECTED", "ESCALATED", "EXPIRED"},
                         read: Phones \union {"none"}]]

(* The number a TIER_1 sender may send from is one that a case of that very      *)
(* profile verified, whose technical checks passed and which somebody other than *)
(* its collector decided, however reviewers and expiries race.                 *)
SendsFromVerifiedPhone ==
  \A s \in Profiles : tier[s] = "TIER_1" =>
    \E c \in Cases :
      /\ ProfileOf[c] = s /\ PhoneOf[c] = phone[s]
      /\ evidence[c] = "passed"
      /\ reviewer[c] \in Identities \ {CollectorOf[c]}

(* A case whose technical checks failed never gets approved, not by retrying it  *)
(* and not by a decision on what was read of it earlier.                       *)
FailedChecksStayFailed ==
  \A c \in Cases :
    evidence[c] = "failed" => case[c] \in {"TECHNICAL_REVIEW", "REJECTED", "ESCALATED"}

(* A profile that is bound to another number than its first has a replacement    *)
(* row that says which case brought it, although approvals compare with a phone  *)
(* they read before others were committed.                                     *)
ReplacementIsOnRecord ==
  \A s \in Profiles : phone[s] # FirstPhone[s] =>
    \E row \in replacements : ProfileOf[row.case] = s /\ row.phone = phone[s]
=============================================================================
