---------------------- MODULE SenderVerification_proofs ----------------------
(* What a racing reviewer may rely on, for any number of profiles, cases and    *)
(* requests: the invariant follows a decision from its read to its commit and    *)
(* asks only for facts about the case that no other decision can take back.      *)
EXTENDS SenderVerification, TLAPS

(* A case is reviewed by people only after its technical checks passed.        *)
CaseInv ==
  \A c \in Cases :
    /\ case[c] = "ABSENT" => evidence[c] = "none"
    /\ case[c] \in {"HUMAN_REVIEW", "APPROVED", "EXPIRED"} => evidence[c] = "passed"

(* A replacement row accounts for phone x of profile s.                        *)
OnRecord(s, x) ==
  x # FirstPhone[s] => \E row \in replacements : ProfileOf[row.case] = s /\ row.phone = x

(* What stays true of what a transaction has read.                             *)
OpInv ==
  \A p \in Callers :
    /\ pc[p] # "idle" => op[p].case \in Cases /\ case[op[p].case] # "ABSENT"
    /\ pc[p] \in {"approve", "resolve"} =>
         op[p].by \in Identities \ {CollectorOf[op[p].case]}
    /\ pc[p] \in {"approve", "expire"} => evidence[op[p].case] = "passed"
    /\ pc[p] = "approve" => OnRecord(ProfileOf[op[p].case], op[p].read) /\ op[p].read \in Phones
    /\ pc[p] = "resolve" => op[p].decision \in {"REJECTED", "ESCALATED"}

VerificationInv ==
  /\ TypeOK
  /\ CaseInv
  /\ OpInv
  /\ SendsFromVerifiedPhone
  /\ ReplacementIsOnRecord

USE VerificationAssumption

LEMMA VerificationInit == Init => VerificationInv
  BY DEF Init, VerificationInv, TypeOK, CaseInv, OpInv, SendsFromVerifiedPhone,
     ReplacementIsOnRecord, NoOp, NoCase, Nobody

(* A step that reads: only the caller's memory changes.                        *)
LEMMA ReadStep ==
  ASSUME VerificationInv, NEW p \in Callers, NEW c \in Cases,
         NEW by \in Identities \union {Nobody},
         NEW label \in {"approve", "resolve", "expire"},
         NEW decision \in {"APPROVED", "REJECTED", "ESCALATED", "EXPIRED"},
         Read(p, label, c, by, decision),
         case[c] # "ABSENT",
         label # "expire" => by \in Identities /\ by # CollectorOf[c],
         label # "resolve" => case[c] \in {"HUMAN_REVIEW", "APPROVED"},
         label = "resolve" => decision \in {"REJECTED", "ESCALATED"}
  PROVE  VerificationInv'
<1> USE DEF VerificationInv
<1>1. UNCHANGED <<case, evidence, reviewer, phone, tier, replacements>>
  BY DEF Read, profileVars
<1>2. CaseInv' /\ SendsFromVerifiedPhone' /\ ReplacementIsOnRecord'
  BY <1>1 DEF CaseInv, SendsFromVerifiedPhone, ReplacementIsOnRecord
<1>3. ProfileOf[c] \in Profiles /\ phone[ProfileOf[c]] \in Phones
  BY DEF TypeOK
<1>4. TypeOK'
  BY <1>1, <1>3 DEF TypeOK, Read
<1>5. OnRecord(ProfileOf[c], phone[ProfileOf[c]])
  BY <1>3 DEF ReplacementIsOnRecord, OnRecord
<1>6. OpInv'
  <2> SUFFICES ASSUME NEW q \in Callers
      PROVE  /\ pc'[q] # "idle" => op'[q].case \in Cases /\ case[op'[q].case] # "ABSENT"
             /\ pc'[q] \in {"approve", "resolve"} =>
                  op'[q].by \in Identities \ {CollectorOf[op'[q].case]}
             /\ pc'[q] \in {"approve", "expire"} => evidence[op'[q].case] = "passed"
             /\ pc'[q] = "approve" =>
                  OnRecord(ProfileOf[op'[q].case], op'[q].read) /\ op'[q].read \in Phones
             /\ pc'[q] = "resolve" => op'[q].decision \in {"REJECTED", "ESCALATED"}
    BY <1>1 DEF OpInv, OnRecord
  <2>1. CASE q = p
    <3>1. pc'[q] = label
      BY <2>1 DEF Read, TypeOK
    <3>2. op'[q] = [case |-> c, by |-> by, decision |-> decision,
                    read |-> phone[ProfileOf[c]]]
      BY <2>1 DEF Read, TypeOK
    <3> QED  BY <3>1, <3>2, <1>3, <1>5 DEF CaseInv
  <2>2. CASE q # p
    <3>1. pc'[q] = pc[q] /\ op'[q] = op[q]
      BY <2>2 DEF Read, TypeOK
    <3> QED  BY <3>1 DEF OpInv
  <2> QED  BY <2>1, <2>2
<1> QED  BY <1>2, <1>4, <1>6

(* A finished caller remembers nothing; the others remember what they did.     *)
LEMMA FinishOps ==
  ASSUME TypeOK, NEW p \in Callers, Finish(p)
  PROVE  /\ pc' \in [Callers -> {"idle", "approve", "resolve", "expire"}]
         /\ op' \in [Callers -> [case: Cases \union {NoCase}, by: Identities \union {Nobody},
              decision: {"none", "APPROVED", "REJECTED", "ESCALATED", "EXPIRED"},
              read: Phones \union {"none"}]]
         /\ pc'[p] = "idle"
         /\ \A q \in Callers \ {p} : pc'[q] = pc[q] /\ op'[q] = op[q]
  BY DEF TypeOK, Finish, NoOp

(* What other callers have read survives a commit that takes back no evidence,  *)
(* no case and no replacement row.                                             *)
LEMMA OpsSurvive ==
  ASSUME VerificationInv, NEW p \in Callers, Finish(p),
         evidence' = evidence, replacements \subseteq replacements',
         \A c \in Cases : case[c] # "ABSENT" => case'[c] # "ABSENT"
  PROVE  OpInv'
<1>1. pc'[p] = "idle" /\ \A q \in Callers \ {p} : pc'[q] = pc[q] /\ op'[q] = op[q]
  BY FinishOps DEF VerificationInv
<1>2. ASSUME NEW s, NEW x, OnRecord(s, x)
      PROVE  x # FirstPhone[s] =>
               \E row \in replacements' : ProfileOf[row.case] = s /\ row.phone = x
  BY <1>2 DEF OnRecord
<1>3. ASSUME NEW q \in Callers, q # p
      PROVE  /\ pc'[q] # "idle" => op'[q].case \in Cases /\ case'[op'[q].case] # "ABSENT"
             /\ pc'[q] \in {"approve", "resolve"} =>
                  op'[q].by \in Identities \ {CollectorOf[op'[q].case]}
             /\ pc'[q] \in {"approve", "expire"} => evidence'[op'[q].case] = "passed"
             /\ pc'[q] = "approve" => op'[q].read \in Phones
             /\ pc'[q] = "resolve" => op'[q].decision \in {"REJECTED", "ESCALATED"}
  BY <1>1, <1>3 DEF VerificationInv, OpInv
<1>4. ASSUME NEW q \in Callers, q # p, pc'[q] = "approve",
             op'[q].read # FirstPhone[ProfileOf[op'[q].case]]
      PROVE  \E row \in replacements' :
               ProfileOf[row.case] = ProfileOf[op'[q].case] /\ row.phone = op'[q].read
  BY <1>1, <1>2, <1>4 DEF VerificationInv, OpInv
<1> QED  BY <1>1, <1>3, <1>4 DEF OpInv, OnRecord

LEMMA RecordStep ==
  ASSUME VerificationInv, NEW c \in Cases, NEW passed \in BOOLEAN, Record(c, passed)
  PROVE  VerificationInv'
<1> USE DEF VerificationInv
<1>1. UNCHANGED <<reviewer, phone, tier, replacements, pc, op>>
  BY DEF Record, profileVars
<1>2. evidence[c] = "none"
  BY DEF Record, CaseInv
<1>3. \A d \in Cases : d # c => case'[d] = case[d] /\ evidence'[d] = evidence[d]
  BY DEF Record, TypeOK
<1>4. case'[c] = (IF passed THEN "HUMAN_REVIEW" ELSE "TECHNICAL_REVIEW")
      /\ evidence'[c] = (IF passed THEN "passed" ELSE "failed")
  BY DEF Record, Outcome, TypeOK
<1>5. TypeOK'
  BY <1>1 DEF TypeOK, Record, Outcome, CaseStatuses
<1>6. CaseInv'
  BY <1>3, <1>4 DEF CaseInv
<1>7. \A p \in Callers : pc[p] # "idle" => op[p].case # c
  BY DEF OpInv, Record
<1>8. OpInv'
  BY <1>1, <1>3, <1>7 DEF OpInv, OnRecord
<1>9. SendsFromVerifiedPhone'
  BY <1>1, <1>2, <1>3 DEF SendsFromVerifiedPhone
<1>10. ReplacementIsOnRecord'
  BY <1>1 DEF ReplacementIsOnRecord
<1> QED  BY <1>5, <1>6, <1>8, <1>9, <1>10

LEMMA ApproveStep ==
  ASSUME VerificationInv, NEW p \in Callers, CommitApprove(p)
  PROVE  VerificationInv'
<1> DEFINE c == op[p].case
           s == ProfileOf[c]
           row == [case |-> c, previous |-> op[p].read, phone |-> PhoneOf[c]]
<1>1. /\ c \in Cases /\ s \in Profiles /\ PhoneOf[c] \in Phones
      /\ op[p].by \in Identities \ {CollectorOf[c]}
      /\ evidence[c] = "passed"
      /\ OnRecord(s, op[p].read) /\ op[p].read \in Phones
  BY DEF CommitApprove, VerificationInv, OpInv
<1>2. evidence' = evidence /\ Finish(p)
  BY DEF CommitApprove
<1>3. case' = [case EXCEPT ![c] = "APPROVED"] /\ reviewer' = [reviewer EXCEPT ![c] = op[p].by]
  BY DEF CommitApprove, Decide
<1>4. phone' = [phone EXCEPT ![s] = PhoneOf[c]] /\ tier' = [tier EXCEPT ![s] = "TIER_1"]
  BY DEF CommitApprove
<1>5. replacements' = IF op[p].read # PhoneOf[c]
                      THEN replacements \union {row} ELSE replacements
  BY DEF CommitApprove, Replacement
<1>6. row \in [case: Cases, previous: Phones, phone: Phones]
  BY <1>1
<1> HIDE DEF c, s, row
<1>7. TypeOK'
  <2>1. case' \in [Cases -> CaseStatuses \union {"ABSENT"}]
        /\ reviewer' \in [Cases -> Identities \union {Nobody}]
    BY <1>1, <1>3 DEF VerificationInv, TypeOK, CaseStatuses
  <2>2. phone' \in [Profiles -> Phones] /\ tier' \in [Profiles -> {"TIER_0", "TIER_1"}]
    BY <1>1, <1>4 DEF VerificationInv, TypeOK
  <2>3. replacements' \subseteq [case: Cases, previous: Phones, phone: Phones]
    BY <1>5, <1>6 DEF VerificationInv, TypeOK
  <2> QED  BY <2>1, <2>2, <2>3, <1>2, FinishOps DEF VerificationInv, TypeOK
<1>8. CaseInv'
  BY <1>1, <1>2, <1>3 DEF VerificationInv, CaseInv, TypeOK
<1>9. OpInv'
  BY <1>2, <1>3, <1>5, OpsSurvive DEF VerificationInv, TypeOK
<1>10. SendsFromVerifiedPhone'
  <2> SUFFICES ASSUME NEW t \in Profiles, tier'[t] = "TIER_1"
               PROVE  \E d \in Cases :
                        /\ ProfileOf[d] = t /\ PhoneOf[d] = phone'[t]
                        /\ evidence'[d] = "passed"
                        /\ reviewer'[d] \in Identities \ {CollectorOf[d]}
    BY DEF SendsFromVerifiedPhone
  <2>1. CASE t = s
    <3>1. phone'[t] = PhoneOf[c] /\ reviewer'[c] = op[p].by
      BY <1>1, <1>3, <1>4, <2>1 DEF VerificationInv, TypeOK
    <3> QED  BY <1>1, <1>2, <2>1, <3>1 DEF s
  <2>2. CASE t # s
    <3>1. tier[t] = "TIER_1" /\ phone'[t] = phone[t]
      BY <1>4, <2>2 DEF VerificationInv, TypeOK
    <3>2. PICK d \in Cases :
            /\ ProfileOf[d] = t /\ PhoneOf[d] = phone[t]
            /\ evidence[d] = "passed"
            /\ reviewer[d] \in Identities \ {CollectorOf[d]}
      BY <3>1 DEF VerificationInv, SendsFromVerifiedPhone
    <3>3. d # c
      BY <3>2, <2>2 DEF s
    <3>4. reviewer'[d] = reviewer[d]
      BY <1>3, <3>3 DEF VerificationInv, TypeOK
    <3> QED  BY <1>2, <3>1, <3>2, <3>4
  <2> QED  BY <2>1, <2>2
<1>11. ReplacementIsOnRecord'
  <2> SUFFICES ASSUME NEW t \in Profiles, phone'[t] # FirstPhone[t]
               PROVE  \E r \in replacements' : ProfileOf[r.case] = t /\ r.phone = phone'[t]
    BY DEF ReplacementIsOnRecord
  <2>1. replacements \subseteq replacements'
    BY <1>5
  <2>2. CASE t # s
    <3>1. phone'[t] = phone[t]
      BY <1>4, <2>2 DEF VerificationInv, TypeOK
    <3> QED  BY <2>1, <3>1 DEF VerificationInv, ReplacementIsOnRecord
  <2>3. CASE t = s /\ op[p].read # PhoneOf[c]
    <3>1. row \in replacements' /\ row.case = c /\ row.phone = PhoneOf[c]
      BY <1>5, <2>3 DEF row
    <3>2. phone'[t] = PhoneOf[c]
      BY <1>1, <1>4, <2>3 DEF VerificationInv, TypeOK
    <3> QED  BY <2>3, <3>1, <3>2 DEF s
  <2>4. CASE t = s /\ op[p].read = PhoneOf[c]
    <3>1. phone'[t] = op[p].read
      BY <1>1, <1>4, <2>4 DEF VerificationInv, TypeOK
    <3> QED  BY <1>1, <2>1, <2>4, <3>1 DEF OnRecord
  <2> QED  BY <2>2, <2>3, <2>4
<1> QED  BY <1>7, <1>8, <1>9, <1>10, <1>11 DEF VerificationInv

LEMMA ResolveStep ==
  ASSUME VerificationInv, NEW p \in Callers, CommitResolve(p)
  PROVE  VerificationInv'
<1> DEFINE c == op[p].case
<1>1. /\ c \in Cases /\ op[p].by \in Identities \ {CollectorOf[c]}
      /\ op[p].decision \in {"REJECTED", "ESCALATED"}
  BY DEF CommitResolve, VerificationInv, OpInv
<1>2. UNCHANGED <<evidence, phone, tier, replacements>> /\ Finish(p)
  BY DEF CommitResolve, profileVars
<1>3. /\ case' = [case EXCEPT ![c] = op[p].decision]
      /\ reviewer' = [reviewer EXCEPT ![c] = op[p].by]
  BY DEF CommitResolve, Decide
<1> HIDE DEF c
<1>4. TypeOK'
  <2>1. case' \in [Cases -> CaseStatuses \union {"ABSENT"}]
        /\ reviewer' \in [Cases -> Identities \union {Nobody}]
    BY <1>1, <1>3 DEF VerificationInv, TypeOK, CaseStatuses
  <2> QED  BY <2>1, <1>2, FinishOps DEF VerificationInv, TypeOK
<1>5. CaseInv'
  BY <1>1, <1>2, <1>3 DEF VerificationInv, CaseInv, TypeOK
<1>6. OpInv'
  BY <1>1, <1>2, <1>3, OpsSurvive DEF VerificationInv, TypeOK
<1>7. \A d \in Cases : reviewer[d] \in Identities \ {CollectorOf[d]}
                         => reviewer'[d] \in Identities \ {CollectorOf[d]}
  BY <1>1, <1>3 DEF VerificationInv, TypeOK
<1>8. SendsFromVerifiedPhone'
  BY <1>2, <1>7 DEF VerificationInv, SendsFromVerifiedPhone
<1>9. ReplacementIsOnRecord'
  BY <1>2 DEF VerificationInv, ReplacementIsOnRecord
<1> QED  BY <1>4, <1>5, <1>6, <1>8, <1>9 DEF VerificationInv

LEMMA ExpireStep ==
  ASSUME VerificationInv, NEW p \in Callers, CommitExpire(p)
  PROVE  VerificationInv'
<1> DEFINE c == op[p].case
<1>1. c \in Cases /\ ProfileOf[c] \in Profiles /\ evidence[c] = "passed"
  BY DEF CommitExpire, VerificationInv, OpInv
<1>2. UNCHANGED <<evidence, reviewer, phone, replacements>> /\ Finish(p)
  BY DEF CommitExpire
<1>3. /\ case' = [case EXCEPT ![c] = "EXPIRED"]
      /\ tier' = [tier EXCEPT ![ProfileOf[c]] = "TIER_0"]
  BY DEF CommitExpire
<1> HIDE DEF c
<1>4. TypeOK'
  <2>1. /\ case' \in [Cases -> CaseStatuses \union {"ABSENT"}]
        /\ tier' \in [Profiles -> {"TIER_0", "TIER_1"}]
    BY <1>1, <1>3 DEF VerificationInv, TypeOK, CaseStatuses
  <2> QED  BY <2>1, <1>2, FinishOps DEF VerificationInv, TypeOK
<1>5. CaseInv'
  BY <1>1, <1>2, <1>3 DEF VerificationInv, CaseInv, TypeOK
<1>6. OpInv'
  BY <1>1, <1>2, <1>3, OpsSurvive DEF VerificationInv, TypeOK
<1>7. \A s \in Profiles : tier'[s] = "TIER_1" => tier[s] = "TIER_1"
  BY <1>1, <1>3 DEF VerificationInv, TypeOK
<1>8. SendsFromVerifiedPhone'
  BY <1>2, <1>7 DEF VerificationInv, SendsFromVerifiedPhone
<1>9. ReplacementIsOnRecord'
  BY <1>2 DEF VerificationInv, ReplacementIsOnRecord
<1> QED  BY <1>4, <1>5, <1>6, <1>8, <1>9 DEF VerificationInv

LEMMA VerificationStep == VerificationInv /\ [Next]_vars => VerificationInv'
<1> SUFFICES ASSUME VerificationInv, [Next]_vars
             PROVE  VerificationInv'
  OBVIOUS
<1>1. CASE UNCHANGED vars
  BY <1>1 DEF vars, profileVars, VerificationInv, TypeOK, CaseInv, OpInv, OnRecord,
     SendsFromVerifiedPhone, ReplacementIsOnRecord
<1>2. ASSUME NEW c \in Cases, NEW passed \in BOOLEAN, Record(c, passed)
      PROVE  VerificationInv'
  BY <1>2, RecordStep
<1>3. ASSUME NEW p \in Callers, NEW c \in Cases, NEW by \in Identities,
             BeginApprove(p, c, by)
      PROVE  VerificationInv'
  BY <1>3, ReadStep DEF BeginApprove, Independent
<1>4. ASSUME NEW p \in Callers, NEW c \in Cases, NEW by \in Identities,
             NEW d \in {"REJECTED", "ESCALATED"}, BeginResolve(p, c, by, d)
      PROVE  VerificationInv'
  BY <1>4, ReadStep DEF BeginResolve, Independent
<1>5. ASSUME NEW p \in Callers, NEW c \in Cases, BeginExpire(p, c)
      PROVE  VerificationInv'
  BY <1>5, ReadStep DEF BeginExpire
<1>6. ASSUME NEW p \in Callers, CommitApprove(p) \/ CommitResolve(p) \/ CommitExpire(p)
      PROVE  VerificationInv'
  BY <1>6, ApproveStep, ResolveStep, ExpireStep
<1>7. ASSUME NEW p \in Callers, Abort(p)
      PROVE  VerificationInv'
  <2>1. UNCHANGED <<case, evidence, reviewer, phone, tier, replacements>> /\ Finish(p)
    BY <1>7 DEF Abort, profileVars
  <2>2. OpInv'
    BY <2>1, OpsSurvive
  <2>3. TypeOK'
    BY <2>1, FinishOps DEF VerificationInv, TypeOK
  <2> QED  BY <2>1, <2>2, <2>3 DEF VerificationInv, CaseInv, SendsFromVerifiedPhone,
               ReplacementIsOnRecord
<1> QED  BY <1>1, <1>2, <1>3, <1>4, <1>5, <1>6, <1>7 DEF Next

LEMMA VerificationAlways == Spec => []VerificationInv
  BY VerificationInit, VerificationStep, PTL DEF Spec

(* A TIER_1 sender sends from a number that was verified for that sender.      *)
THEOREM VerifiedSenders == Spec => []SendsFromVerifiedPhone
  BY VerificationAlways, PTL DEF VerificationInv

(* Failed technical checks are never overcome.                                 *)
THEOREM FailedChecks == Spec => []FailedChecksStayFailed
<1>1. VerificationInv => FailedChecksStayFailed
  BY DEF VerificationInv, CaseInv, TypeOK, CaseStatuses, FailedChecksStayFailed
<1> QED  BY <1>1, VerificationAlways, PTL

(* Every change of number is on record.                                        *)
THEOREM ReplacementsOnRecord == Spec => []ReplacementIsOnRecord
  BY VerificationAlways, PTL DEF VerificationInv
=============================================================================
