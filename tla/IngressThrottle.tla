--------------------------- MODULE IngressThrottle ---------------------------
(* Signed WhatsApp webhooks pass a limit per chat and sender before they reach  *)
(* the sessions: WhatsAppWebhookController.receive and                          *)
(* WhatsAppIngressThrottleService.consume, for the one bucket of one chat.     *)
(*                                                                              *)
(* API replicas serve deliveries at the same time. A delivery takes its time    *)
(* before it waits for the bucket's advisory lock, so it may decide with a time *)
(* older than the window it finds.                                             *)
EXTENDS Naturals, FiniteSets

CONSTANTS
  Deliveries,  \* webhook calls, redeliveries included
  Forged,      \* those whose signature or identity does not hold
  Limit,       \* WHATSAPP_INGRESS_RATE_LIMIT_PER_MINUTE
  Window,      \* windowMs
  MaxClock     \* bound on the time a run explores

ASSUME ThrottleAssumption ==
  Limit \in Nat \ {0} /\ Window \in Nat \ {0} /\ MaxClock \in Nat

VARIABLES
  clock,
  bucket,    \* expiresAt and requestCount; expiresAt 0 before the first request
  passed,    \* deliveries let through since the window of the bucket began
  delivery,  \* where each delivery is
  stamp,     \* the time it took
  seen       \* the bucket it read under the lock

throttleVars == <<clock, bucket, passed, delivery, stamp, seen>>

NoBucket == [expires |-> 0, count |-> 0]

ThrottleInit ==
  /\ clock = 1
  /\ bucket = NoBucket
  /\ passed = {}
  /\ delivery = [d \in Deliveries |-> "new"]
  /\ stamp = [d \in Deliveries |-> 0]
  /\ seen = [d \in Deliveries |-> NoBucket]

Step(d, label) == delivery' = [delivery EXCEPT ![d] = label]
Answer(d, label) == Step(d, label) /\ seen' = [seen EXCEPT ![d] = NoBucket]

Tick ==
  /\ clock < MaxClock
  /\ clock' = clock + 1
  /\ UNCHANGED <<bucket, passed, delivery, stamp, seen>>

(* Signature and identity are checked first; a bad one is never counted.        *)
Receive(d) ==
  /\ delivery[d] = "new"
  /\ IF d \in Forged
     THEN Step(d, "rejected") /\ UNCHANGED stamp
     ELSE Step(d, "waiting") /\ stamp' = [stamp EXCEPT ![d] = clock]
  /\ UNCHANGED <<clock, bucket, passed, seen>>

(* Mutant of LockIsFree: no advisory lock.                                     *)
NoLock == TRUE

LockIsFree == \A d \in Deliveries : delivery[d] # "locked"

(* pg_advisory_xact_lock, then the bucket as it is.                            *)
LockBucket(d) ==
  /\ delivery[d] = "waiting" /\ LockIsFree
  /\ Step(d, "locked")
  /\ seen' = [seen EXCEPT ![d] = bucket]
  /\ UNCHANGED <<clock, bucket, passed, stamp>>

(* No bucket, or an expired one: the window starts at this delivery's time.     *)
OpenWindow(d) ==
  /\ delivery[d] = "locked" /\ seen[d].expires <= stamp[d]
  /\ bucket' = [expires |-> stamp[d] + Window, count |-> 1]
  /\ passed' = {d}
  /\ Answer(d, "allowed")
  /\ UNCHANGED <<clock, stamp>>

(* Mutant of Count: the count goes down, as if it were what is left.           *)
CountDown(d) ==
  /\ delivery[d] = "locked" /\ seen[d].expires > stamp[d]
  /\ seen[d].count < Limit
  /\ bucket' = [bucket EXCEPT !.count = @ - 1]
  /\ passed' = passed \union {d}
  /\ Answer(d, "allowed")
  /\ UNCHANGED <<clock, stamp>>

Count(d) ==
  /\ delivery[d] = "locked" /\ seen[d].expires > stamp[d]
  /\ seen[d].count < Limit
  /\ bucket' = [bucket EXCEPT !.count = @ + 1]
  /\ passed' = passed \union {d}
  /\ Answer(d, "allowed")
  /\ UNCHANGED <<clock, stamp>>

(* 429: nothing is written, and the provider may deliver it again.             *)
Refuse(d) ==
  /\ delivery[d] = "locked" /\ seen[d].expires > stamp[d]
  /\ seen[d].count >= Limit
  /\ Answer(d, "refused")
  /\ UNCHANGED <<clock, bucket, passed, stamp>>

(* The transaction fails and releases its lock; the answer is 503.             *)
Abort(d) ==
  /\ delivery[d] = "locked"
  /\ Answer(d, "failed")
  /\ UNCHANGED <<clock, bucket, passed, stamp>>

(* A refused or failed delivery comes again as a call of its own.              *)
Redeliver(d) ==
  /\ delivery[d] \in {"refused", "failed"}
  /\ Step(d, "new")
  /\ UNCHANGED <<clock, bucket, passed, stamp, seen>>

ThrottleNext ==
  \/ Tick
  \/ \E d \in Deliveries :
       \/ Receive(d) \/ LockBucket(d)
       \/ OpenWindow(d) \/ Count(d) \/ Refuse(d)
       \/ Abort(d) \/ Redeliver(d)

ThrottleSpec == ThrottleInit /\ [][ThrottleNext]_throttleVars

(* ------------------------------ Properties --------------------------------- *)

(* Every variable keeps its type.                                              *)
ThrottleTypeOK ==
  /\ clock \in 1..(MaxClock + 1)
  /\ {bucket} \union {seen[d] : d \in Deliveries}
       \subseteq [expires: Nat, count: Nat]
  /\ passed \subseteq Deliveries
  /\ delivery \in [Deliveries ->
       {"new", "waiting", "locked", "allowed", "refused", "failed", "rejected"}]
  /\ stamp \in [Deliveries -> Nat]

(* However replicas race and however late a delivery gets the lock, a window    *)
(* lets at most Limit deliveries through, the count that decides is the number  *)
(* that passed, and none passes with a time past the window.                   *)
WithinLimit ==
  /\ bucket.count = Cardinality(passed)
  /\ bucket.count <= Limit
  /\ \A d \in passed : d \notin Forged /\ stamp[d] < bucket.expires
=============================================================================
