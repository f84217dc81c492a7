------------------------- MODULE SideBySide_proofs -------------------------
(* Recipients, throttle, access and panel, for any number of rows, deliveries,  *)
(* calls, challenges, sessions, tabs and actions. The four parts share nothing; *)
(* each has an inductive invariant of its own.                                 *)
EXTENDS MC_SideBySide, FiniteSetTheorems, TLAPS

(* -------------------------------- Throttle ---------------------------------- *)

(* The lock makes what a delivery read the bucket of now, and who passed is     *)
(* never served again.                                                         *)
ThrottleInv ==
  /\ bucket \in [expires: Nat, count: Nat]
  /\ clock \in Nat /\ stamp \in [Deliveries -> Nat]
  /\ delivery \in [Deliveries ->
       {"new", "waiting", "locked", "allowed", "refused", "failed", "rejected"}]
  /\ seen \in [Deliveries -> [expires: Nat, count: Nat]]
  /\ \A d \in Deliveries : delivery[d] = "locked" => seen[d] = bucket
  /\ \A d, e \in Deliveries :
       delivery[d] = "locked" /\ delivery[e] = "locked" => d = e
  /\ \A d \in Deliveries :
       delivery[d] \in {"waiting", "locked"} => d \notin Forged
  /\ passed \subseteq {d \in Deliveries : delivery[d] = "allowed"}
  /\ IsFiniteSet(passed)
  /\ WithinLimit

LEMMA ThrottleStarts == ThrottleInit => ThrottleInv
  BY FS_EmptySet, ThrottleAssumption DEF ThrottleInit, ThrottleInv, WithinLimit, NoBucket

LEMMA ThrottleStep == ThrottleInv /\ [ThrottleNext]_throttleVars => ThrottleInv'
<1> SUFFICES ASSUME ThrottleInv, [ThrottleNext]_throttleVars PROVE ThrottleInv'
  OBVIOUS
<1> USE DEF ThrottleInv, WithinLimit, Step, Answer, NoBucket
<1>1. CASE UNCHANGED throttleVars
  BY <1>1 DEF throttleVars
<1>2. CASE Tick
  BY <1>2 DEF Tick
<1>3. ASSUME NEW d \in Deliveries, Receive(d) PROVE ThrottleInv'
  <2>1. /\ delivery[d] = "new" /\ UNCHANGED <<clock, bucket, passed, seen>>
        /\ stamp' \in [Deliveries -> Nat]
        /\ \A e \in passed : stamp'[e] = stamp[e]
    BY <1>3 DEF Receive
  <2>2. CASE d \in Forged
    BY <1>3, <2>1, <2>2 DEF Receive
  <2>3. CASE d \notin Forged
    BY <1>3, <2>1, <2>3 DEF Receive
  <2> QED  BY <2>2, <2>3
<1>4. ASSUME NEW d \in Deliveries, LockBucket(d) PROVE ThrottleInv'
  BY <1>4 DEF LockBucket, LockIsFree
<1>5. ASSUME NEW d \in Deliveries, OpenWindow(d) PROVE ThrottleInv'
  <2> USE ThrottleAssumption
  <2>1. IsFiniteSet({d}) /\ Cardinality({d}) = 1
    BY FS_Singleton
  <2>2. /\ bucket' = [expires |-> stamp[d] + Window, count |-> 1]
        /\ passed' = {d}
        /\ delivery' = [delivery EXCEPT ![d] = "allowed"]
        /\ seen' = [seen EXCEPT ![d] = NoBucket]
        /\ UNCHANGED <<clock, stamp>>
        /\ delivery[d] = "locked"
    BY <1>5 DEF OpenWindow
  <2>3. IsFiniteSet(passed') /\ Cardinality(passed') = 1
    BY <2>1, <2>2
  <2>4. \A e \in Deliveries : delivery'[e] # "locked"
    BY <2>2
  <2>5. bucket' \in [expires: Nat, count: Nat]
    BY <2>2
  <2>6. stamp'[d] < bucket'.expires /\ bucket'.count = 1
    BY <2>2
  <2> QED  BY <2>2, <2>3, <2>4, <2>5, <2>6
<1>6. ASSUME NEW d \in Deliveries, Count(d) PROVE ThrottleInv'
  <2> USE ThrottleAssumption
  <2>1. /\ bucket' = [bucket EXCEPT !.count = @ + 1]
        /\ passed' = passed \union {d}
        /\ delivery' = [delivery EXCEPT ![d] = "allowed"]
        /\ seen' = [seen EXCEPT ![d] = NoBucket]
        /\ UNCHANGED <<clock, stamp>>
        /\ delivery[d] = "locked" /\ seen[d] = bucket
        /\ seen[d].expires > stamp[d] /\ seen[d].count < Limit
    BY <1>6 DEF Count
  <2>2. d \notin passed
    BY <2>1
  <2>3. IsFiniteSet(passed') /\ Cardinality(passed') = Cardinality(passed) + 1
    BY <2>1, <2>2, FS_AddElement
  <2>4. /\ bucket' \in [expires: Nat, count: Nat]
        /\ bucket'.count = bucket.count + 1 /\ bucket'.expires = bucket.expires
    BY <2>1
  <2>5. \A e \in Deliveries : delivery'[e] # "locked"
    BY <2>1
  <2>6. /\ \A e \in passed' : e \notin Forged /\ stamp'[e] < bucket'.expires
        /\ \A e \in passed' : delivery'[e] = "allowed"
    BY <2>1, <2>4
  <2> QED  BY <2>1, <2>3, <2>4, <2>5, <2>6
<1>7. ASSUME NEW d \in Deliveries, Refuse(d) \/ Abort(d) PROVE ThrottleInv'
  <2>1. /\ \E label \in {"refused", "failed"} :
             delivery' = [delivery EXCEPT ![d] = label]
        /\ seen' = [seen EXCEPT ![d] = NoBucket]
        /\ delivery[d] = "locked"
        /\ UNCHANGED <<clock, bucket, passed, stamp>>
    BY <1>7 DEF Refuse, Abort
  <2>2. \A e \in Deliveries : delivery'[e] # "locked"
    BY <2>1
  <2> QED  BY <2>1, <2>2
<1>8. ASSUME NEW d \in Deliveries, Redeliver(d) PROVE ThrottleInv'
  BY <1>8 DEF Redeliver
<1> QED
  BY <1>1, <1>2, <1>3, <1>4, <1>5, <1>6, <1>7, <1>8 DEF ThrottleNext

(* However many replicas and deliveries, no window lets more through than its   *)
(* limit.                                                                      *)
THEOREM WindowsAreLimited == ThrottleSpec => []WithinLimit
<1>1. ThrottleInv => WithinLimit
  BY DEF ThrottleInv
<1> QED  BY <1>1, ThrottleStarts, ThrottleStep, PTL DEF ThrottleSpec

(* --------------------------------- Access ----------------------------------- *)

(* What a call in progress knows: a login, a ceremony or a request.            *)
LoginCall == [step: {"open"}, who: Staff, proof: {0} \union Challenges]
KeyCall == [step: {"consume", "check", "count", "signin"}, who: Staff,
            ceremony: {"authentication", "registration"},
            found: Challenges, answer: Challenges]
RequestCall == [step: {"actor", "authorize", "perform"}, who: Staff, in: Sessions]
CallType == {Done} \union LoginCall \union KeyCall \union RequestCall

AccessTypes ==
  /\ AccessTypeOK
  /\ handler \in [Handlers -> CallType]
  /\ \A c \in Challenges : challenge[c].ceremony # "none" => challenge[c].who \in Staff
  /\ \A s \in Sessions : session[s].state # "none" => session[s].who \in Staff

LEMMA AccessTypesStart == AccessInit => AccessTypes
  BY AccessAssumption DEF AccessInit, AccessTypes, AccessTypeOK, CallType, NoSession,
     NoChallenge, Done

(* A call that moves on, and nothing else that has a type of its own.          *)
LEMMA CallMoves ==
  ASSUME AccessTypes, NEW h \in Handlers, NEW hc \in CallType,
         handler' = [handler EXCEPT ![h] = hc],
         barred' \subseteq Staff, verified' \subseteq Staff, dated' \subseteq Handlers,
         counter' \in [Staff -> Nat], UNCHANGED <<session, challenge>>
  PROVE  AccessTypes'
<1>1. handler' \in [Handlers -> CallType]
  BY DEF AccessTypes
<1>2. \A g \in Handlers : handler'[g].step \in
        {"done", "open", "consume", "check", "count", "signin",
         "actor", "authorize", "perform"}
  BY <1>1 DEF CallType, Done, LoginCall, KeyCall, RequestCall
<1> QED  BY <1>1, <1>2 DEF AccessTypes, AccessTypeOK

(* A ceremony finds a challenge of its person that is kept.                    *)
LEMMA NewestIsKept ==
  ASSUME NEW i, NEW k, NEW c \in Newest(i, k)
  PROVE  c \in Challenges /\ challenge[c] = [who |-> i, ceremony |-> k, state |-> "kept"]
  BY DEF Newest

(* What a ceremony knows when it has found its challenge.                      *)
Ceremony(i, k, c, a) ==
  [step |-> "consume", who |-> i, ceremony |-> k, found |-> c, answer |-> a]

(* A new challenge takes the place of none.                                    *)
LEMMA ChallengeSaved ==
  ASSUME AccessTypes, NEW i \in Staff, NEW k \in {"authentication", "registration"},
         SaveChallenge(i, k)
  PROVE  \E c \in Challenges :
           /\ challenge[c] = NoChallenge
           /\ challenge' = [challenge EXCEPT ![c] =
                [who |-> i, ceremony |-> k, state |-> "kept"]]
  BY DEF SaveChallenge

LEMMA AccessTypesStep == AccessTypes /\ [AccessNext]_accessVars => AccessTypes'
<1> SUFFICES ASSUME AccessTypes, [AccessNext]_accessVars PROVE AccessTypes'
  OBVIOUS
<1> USE DEF Goto, Free
<1>c. Done \in CallType /\ barred \subseteq Staff /\ verified \subseteq Staff
      /\ dated \subseteq Handlers /\ counter \in [Staff -> Nat]
  BY DEF AccessTypes, AccessTypeOK, CallType
<1>k. ASSUME NEW h \in Handlers,
             handler[h].step \in {"consume", "check", "count", "signin"}
      PROVE  handler[h] \in KeyCall /\ handler[h].who \in Staff
             /\ handler[h].answer \in Challenges /\ handler[h].found \in Challenges
  BY <1>k DEF AccessTypes, CallType, Done, LoginCall, KeyCall, RequestCall
<1>r. ASSUME NEW h \in Handlers, handler[h].step \in {"actor", "authorize", "perform"}
      PROVE  handler[h] \in RequestCall /\ handler[h].who \in Staff
  BY <1>r DEF AccessTypes, CallType, Done, LoginCall, KeyCall, RequestCall
<1>1. CASE UNCHANGED accessVars
  BY <1>1 DEF accessVars, AccessTypes, AccessTypeOK
<1>2. ASSUME NEW h \in Handlers, NEW i \in Staff, StartLogin(h, i) \/ StartBreakGlass(h, i)
      PROVE  AccessTypes'
  <2>1. [step |-> "open", who |-> i, proof |-> 0] \in CallType
    BY DEF CallType, LoginCall
  <2> QED  BY <1>2, <1>c, <2>1, CallMoves, AccessAssumption DEF StartLogin, StartBreakGlass
<1>3. ASSUME NEW h \in Handlers, NEW i \in Staff, SetUserBlocked(h, i) PROVE AccessTypes'
  BY <1>3, <1>c, CallMoves DEF SetUserBlocked, CallsOf
<1>4. ASSUME NEW h \in Handlers, NEW c \in Challenges, StartKeyLogin(h, c)
      PROVE  AccessTypes'
  <2>1. challenge[c].who \in Staff
    BY <1>4 DEF StartKeyLogin, AccessTypes
  <2>2. PICK n \in Newest(challenge[c].who, "authentication") : handler' =
          [handler EXCEPT ![h] = Ceremony(challenge[c].who, "authentication", n, c)]
    BY <1>4 DEF StartKeyLogin, FindChallenge, Ceremony
  <2>3. Ceremony(challenge[c].who, "authentication", n, c) \in KeyCall
    BY <2>1, NewestIsKept DEF KeyCall, Ceremony
  <2> QED  BY <1>4, <1>c, <2>2, <2>3, CallMoves DEF StartKeyLogin, CallType
<1>5. ASSUME NEW h \in Handlers, NEW c \in Challenges, VerifyRegistration(h, c)
      PROVE  AccessTypes'
  <2>1. handler[h].who \in Staff
    BY <1>5, <1>r DEF VerifyRegistration
  <2>2. PICK n \in Newest(handler[h].who, "registration") : handler' =
          [handler EXCEPT ![h] = Ceremony(handler[h].who, "registration", n, c)]
    BY <1>5 DEF VerifyRegistration, FindChallenge, Ceremony
  <2>3. Ceremony(handler[h].who, "registration", n, c) \in KeyCall
    BY <2>1, NewestIsKept DEF KeyCall, Ceremony
  <2> QED  BY <1>5, <1>c, <2>2, <2>3, CallMoves DEF VerifyRegistration, CallType
<1>6. ASSUME NEW h \in Handlers, NEW s \in Sessions, FindSession(h, s) PROVE AccessTypes'
  <2>1. session[s].who \in Staff
    BY <1>6 DEF FindSession, Live, AccessTypes
  <2>2. [step |-> "actor", who |-> session[s].who, in |-> s] \in CallType
    BY <2>1 DEF CallType, RequestCall
  <2> QED  BY <1>6, <1>c, <2>2, CallMoves DEF FindSession
<1>7. ASSUME NEW h \in Handlers, CreateSession(h) PROVE AccessTypes'
  <2>1. handler[h] \in LoginCall
    BY <1>7 DEF CreateSession, AccessTypes, CallType, Done, LoginCall, KeyCall,
       RequestCall
  <2>2. handler[h].who \in Staff /\ handler[h].proof \in {0} \union Challenges
    BY <2>1 DEF LoginCall
  <2>3. PICK s \in Sessions : session' = [session EXCEPT ![s] =
          [who |-> handler[h].who, state |-> "live", proof |-> handler[h].proof]]
    BY <1>7 DEF CreateSession
  <2>4. /\ session' \in [Sessions ->
             [who: Staff \union {Nobody},
              state: {"none", "live", "expired", "revoked"},
              proof: {0} \union Challenges]]
        /\ \A r \in Sessions : session'[r].state # "none" => session'[r].who \in Staff
    BY <2>2, <2>3 DEF AccessTypes, AccessTypeOK
  <2>5. handler' = [handler EXCEPT ![h] = Done] /\ verified' \subseteq Staff
        /\ UNCHANGED <<barred, challenge, counter, dated>>
    BY <1>7, <1>c, <2>2 DEF CreateSession
  <2>6. handler' \in [Handlers -> CallType]
    BY <2>5, <1>c DEF AccessTypes
  <2>7. \A g \in Handlers : handler'[g].step = IF g = h THEN "done" ELSE handler[g].step
    BY <2>5 DEF AccessTypes, Done
  <2> QED  BY <2>4, <2>5, <2>6, <2>7 DEF AccessTypes, AccessTypeOK
<1>8. ASSUME NEW h \in Handlers, ConsumeChallenge(h) PROVE AccessTypes'
  <2>1. handler[h] \in KeyCall /\ handler[h].found \in Challenges
    BY <1>8, <1>k DEF ConsumeChallenge
  <2>2. [handler[h] EXCEPT !.step = "check"] \in CallType
    BY <2>1 DEF KeyCall, CallType
  <2>3. CASE UNCHANGED challenge
    BY <1>8, <1>c, <2>2, <2>3, CallMoves DEF ConsumeChallenge
  <2>4. CASE challenge[handler[h].found].state # "used"
    <3>1. /\ challenge' = [challenge EXCEPT ![handler[h].found].state = "used"]
          /\ handler' = [handler EXCEPT ![h] = [handler[h] EXCEPT !.step = "check"]]
          /\ UNCHANGED <<barred, verified, session, counter, dated>>
      BY <1>8, <2>4 DEF ConsumeChallenge
    <3>2. /\ challenge' \in [Challenges ->
               [who: Staff \union {Nobody},
                ceremony: {"none", "authentication", "registration"},
                state: {"none", "kept", "used"}]]
          /\ \A c \in Challenges :
               challenge'[c].ceremony # "none" => challenge'[c].who \in Staff
      BY <3>1, <2>1 DEF AccessTypes, AccessTypeOK
    <3>3. handler' \in [Handlers -> CallType]
      BY <3>1, <2>2 DEF AccessTypes
    <3>4. \A g \in Handlers :
            handler'[g].step = IF g = h THEN "check" ELSE handler[g].step
      BY <3>1, <2>1 DEF AccessTypes, KeyCall
    <3> QED  BY <3>1, <3>2, <3>3, <3>4 DEF AccessTypes, AccessTypeOK
  <2> QED  BY <1>8, <2>3, <2>4 DEF ConsumeChallenge
<1>9. ASSUME NEW h \in Handlers,
             CheckAssertion(h) \/ StoreCounter(h) \/ KeyLogin(h) \/ StoreKey(h)
      PROVE  AccessTypes'
  <2>1. /\ handler[h] \in KeyCall /\ handler[h].who \in Staff
        /\ handler[h].answer \in Challenges
    BY <1>9, <1>k DEF CheckAssertion, StoreCounter, KeyLogin, StoreKey
  <2>2. /\ \A label \in {"count", "signin"} :
             [handler[h] EXCEPT !.step = label] \in CallType
        /\ [step |-> "open", who |-> handler[h].who, proof |-> handler[h].answer]
             \in CallType
    BY <2>1 DEF KeyCall, LoginCall, CallType
  <2>3. counter' \in [Staff -> Nat]
    BY <1>9, <1>c, <2>1, AccessAssumption
       DEF CheckAssertion, StoreCounter, KeyLogin, StoreKey, Signed, Challenges
  <2>4. PICK hc \in CallType : handler' = [handler EXCEPT ![h] = hc]
    BY <1>9, <1>c, <2>2 DEF CheckAssertion, StoreCounter, KeyLogin, StoreKey
  <2>5. UNCHANGED <<barred, verified, session, challenge, dated>>
    BY <1>9 DEF CheckAssertion, StoreCounter, KeyLogin, StoreKey
  <2> QED  BY <1>c, <2>3, <2>4, <2>5, CallMoves
<1>10. ASSUME NEW h \in Handlers, RequireActor(h) PROVE AccessTypes'
  <2>1. handler[h] \in RequestCall
    BY <1>10, <1>r DEF RequireActor
  <2>2. \A label \in {"authorize", "perform"} :
          [handler[h] EXCEPT !.step = label] \in CallType
    BY <2>1 DEF RequestCall, CallType
  <2>3. PICK hc \in CallType : handler' = [handler EXCEPT ![h] = hc]
    BY <1>10, <1>c, <2>2 DEF RequireActor
  <2> QED  BY <1>10, <1>c, <2>3, CallMoves DEF RequireActor
<1>11. ASSUME NEW h \in Handlers, Perform(h) \/ CallFails(h) PROVE AccessTypes'
  BY <1>11, <1>c, CallMoves DEF Perform, CallFails
<1>o. ASSUME NEW i \in Staff, NEW k \in {"authentication", "registration"},
             SaveChallenge(i, k)
      PROVE  /\ challenge' \in [Challenges ->
                  [who: Staff \union {Nobody},
                   ceremony: {"none", "authentication", "registration"},
                   state: {"none", "kept", "used"}]]
             /\ \A c \in Challenges :
                  challenge'[c].ceremony # "none" => challenge'[c].who \in Staff
  <2>1. PICK c \in Challenges : challenge' = [challenge EXCEPT ![c] =
          [who |-> i, ceremony |-> k, state |-> "kept"]]
    BY <1>o, ChallengeSaved
  <2> QED  BY <2>1 DEF AccessTypes, AccessTypeOK
<1>12. ASSUME NEW h \in Handlers, RegistrationOptions(h) PROVE AccessTypes'
  <2>1. handler[h].who \in Staff
    BY <1>12, <1>r DEF RegistrationOptions
  <2>2. handler' = [handler EXCEPT ![h] = Done]
        /\ UNCHANGED <<barred, verified, session, counter, dated>>
    BY <1>12 DEF RegistrationOptions
  <2>3. handler' \in [Handlers -> CallType]
    BY <2>2, <1>c DEF AccessTypes
  <2>4. \A g \in Handlers : handler'[g].step = IF g = h THEN "done" ELSE handler[g].step
    BY <2>2 DEF AccessTypes, Done
  <2> QED  BY <1>12, <1>o, <2>1, <2>2, <2>3, <2>4
           DEF RegistrationOptions, AccessTypes, AccessTypeOK
<1>13. ASSUME NEW i \in Staff, AuthenticationOptions(i) PROVE AccessTypes'
  BY <1>13, <1>o DEF AuthenticationOptions, AccessTypes, AccessTypeOK
<1>14. ASSUME NEW s \in Sessions, Logout(s) \/ SessionExpires(s) PROVE AccessTypes'
  <2>1. /\ \E state \in {"expired", "revoked"} :
             session' = [session EXCEPT ![s].state = state]
        /\ session[s].state # "none" /\ dated' \subseteq Handlers
        /\ UNCHANGED <<barred, verified, challenge, counter, handler>>
    BY <1>14, <1>c DEF Logout, SessionExpires, Live, CallsIn
  <2> QED  BY <2>1 DEF AccessTypes, AccessTypeOK
<1> QED
  BY <1>1, <1>2, <1>3, <1>4, <1>5, <1>6, <1>7, <1>8, <1>9, <1>10, <1>11, <1>12,
     <1>13, <1>14 DEF AccessNext

(* ..... Who is shut out .....                                                 *)

InRequest(h) == handler[h].step \in {"actor", "authorize", "perform"}

(* A request without a session that lives, or by somebody who is blocked, was   *)
(* let in before that.                                                         *)
ShutInv ==
  /\ AccessTypes
  /\ \A h \in Handlers : InRequest(h) => Live(handler[h].in) \/ h \in dated
  /\ \A h \in Handlers :
       handler[h].step = "perform" => handler[h].who \notin barred \/ h \in dated

(* A call that ends its request, or has none, shuts nobody in.                 *)
LEMMA LeavesRequest ==
  ASSUME ShutInv, AccessTypes', NEW h \in Handlers,
         NEW hc, hc.step \notin {"actor", "authorize", "perform"},
         handler' = [handler EXCEPT ![h] = hc],
         barred' \subseteq barred, dated \ {h} \subseteq dated',
         \A s \in Sessions : Live(s) => Live(s)'
  PROVE  ShutInv'
<1>1. \A g \in Handlers : g # h => handler'[g] = handler[g]
  BY DEF ShutInv, AccessTypes
<1>2. ~InRequest(h)'
  BY DEF ShutInv, AccessTypes, InRequest
<1>3. \A g \in Handlers : InRequest(g) => handler[g].in \in Sessions
  BY DEF ShutInv, AccessTypes, InRequest, CallType, Done, LoginCall, KeyCall, RequestCall
<1> QED  BY <1>1, <1>2, <1>3 DEF ShutInv, InRequest

LEMMA ShutStep == ShutInv /\ [AccessNext]_accessVars => ShutInv'
<1> SUFFICES ASSUME ShutInv, [AccessNext]_accessVars PROVE ShutInv'
  OBVIOUS
<1>t. AccessTypes /\ AccessTypes' /\ handler \in [Handlers -> CallType]
  BY AccessTypesStep DEF ShutInv, AccessTypes
<1>l. UNCHANGED session => \A s \in Sessions : Live(s) => Live(s)'
  BY DEF Live
<1>d. Done.step = "done"
  BY DEF Done
<1>1. CASE UNCHANGED accessVars
  BY <1>1, <1>t DEF accessVars, ShutInv, InRequest, Live
<1>2. ASSUME NEW h \in Handlers, NEW i \in Staff, StartLogin(h, i) \/ StartBreakGlass(h, i)
      PROVE  ShutInv'
  BY <1>2, <1>t, <1>l, LeavesRequest DEF StartLogin, StartBreakGlass, Goto
<1>3. ASSUME NEW h \in Handlers, NEW i \in Staff, SetUserBlocked(h, i) PROVE ShutInv'
  <2>1. /\ handler' = [handler EXCEPT ![h] = Done] /\ UNCHANGED session
        /\ \/ barred' \subseteq barred /\ dated' = dated
           \/ barred' = barred \union {i} /\ dated' = dated \union (CallsOf(i) \ {h})
    BY <1>3 DEF SetUserBlocked, Goto
  <2>2. CASE barred' \subseteq barred /\ dated' = dated
    BY <2>1, <2>2, <1>t, <1>l, <1>d, LeavesRequest
  <2>3. CASE barred' = barred \union {i} /\ dated' = dated \union (CallsOf(i) \ {h})
    <3>1. \A g \in Handlers : g # h => handler'[g] = handler[g]
      BY <2>1, <1>t
    <3>2. handler'[h].step = "done"
      BY <2>1, <1>t, <1>d
    <3>3. \A g \in Handlers : g # h /\ handler[g].step = "perform"
            /\ handler[g].who = i => g \in dated'
      BY <2>3, <1>d DEF CallsOf, Free
    <3> QED  BY <2>1, <2>3, <3>1, <3>2, <3>3, <1>t DEF ShutInv, InRequest, Live
  <2> QED  BY <2>1, <2>2, <2>3
<1>4. ASSUME NEW h \in Handlers, NEW c \in Challenges, StartKeyLogin(h, c)
      PROVE  ShutInv'
  <2>1. PICK n : handler' = [handler EXCEPT ![h] =
          Ceremony(challenge[c].who, "authentication", n, c)]
    BY <1>4 DEF StartKeyLogin, FindChallenge, Ceremony, Goto
  <2>2. Ceremony(challenge[c].who, "authentication", n, c).step = "consume"
    BY DEF Ceremony
  <2> QED  BY <1>4, <1>t, <1>l, <2>1, <2>2, LeavesRequest DEF StartKeyLogin
<1>5. ASSUME NEW h \in Handlers, NEW c \in Challenges, VerifyRegistration(h, c)
      PROVE  ShutInv'
  <2>1. PICK n : handler' = [handler EXCEPT ![h] =
          Ceremony(handler[h].who, "registration", n, c)]
    BY <1>5 DEF VerifyRegistration, FindChallenge, Ceremony, Goto
  <2>2. Ceremony(handler[h].who, "registration", n, c).step = "consume"
    BY DEF Ceremony
  <2> QED  BY <1>5, <1>t, <1>l, <2>1, <2>2, LeavesRequest DEF VerifyRegistration
<1>6. ASSUME NEW h \in Handlers, NEW s \in Sessions, FindSession(h, s) PROVE ShutInv'
  <2>1. /\ Live(s)' /\ UNCHANGED <<barred, session>> /\ dated' = dated \ {h}
        /\ handler' = [handler EXCEPT ![h] =
             [step |-> "actor", who |-> session[s].who, in |-> s]]
    BY <1>6 DEF FindSession, Goto, Live
  <2>2. handler'[h].step = "actor" /\ handler'[h].in = s
    BY <2>1, <1>t
  <2>3. \A g \in Handlers : g # h => handler'[g] = handler[g]
    BY <2>1, <1>t
  <2> QED  BY <2>1, <2>2, <2>3, <1>t DEF ShutInv, InRequest, Live
<1>7. ASSUME NEW h \in Handlers, CreateSession(h) PROVE ShutInv'
  <2>1. \A s \in Sessions : Live(s) => Live(s)'
    BY <1>7, <1>t DEF CreateSession, Live, NoSession, AccessTypes, AccessTypeOK
  <2> QED  BY <1>7, <1>t, <1>d, <2>1, LeavesRequest DEF CreateSession, Goto
<1>8. ASSUME NEW h \in Handlers,
             handler[h].step \in {"consume", "check", "count", "signin"},
             UNCHANGED <<barred, session, dated>>,
             \/ ConsumeChallenge(h) \/ CheckAssertion(h)
             \/ StoreCounter(h) \/ KeyLogin(h) \/ StoreKey(h)
      PROVE  ShutInv'
  <2>1. handler[h] \in KeyCall
    BY <1>8, <1>t DEF CallType, Done, LoginCall, KeyCall, RequestCall
  <2>2. \A label \in {"check", "count", "signin"} :
          [handler[h] EXCEPT !.step = label].step = label
    BY <2>1 DEF KeyCall
  <2>3. PICK hc : /\ handler' = [handler EXCEPT ![h] = hc]
                    /\ hc.step \in {"done", "check", "count", "signin", "open"}
    BY <1>8, <1>d, <2>2
       DEF ConsumeChallenge, CheckAssertion, StoreCounter, KeyLogin, StoreKey, Goto
  <2> QED  BY <1>8, <1>t, <1>l, <2>3, LeavesRequest
<1>9. ASSUME NEW h \in Handlers, RequireActor(h) PROVE ShutInv'
  <2>1. /\ InRequest(h) /\ handler[h] \in RequestCall
        /\ UNCHANGED <<barred, session, dated>>
    BY <1>9, <1>t DEF RequireActor, InRequest, CallType, Done, LoginCall, KeyCall,
       RequestCall
  <2>2. CASE handler' = [handler EXCEPT ![h] = Done]
    BY <2>1, <2>2, <1>t, <1>l, <1>d, LeavesRequest
  <2>3. ASSUME MayAct(handler[h].who), NEW label \in {"authorize", "perform"},
               handler' = [handler EXCEPT ![h] = [handler[h] EXCEPT !.step = label]]
        PROVE  ShutInv'
    <3>1. /\ handler'[h].in = handler[h].in /\ handler'[h].who = handler[h].who
          /\ \A g \in Handlers : g # h => handler'[g] = handler[g]
      BY <2>1, <2>3, <1>t DEF RequestCall
    <3> QED  BY <2>1, <2>3, <3>1, <1>t DEF ShutInv, InRequest, Live, MayAct
  <2> QED  BY <1>9, <2>2, <2>3 DEF RequireActor, Goto
<1>10. ASSUME NEW h \in Handlers, Perform(h) \/ CallFails(h) \/ RegistrationOptions(h)
       PROVE  ShutInv'
  BY <1>10, <1>t, <1>l, <1>d, LeavesRequest
     DEF Perform, CallFails, RegistrationOptions, Goto
<1>11. ASSUME NEW i \in Staff, AuthenticationOptions(i) PROVE ShutInv'
  BY <1>11, <1>t DEF AuthenticationOptions, ShutInv, InRequest, Live
<1>12. ASSUME NEW s \in Sessions, Logout(s) \/ SessionExpires(s) PROVE ShutInv'
  <2>1. /\ \E state : session' = [session EXCEPT ![s].state = state]
        /\ dated' = dated \union CallsIn(s) /\ UNCHANGED <<barred, handler>>
    BY <1>12 DEF Logout, SessionExpires
  <2>2. \A r \in Sessions : r # s /\ Live(r) => Live(r)'
    BY <2>1, <1>t DEF Live, AccessTypes, AccessTypeOK
  <2>3. \A h \in Handlers : InRequest(h) => handler[h].in \in Sessions
    BY <1>t DEF InRequest, CallType, Done, LoginCall, KeyCall, RequestCall
  <2>4. \A h \in Handlers : InRequest(h) /\ handler[h].in = s => h \in dated'
    BY <2>1 DEF InRequest, CallsIn
  <2> QED  BY <2>1, <2>2, <2>3, <2>4, <1>t DEF ShutInv, InRequest
<1> QED
  BY <1>1, <1>2, <1>3, <1>4, <1>5, <1>6, <1>7, <1>8, <1>9, <1>10, <1>11, <1>12
     DEF AccessNext, ConsumeChallenge, CheckAssertion, StoreCounter, KeyLogin, StoreKey

(* However calls, blocks and logouts interleave, whoever acts is not blocked    *)
(* and has a session that lives, or was let in before that changed.            *)
THEOREM ShutOutStaysOut == AccessSpec => []ClosedOutStaysOut
<1>1. AccessInit => ShutInv
  BY AccessTypesStart DEF AccessInit, ShutInv, InRequest, Done
<1>2. ShutInv => ClosedOutStaysOut
  BY DEF ShutInv, ClosedOutStaysOut, InRequest
<1> QED  BY <1>1, <1>2, ShutStep, PTL DEF AccessSpec

(* ..... One login per answer .....                                            *)

(* The challenge that a call has taken for itself and will turn into a session. *)
Takes(hc, c) ==
  \/ hc.step \in {"check", "count", "signin"} /\ hc.found = c
  \/ hc.step = "open" /\ hc.proof = c

(* What a call may say of its challenge.                                       *)
FitsChallenge(hc) ==
  /\ hc.step = "consume" =>
       /\ challenge[hc.found].who = hc.who
       /\ challenge[hc.found].state \in {"kept", "used"}
  /\ hc.step \in {"count", "signin"} => hc.answer = hc.found
  /\ \A c \in Challenges : Takes(hc, c) =>
       challenge[c].state = "used" /\ challenge[c].who = hc.who

(* A used challenge is in the hands of one call, or behind one session.         *)
LoginInv ==
  /\ AccessTypes
  /\ \A h \in Handlers : FitsChallenge(handler[h])
  /\ \A g, h \in Handlers : \A c \in Challenges :
       Takes(handler[g], c) /\ Takes(handler[h], c) => g = h
  /\ \A s \in Sessions : session[s].proof # 0 =>
       /\ challenge[session[s].proof].state = "used"
       /\ \A h \in Handlers : ~Takes(handler[h], session[s].proof)
  /\ OneLoginPerAnswer

(* A call that keeps its challenge or lets it go.                              *)
LEMMA KeepsOrLeaves ==
  ASSUME LoginInv, AccessTypes', NEW h \in Handlers, NEW hc \in CallType,
         handler' = [handler EXCEPT ![h] = hc], UNCHANGED <<session, challenge>>,
         FitsChallenge(hc),
         \A c \in Challenges : Takes(hc, c) => Takes(handler[h], c)
  PROVE  LoginInv'
<1>1. \A g \in Handlers : handler'[g] = IF g = h THEN hc ELSE handler[g]
  BY DEF LoginInv, AccessTypes
<1>2. \A g \in Handlers : \A c \in Challenges :
        Takes(handler'[g], c) => Takes(handler[g], c)
  BY <1>1
<1>3. \A g \in Handlers : FitsChallenge(handler'[g])
  BY <1>1 DEF LoginInv
<1>4. \A g \in Handlers : FitsChallenge(handler[g])'
  BY <1>3 DEF FitsChallenge
<1>5. \A s \in Sessions : session[s].proof \in {0} \union Challenges
  BY DEF LoginInv, AccessTypes, AccessTypeOK
<1>6. OneLoginPerAnswer'
  BY DEF LoginInv, OneLoginPerAnswer
<1>7. \A s \in Sessions : (session[s].proof # 0)' =>
       /\ (challenge[session[s].proof].state = "used")'
       /\ \A g \in Handlers : ~Takes(handler'[g], session'[s].proof)
  BY <1>2, <1>5 DEF LoginInv
<1>8. \A f, g \in Handlers : \A c \in Challenges :
       Takes(handler'[f], c) /\ Takes(handler'[g], c) => f = g
  BY <1>2 DEF LoginInv
<1> QED  BY <1>4, <1>6, <1>7, <1>8 DEF LoginInv

(* A call without a challenge fits.                                            *)
LEMMA NoChallengeFits ==
  ASSUME NEW hc, hc.step \in {"done", "actor", "authorize", "perform"}
  PROVE  FitsChallenge(hc) /\ \A c \in Challenges : ~Takes(hc, c)
  BY DEF FitsChallenge, Takes

(* A new challenge was nobody's before.                                        *)
LEMMA NewChallenge ==
  ASSUME LoginInv, AccessTypes', NEW i, NEW k, SaveChallenge(i, k),
         UNCHANGED session,
         \A h \in Handlers : handler'[h] = handler[h] \/ handler'[h] = Done
  PROVE  LoginInv'
<1>1. PICK c \in Challenges :
        /\ challenge[c] = NoChallenge
        /\ challenge' = [challenge EXCEPT ![c] =
             [who |-> i, ceremony |-> k, state |-> "kept"]]
  BY DEF SaveChallenge
<1>2. \A b \in Challenges : challenge[b].state # "none" => challenge'[b] = challenge[b]
  BY <1>1 DEF NoChallenge, LoginInv, AccessTypes, AccessTypeOK
<1>3. Done.step = "done"
  BY DEF Done
<1>4. \A h \in Handlers : FitsChallenge(handler[h])'
  <2>1. SUFFICES ASSUME NEW h \in Handlers, handler'[h] = handler[h]
                 PROVE  FitsChallenge(handler[h])'
    BY <1>3, NoChallengeFits DEF FitsChallenge, Takes
  <2>2. FitsChallenge(handler[h])
    BY DEF LoginInv
  <2>3. handler[h].step = "consume" => handler[h].found \in Challenges
    BY DEF LoginInv, AccessTypes, CallType, Done, LoginCall, KeyCall, RequestCall
  <2> QED  BY <1>2, <2>1, <2>2, <2>3 DEF FitsChallenge, Takes
<1>5. \A h \in Handlers : \A b : Takes(handler'[h], b) => Takes(handler[h], b)
  BY <1>3 DEF Takes
<1>6. \A s \in Sessions : session[s].proof # 0 =>
        session[s].proof \in Challenges /\ challenge[session[s].proof].state = "used"
  BY DEF LoginInv, AccessTypes, AccessTypeOK
<1>7. \A s \in Sessions : session[s].proof # 0 =>
        challenge'[session[s].proof] = challenge[session[s].proof]
  BY <1>2, <1>6
<1>8. OneLoginPerAnswer'
  BY <1>7 DEF LoginInv, OneLoginPerAnswer
<1>9. \A s \in Sessions : (session[s].proof # 0)' =>
       /\ (challenge[session[s].proof].state = "used")'
       /\ \A g \in Handlers : ~Takes(handler'[g], session'[s].proof)
  BY <1>5, <1>6, <1>7 DEF LoginInv
<1>10. \A f, g \in Handlers : \A b \in Challenges :
       Takes(handler'[f], b) /\ Takes(handler'[g], b) => f = g
  BY <1>5 DEF LoginInv
<1> QED  BY <1>4, <1>8, <1>9, <1>10 DEF LoginInv

LEMMA LoginStep == LoginInv /\ [AccessNext]_accessVars => LoginInv'
<1> SUFFICES ASSUME LoginInv, [AccessNext]_accessVars PROVE LoginInv'
  OBVIOUS
<1>t. AccessTypes /\ AccessTypes' /\ handler \in [Handlers -> CallType]
  BY AccessTypesStep DEF LoginInv, AccessTypes
<1>d. Done.step = "done" /\ Done \in CallType
  BY DEF Done, CallType
<1>0. 0 \notin Challenges
  BY AccessAssumption DEF Challenges
<1>f. \A h \in Handlers : FitsChallenge(handler[h])
  BY DEF LoginInv
<1>k. ASSUME NEW h \in Handlers,
             handler[h].step \in {"consume", "check", "count", "signin"}
      PROVE  handler[h] \in KeyCall /\ handler[h].found \in Challenges
  BY <1>k, <1>t DEF CallType, Done, LoginCall, KeyCall, RequestCall
<1>e. ASSUME NEW h \in Handlers, handler' = [handler EXCEPT ![h] = Done],
             UNCHANGED <<session, challenge>>
      PROVE  LoginInv'
  <2>1. FitsChallenge(Done) /\ \A c \in Challenges : ~Takes(Done, c)
    BY <1>d, NoChallengeFits
  <2> QED  BY <1>e, <1>t, <1>d, <2>1, KeepsOrLeaves
<1>1. CASE UNCHANGED accessVars
  BY <1>1, <1>t DEF accessVars, LoginInv, FitsChallenge, OneLoginPerAnswer
<1>2. ASSUME NEW h \in Handlers, NEW i \in Staff, StartLogin(h, i) \/ StartBreakGlass(h, i)
      PROVE  LoginInv'
  <2> DEFINE hc == [step |-> "open", who |-> i, proof |-> 0]
  <2>1. hc \in CallType /\ FitsChallenge(hc) /\ \A c \in Challenges : ~Takes(hc, c)
    BY <1>0 DEF FitsChallenge, Takes, CallType, LoginCall
  <2>2. handler' = [handler EXCEPT ![h] = hc] /\ UNCHANGED <<session, challenge>>
    BY <1>2 DEF StartLogin, StartBreakGlass, Goto
  <2> HIDE DEF hc
  <2> QED  BY <1>t, <2>1, <2>2, KeepsOrLeaves
<1>3. ASSUME NEW h \in Handlers,
             \/ Perform(h) \/ CallFails(h)
             \/ \E i \in Staff : SetUserBlocked(h, i)
      PROVE  LoginInv'
  BY <1>3, <1>e DEF Perform, CallFails, SetUserBlocked, Goto
<1>4. ASSUME NEW h \in Handlers, NEW i \in Staff, NEW k, NEW a \in Challenges,
             NEW n \in Newest(i, k), k \in {"authentication", "registration"},
             handler' = [handler EXCEPT ![h] = Ceremony(i, k, n, a)],
             UNCHANGED <<session, challenge>>
      PROVE  LoginInv'
  <2> DEFINE hc == Ceremony(i, k, n, a)
  <2>1. n \in Challenges /\ challenge[n] = [who |-> i, ceremony |-> k, state |-> "kept"]
    BY NewestIsKept
  <2>2. hc \in CallType /\ FitsChallenge(hc) /\ \A c \in Challenges : ~Takes(hc, c)
    BY <1>4, <2>1 DEF Ceremony, FitsChallenge, Takes, CallType, KeyCall
  <2>3. handler' = [handler EXCEPT ![h] = hc] /\ UNCHANGED <<session, challenge>>
    BY <1>4
  <2> HIDE DEF hc
  <2> QED  BY <1>t, <2>2, <2>3, KeepsOrLeaves
<1>5. ASSUME NEW h \in Handlers, NEW c \in Challenges, StartKeyLogin(h, c)
      PROVE  LoginInv'
  <2>1. challenge[c].who \in Staff
    BY <1>5, <1>t DEF StartKeyLogin, AccessTypes
  <2>2. PICK n \in Newest(challenge[c].who, "authentication") : handler' =
          [handler EXCEPT ![h] = Ceremony(challenge[c].who, "authentication", n, c)]
    BY <1>5 DEF StartKeyLogin, FindChallenge, Ceremony, Goto
  <2> QED  BY <1>4, <1>5, <2>1, <2>2 DEF StartKeyLogin
<1>6. ASSUME NEW h \in Handlers, NEW c \in Challenges, VerifyRegistration(h, c)
      PROVE  LoginInv'
  <2>1. handler[h].who \in Staff
    BY <1>6, <1>t DEF VerifyRegistration, CallType, Done, LoginCall, KeyCall, RequestCall
  <2>2. PICK n \in Newest(handler[h].who, "registration") : handler' =
          [handler EXCEPT ![h] = Ceremony(handler[h].who, "registration", n, c)]
    BY <1>6 DEF VerifyRegistration, FindChallenge, Ceremony, Goto
  <2> QED  BY <1>4, <1>6, <2>1, <2>2 DEF VerifyRegistration
<1>7. ASSUME NEW h \in Handlers, NEW s \in Sessions, FindSession(h, s) PROVE LoginInv'
  <2> DEFINE hc == [step |-> "actor", who |-> session[s].who, in |-> s]
  <2>1. session[s].who \in Staff
    BY <1>7, <1>t DEF FindSession, Live, AccessTypes
  <2>2. hc \in CallType /\ hc.step = "actor"
    BY <2>1 DEF CallType, RequestCall
  <2>3. handler' = [handler EXCEPT ![h] = hc] /\ UNCHANGED <<session, challenge>>
    BY <1>7 DEF FindSession, Goto
  <2> HIDE DEF hc
  <2>4. FitsChallenge(hc) /\ \A c \in Challenges : ~Takes(hc, c)
    BY <2>2, NoChallengeFits
  <2> QED  BY <1>t, <2>2, <2>3, <2>4, KeepsOrLeaves
<1>8. ASSUME NEW h \in Handlers, RequireActor(h) PROVE LoginInv'
  <2>1. CASE handler' = [handler EXCEPT ![h] = Done]
    BY <1>8, <2>1, <1>e DEF RequireActor
  <2>2. ASSUME NEW label \in {"authorize", "perform"},
               handler' = [handler EXCEPT ![h] = [handler[h] EXCEPT !.step = label]]
        PROVE  LoginInv'
    <3> DEFINE hc == [handler[h] EXCEPT !.step = label]
    <3>1. handler[h] \in RequestCall
      BY <1>8, <1>t DEF RequireActor, CallType, Done, LoginCall, KeyCall, RequestCall
    <3>2. hc \in CallType /\ hc.step = label
      BY <3>1 DEF CallType, RequestCall
    <3>3. handler' = [handler EXCEPT ![h] = hc] /\ UNCHANGED <<session, challenge>>
      BY <1>8, <2>2 DEF RequireActor
    <3> HIDE DEF hc
    <3>4. FitsChallenge(hc) /\ \A c \in Challenges : ~Takes(hc, c)
      BY <3>2, NoChallengeFits
    <3> QED  BY <1>t, <3>2, <3>3, <3>4, KeepsOrLeaves
  <2> QED  BY <1>8, <2>1, <2>2 DEF RequireActor, Goto
<1>9. ASSUME NEW h \in Handlers, CreateSession(h) PROVE LoginInv'
  <2>1. handler[h] \in LoginCall /\ handler[h].step = "open"
    BY <1>9, <1>t DEF CreateSession, CallType, Done, LoginCall, KeyCall, RequestCall
  <2> DEFINE p == handler[h].proof
             i == handler[h].who
  <2>2. p \in {0} \union Challenges
    BY <2>1 DEF LoginCall
  <2>3. PICK s \in Sessions :
          session' = [session EXCEPT ![s] = [who |-> i, state |-> "live", proof |-> p]]
    BY <1>9 DEF CreateSession
  <2>4. handler' = [handler EXCEPT ![h] = Done] /\ UNCHANGED challenge
    BY <1>9 DEF CreateSession, Goto
  <2>5. p # 0 => Takes(handler[h], p) /\ challenge[p].state = "used" /\ challenge[p].who = i
    BY <1>f, <2>1, <2>2 DEF Takes, FitsChallenge
  <2>6. /\ session'[s].who = i /\ session'[s].proof = p
        /\ \A r \in Sessions : r # s => session'[r] = session[r]
    BY <2>3, <1>t DEF AccessTypes, AccessTypeOK
  <2>7. /\ \A c : ~Takes(handler'[h], c)
        /\ \A g \in Handlers : g # h => handler'[g] = handler[g]
    BY <2>4, <1>t, <1>d DEF Takes
  <2>8. \A r \in Sessions : session[r].proof # 0 => session[r].proof # p
    BY <2>5 DEF LoginInv
  <2>9. \A g \in Handlers : FitsChallenge(handler[g])'
    <3>1. FitsChallenge(handler'[h])
      BY <2>4, <1>t, <1>d, NoChallengeFits
    <3> QED  BY <3>1, <2>4, <2>7, <1>f DEF FitsChallenge
  <2>10. \A f, g \in Handlers : \A c \in Challenges :
           Takes(handler'[f], c) /\ Takes(handler'[g], c) => f = g
    BY <2>7 DEF LoginInv
  <2>11. \A r \in Sessions : session'[r].proof # 0 =>
           /\ challenge[session'[r].proof].state = "used"
           /\ \A g \in Handlers : ~Takes(handler'[g], session'[r].proof)
    <3> HIDE DEF p, i
    <3>1. \A g \in Handlers : p # 0 /\ g # h => ~Takes(handler[g], p)
      BY <2>2, <2>5 DEF LoginInv
    <3> QED  BY <2>5, <2>6, <2>7, <3>1 DEF LoginInv
  <2>12. OneLoginPerAnswer'
    <3> HIDE DEF p, i
    <3> QED  BY <2>4, <2>5, <2>6, <2>8 DEF LoginInv, OneLoginPerAnswer
  <2> QED  BY <1>t, <2>4, <2>9, <2>10, <2>11, <2>12 DEF LoginInv
<1>10. ASSUME NEW h \in Handlers, ConsumeChallenge(h) PROVE LoginInv'
  <2>1. handler[h] \in KeyCall /\ handler[h].found \in Challenges
    BY <1>10, <1>k DEF ConsumeChallenge
  <2> DEFINE c == handler[h].found
             hc == [handler[h] EXCEPT !.step = "check"]
  <2>2. CASE challenge[c].state = "used"
    BY <1>10, <2>2, <1>e DEF ConsumeChallenge, Goto
  <2>3. CASE challenge[c].state # "used"
    <3>1. /\ challenge' = [challenge EXCEPT ![c].state = "used"]
          /\ handler' = [handler EXCEPT ![h] = hc] /\ UNCHANGED session
          /\ handler[h].step = "consume"
      BY <1>10, <2>3 DEF ConsumeChallenge, Goto
    <3>2. hc.step = "check" /\ hc.found = c /\ hc.who = handler[h].who
      BY <2>1 DEF KeyCall
    <3>3. challenge[c].who = handler[h].who
      BY <3>1, <1>f DEF FitsChallenge
    <3>4. /\ challenge'[c].state = "used" /\ challenge'[c].who = challenge[c].who
          /\ \A b \in Challenges : b # c => challenge'[b] = challenge[b]
      BY <3>1, <2>1, <1>t DEF AccessTypes, AccessTypeOK
    <3>5. /\ handler'[h] = hc
          /\ \A g \in Handlers : g # h => handler'[g] = handler[g]
      BY <3>1, <1>t
    <3>6. \A g \in Handlers : ~Takes(handler[g], c)
      BY <2>1, <2>3, <1>f DEF FitsChallenge
    <3>7. \A s \in Sessions : session[s].proof # 0 =>
            session[s].proof \in Challenges /\ session[s].proof # c
      BY <2>3, <1>t DEF LoginInv, AccessTypes, AccessTypeOK
    <3>8. \A g \in Handlers : g # h => FitsChallenge(handler[g])'
      <4>1. SUFFICES ASSUME NEW g \in Handlers, g # h
                     PROVE  FitsChallenge(handler[g])'
        OBVIOUS
      <4>2. handler[g].step = "consume" => handler[g].found \in Challenges
        BY <1>k
      <4>3. \A b \in Challenges : challenge'[b].who = challenge[b].who
              /\ (challenge[b].state = "used" => challenge'[b].state = "used")
              /\ (challenge[b].state \in {"kept", "used"} =>
                    challenge'[b].state \in {"kept", "used"})
        BY <3>4
      <4> HIDE DEF c, hc
      <4> QED  BY <3>5, <1>f, <4>1, <4>2, <4>3 DEF FitsChallenge
    <3> HIDE DEF c, hc
    <3>9. FitsChallenge(handler[h])'
      BY <3>2, <3>3, <3>4, <3>5 DEF FitsChallenge, Takes
    <3>10. \A b \in Challenges : Takes(hc, b) => b = c
      BY <3>2 DEF Takes
    <3>11. \A f, g \in Handlers : \A b \in Challenges :
             Takes(handler'[f], b) /\ Takes(handler'[g], b) => f = g
      BY <3>5, <3>6, <3>10 DEF LoginInv
    <3>12. \A s \in Sessions : session[s].proof # 0 =>
             /\ challenge'[session[s].proof] = challenge[session[s].proof]
             /\ \A g \in Handlers : ~Takes(handler'[g], session[s].proof)
      BY <3>4, <3>5, <3>7, <3>10 DEF LoginInv
    <3>13. OneLoginPerAnswer'
      BY <3>1, <3>12 DEF LoginInv, OneLoginPerAnswer
    <3> QED  BY <1>t, <3>1, <3>8, <3>9, <3>11, <3>12, <3>13 DEF LoginInv
  <2> QED  BY <2>2, <2>3
<1>11. ASSUME NEW h \in Handlers,
              CheckAssertion(h) \/ StoreCounter(h) \/ KeyLogin(h) \/ StoreKey(h)
       PROVE  LoginInv'
  <2>1. /\ handler[h] \in KeyCall /\ handler[h].found \in Challenges
        /\ handler[h].step \in {"check", "count", "signin"}
        /\ UNCHANGED <<session, challenge>>
    BY <1>11, <1>k DEF CheckAssertion, StoreCounter, KeyLogin, StoreKey
  <2>2. Takes(handler[h], handler[h].found)
    BY <2>1 DEF Takes
  <2>3. /\ challenge[handler[h].found].state = "used"
        /\ challenge[handler[h].found].who = handler[h].who
    BY <1>f, <2>1, <2>2 DEF FitsChallenge
  <2>4. CASE handler' = [handler EXCEPT ![h] = Done]
    BY <2>1, <2>4, <1>e
  <2>5. ASSUME NEW label \in {"count", "signin"}, handler[h].answer = handler[h].found,
               handler' = [handler EXCEPT ![h] = [handler[h] EXCEPT !.step = label]]
        PROVE  LoginInv'
    <3> DEFINE hc == [handler[h] EXCEPT !.step = label]
    <3>1. /\ hc \in CallType /\ hc.step = label /\ hc.found = handler[h].found
          /\ hc.answer = handler[h].answer /\ hc.who = handler[h].who
      BY <2>1 DEF CallType, KeyCall
    <3>2. handler' = [handler EXCEPT ![h] = hc]
      BY <2>5
    <3> HIDE DEF hc
    <3>3. \A c \in Challenges : Takes(hc, c) => c = handler[h].found
      BY <3>1 DEF Takes
    <3>4. FitsChallenge(hc)
      BY <2>3, <2>5, <3>1, <3>3 DEF FitsChallenge
    <3> QED  BY <1>t, <2>1, <2>2, <3>1, <3>2, <3>3, <3>4, KeepsOrLeaves
  <2>6. ASSUME handler[h].answer = handler[h].found,
               handler' = [handler EXCEPT ![h] =
                 [step |-> "open", who |-> handler[h].who, proof |-> handler[h].answer]]
        PROVE  LoginInv'
    <3> DEFINE hc ==
          [step |-> "open", who |-> handler[h].who, proof |-> handler[h].answer]
    <3>1. /\ hc \in CallType /\ hc.step = "open" /\ hc.proof = handler[h].found
          /\ hc.who = handler[h].who
      BY <2>1, <2>6 DEF CallType, KeyCall, LoginCall
    <3>2. handler' = [handler EXCEPT ![h] = hc]
      BY <2>6
    <3> HIDE DEF hc
    <3>3. \A c \in Challenges : Takes(hc, c) => c = handler[h].found
      BY <3>1 DEF Takes
    <3>4. FitsChallenge(hc)
      BY <2>3, <3>1, <3>3 DEF FitsChallenge
    <3> QED  BY <1>t, <2>1, <2>2, <3>1, <3>2, <3>3, <3>4, KeepsOrLeaves
  <2>7. handler[h].step \in {"count", "signin"} => handler[h].answer = handler[h].found
    BY <1>f DEF FitsChallenge
  <2> QED  BY <1>11, <2>4, <2>5, <2>6, <2>7
           DEF CheckAssertion, StoreCounter, KeyLogin, StoreKey, Goto
<1>12. ASSUME NEW h \in Handlers, RegistrationOptions(h) PROVE LoginInv'
  <2>1. /\ SaveChallenge(handler[h].who, "registration") /\ UNCHANGED session
        /\ \A g \in Handlers : handler'[g] = handler[g] \/ handler'[g] = Done
    BY <1>12, <1>t DEF RegistrationOptions, Goto
  <2> QED  BY <1>t, <2>1, NewChallenge DEF SaveChallenge
<1>13. ASSUME NEW i \in Staff, AuthenticationOptions(i) PROVE LoginInv'
  <2>1. SaveChallenge(i, "authentication") /\ UNCHANGED <<session, handler>>
    BY <1>13 DEF AuthenticationOptions
  <2> QED  BY <1>t, <2>1, NewChallenge DEF SaveChallenge
<1>14. ASSUME NEW s \in Sessions, Logout(s) \/ SessionExpires(s) PROVE LoginInv'
  <2>1. /\ \E state : session' = [session EXCEPT ![s].state = state]
        /\ UNCHANGED <<challenge, handler>>
    BY <1>14 DEF Logout, SessionExpires
  <2>2. \A r \in Sessions : session'[r].proof = session[r].proof
          /\ session'[r].who = session[r].who
    BY <2>1, <1>t DEF AccessTypes, AccessTypeOK
  <2> QED  BY <2>1, <2>2, <1>t DEF LoginInv, FitsChallenge, OneLoginPerAnswer
<1> QED
  BY <1>1, <1>2, <1>3, <1>5, <1>6, <1>7, <1>8, <1>9, <1>10, <1>11, <1>12, <1>13, <1>14
     DEF AccessNext

(* However often an answer is delivered and whichever calls race for its        *)
(* challenge, it opens one session at most.                                    *)
THEOREM AnswersOpenOneSession == AccessSpec => []OneLoginPerAnswer
<1>1. AccessInit => LoginInv
  BY AccessTypesStart DEF AccessInit, LoginInv, FitsChallenge, Takes, Done, NoSession,
     OneLoginPerAnswer
<1>2. LoginInv => OneLoginPerAnswer
  BY DEF LoginInv
<1> QED  BY <1>1, <1>2, LoginStep, PTL DEF AccessSpec

(* --------------------------------- Panel ------------------------------------ *)

(* An action in progress is a record of this shape.                            *)
ClickShape(c) ==
  c = NoClick \/ c = [step |-> c.step, tab |-> c.tab, item |-> c.item,
                      page |-> c.page, token |-> c.token, seen |-> c.seen]

(* What an action may claim of its item: a review is one of a case, and what     *)
(* the tab is told is true.                                                    *)
ClickTrue(c) ==
  /\ c.step = "review" => PageOf[c.item] = "verification"
  /\ c.step \in {"accepted", "already"} =>
       \/ handled[c.item] > 0
       \/ c.step = "already" /\ PageOf[c.item] # "alerts"

PanelInv ==
  /\ click = [k \in Clicks |-> click[k]]
  /\ handled \in [Items -> 0..2]
  /\ \A k \in Clicks : ClickShape(click[k])
  /\ \A k \in Clicks : click[k].step # "none" => click[k].item \in Items
  /\ \A k \in Clicks : ClickTrue(click[k])
  /\ HandledOnce /\ ActedAsMeant

(* Nothing was carried out, and the actions claim no more than before.          *)
LEMMA NothingCarried ==
  ASSUME PanelInv, UNCHANGED <<handled, mistaken>>,
         click' = [k \in Clicks |-> click'[k]],
         \A k \in Clicks :
           /\ ClickShape(click'[k])
           /\ click'[k].step # "none" => click'[k].item \in Items
           /\ click'[k].step \in {"review", "accepted", "already"} =>
                click'[k].step = click[k].step /\ click'[k].item = click[k].item
  PROVE  PanelInv'
<1>1. \A k \in Clicks : ClickTrue(click[k])'
  BY DEF PanelInv, ClickTrue
<1> QED  BY <1>1 DEF PanelInv, HandledOnce, ActedAsMeant, ClickShape

LEMMA PanelStep == PanelInv /\ [PanelNext]_panelVars => PanelInv'
<1> SUFFICES ASSUME PanelInv, [PanelNext]_panelVars PROVE PanelInv'
  OBVIOUS
<1>s. /\ click = [k \in Clicks |-> click[k]]
      /\ \A k \in Clicks : ClickShape(click[k])
      /\ \A k \in Clicks : click[k].step # "none" => click[k].item \in Items
      /\ NoClick.step = "none"
  BY DEF PanelInv, NoClick
<1>0. ASSUME UNCHANGED <<click, handled, mistaken>> PROVE PanelInv'
  BY <1>0, <1>s, NothingCarried
<1>f. ASSUME NEW t \in Tabs, click' = Forget(t), UNCHANGED <<handled, mistaken>>
      PROVE  PanelInv'
  <2>1. ASSUME NEW k \in Clicks
        PROVE  /\ ClickShape(click'[k])
               /\ click'[k].step = click[k].step
               /\ click[k].step # "none" => click'[k].item = click[k].item
    <3>1. CASE click'[k] = click[k]
      BY <3>1, <1>s
    <3>2. CASE click[k] # NoClick /\ click'[k] = [click[k] EXCEPT !.seen = FALSE]
      BY <3>2, <1>s DEF ClickShape
    <3> QED  BY <1>f, <3>1, <3>2 DEF Forget
  <2>2. click' = [k \in Clicks |-> click'[k]]
    BY <1>f DEF Forget
  <2> QED  BY <1>f, <1>s, <2>1, <2>2, NothingCarried
<1>r. ASSUME NEW k \in Clicks, NEW c, click' = [click EXCEPT ![k] = c],
             ClickShape(c), c.step # "none" => c.item \in Items,
             c.step \notin {"review", "accepted", "already"},
             UNCHANGED <<handled, mistaken>>
      PROVE  PanelInv'
  <2>1. \A j \in Clicks : click'[j] = IF j = k THEN c ELSE click[j]
    BY <1>r, <1>s
  <2>2. click' = [j \in Clicks |-> click'[j]]
    BY <1>r, <1>s
  <2> QED  BY <1>r, <1>s, <2>1, <2>2, NothingCarried
<1>n. ASSUME NEW k \in Clicks, click' = [click EXCEPT ![k] = NoClick],
             UNCHANGED <<handled, mistaken>>
      PROVE  PanelInv'
  BY <1>n, <1>r, <1>s DEF ClickShape
<1>1. CASE UNCHANGED panelVars
  BY <1>1, <1>0 DEF panelVars
<1>2. ASSUME NEW t \in Tabs,
             \/ SubmitLogin(t) \/ LoadSession(t) \/ StartSignOut(t) \/ SignOut(t)
             \/ \E p \in Pages : Navigate(t, p) \/ ListArrives(t, p)
             \/ TransactionArrives(t)
      PROVE  PanelInv'
  <2>1. UNCHANGED <<handled, mistaken>> /\ (click' = click \/ click' = Forget(t))
    BY <1>2 DEF SubmitLogin, LoadSession, StartSignOut, SignOut, Navigate, ListArrives,
       TransactionArrives
  <2> QED  BY <2>1, <1>0, <1>f
<1>3. ASSUME NEW t \in Tabs, NEW k \in Clicks, NEW r \in Items,
             PressOnRow(t, k, r) \/ PressOnTransaction(t, k, r)
      PROVE  PanelInv'
  <2> DEFINE c == [step |-> "token", tab |-> t, item |-> r, page |-> tab[t].page,
                   token |-> tab[t].view.csrf, seen |-> TRUE]
  <2>1. ClickShape(c) /\ c.step = "token" /\ c.item = r
    BY DEF ClickShape
  <2>2. click' = [click EXCEPT ![k] = c] /\ UNCHANGED <<handled, mistaken>>
    BY <1>3 DEF PressOnRow, PressOnTransaction, Clicked
  <2> HIDE DEF c
  <2> QED  BY <2>1, <2>2, <1>r
<1>4. ASSUME NEW k \in Clicks, FetchToken(k) PROVE PanelInv'
  <2>1. PICK token : click' = [click EXCEPT ![k].step = "send", ![k].token = token]
    BY <1>4 DEF FetchToken
  <2> DEFINE c == [click[k] EXCEPT !.step = "send", !.token = token]
  <2>2. click[k].step = "token" /\ UNCHANGED <<handled, mistaken>>
    BY <1>4 DEF FetchToken
  <2>3. ClickShape(c) /\ c.step = "send" /\ c.item = click[k].item
    <3> DEFINE b == [click[k] EXCEPT !.step = "send"]
    <3>1. ClickShape(b) /\ b.step = "send" /\ b.item = click[k].item /\ b # NoClick
      BY <2>2, <1>s DEF ClickShape
    <3>2. c = [b EXCEPT !.token = token]
      OBVIOUS
    <3> HIDE DEF b, c
    <3> QED  BY <3>1, <3>2 DEF ClickShape
  <2>4. click' = [click EXCEPT ![k] = c]
    BY <2>1, <1>s
  <2> HIDE DEF c
  <2> QED  BY <2>2, <2>3, <2>4, <1>s, <1>r
<1>5. ASSUME NEW k \in Clicks,
             TokenFails(k) \/ ListActionAnswered(k) \/ TransactionActionAnswered(k)
      PROVE  PanelInv'
  BY <1>5, <1>n DEF TokenFails, ListActionAnswered, TransactionActionAnswered
<1>c. ASSUME NEW k \in Clicks, NEW to \in {"review", "accepted", "already", "failed"},
             click[k].step # "none", click' = [click EXCEPT ![k].step = to]
      PROVE  /\ click' = [j \in Clicks |-> click'[j]]
             /\ \A j \in Clicks : ClickShape(click'[j])
             /\ click'[k].step = to /\ click'[k].item = click[k].item
             /\ \A j \in Clicks : j # k => click'[j] = click[j]
             /\ \A j \in Clicks : click'[j].step # "none" => click'[j].item \in Items
  <2>1. \A j \in Clicks : click'[j] =
          IF j = k THEN [click[k] EXCEPT !.step = to] ELSE click[j]
    BY <1>c, <1>s
  <2>2. click' = [j \in Clicks |-> click'[j]]
    BY <1>c, <1>s
  <2>3. LET c == [click[k] EXCEPT !.step = to]
        IN ClickShape(c) /\ c.step = to /\ c.item = click[k].item
    BY <1>c, <1>s DEF ClickShape
  <2> QED  BY <1>c, <1>s, <2>1, <2>2, <2>3
<1>h. ASSUME NEW r \in Items, Carry(r)
      PROVE  /\ handled' \in [Items -> 0..2] /\ handled'[r] > 0
             /\ \A i \in Items : i # r => handled'[i] = handled[i]
             /\ handled[r] = 0 => handled'[r] = 1
             /\ \A i \in Items : handled[i] > 0 => handled'[i] > 0
  BY <1>h DEF Carry, PanelInv
<1>6. ASSUME NEW k \in Clicks, Mutate(k) PROVE PanelInv'
  <2> DEFINE r == click[k].item
  <2>1. click[k].step = "send" /\ r \in Items
    BY <1>6, <1>s DEF Mutate
  <2>2. ASSUME Unhandled(r, click[k].page), TokenFits(click[k].token), Carry(r),
               mistaken' = mistaken, click' = [click EXCEPT ![k].step = "accepted"]
        PROVE  PanelInv'
    <3>1. handled[r] = 0
      BY <2>2 DEF Unhandled
    <3>2. HandledOnce'
      BY <2>1, <2>2, <3>1, <1>h DEF PanelInv, HandledOnce
    <3>3. \A j \in Clicks : ClickTrue(click[j])'
      BY <2>1, <2>2, <1>c, <1>h, <1>s DEF PanelInv, ClickTrue
    <3> QED  BY <2>1, <2>2, <3>2, <3>3, <1>c, <1>h DEF PanelInv, ActedAsMeant, ClickShape
  <2>3. ASSUME NEW to \in {"review", "already", "failed"},
               to = "review" => PageOf[r] = "verification",
               to = "already" => handled[r] > 0 \/ PageOf[r] # "alerts",
               UNCHANGED <<handled, mistaken>>,
               click' = [click EXCEPT ![k].step = to]
        PROVE  PanelInv'
    <3>1. \A j \in Clicks : ClickTrue(click[j])'
      BY <2>1, <2>3, <1>c DEF PanelInv, ClickTrue
    <3> QED  BY <2>1, <2>3, <3>1, <1>c DEF PanelInv, HandledOnce, ActedAsMeant, ClickShape
  <2>4. handled[r] = 0 \/ handled[r] > 0
    BY <2>1 DEF PanelInv
  <2>5. CASE Authentic /\ TokenFits(click[k].token) /\ Unhandled(r, click[k].page)
             /\ click[k].page # "verification"
    BY <1>6, <2>2, <2>5 DEF Mutate, TokenFits
  <2>6. CASE Authentic /\ TokenFits(click[k].token) /\ Unhandled(r, click[k].page)
             /\ click[k].page = "verification"
    BY <1>6, <2>3, <2>6 DEF Mutate, TokenFits, Unhandled
  <2>7. CASE /\ Authentic /\ TokenFits(click[k].token) /\ click[k].page = "alerts"
             /\ ~Unhandled(r, click[k].page)
    BY <1>6, <2>3, <2>4, <2>7 DEF Mutate, Unhandled
  <2>8. CASE /\ ~(Authentic /\ TokenFits(click[k].token) /\ click[k].page = "alerts")
             /\ ~(Authentic /\ TokenFits(click[k].token)
                    /\ Unhandled(r, click[k].page))
    BY <1>6, <2>3, <2>8 DEF Mutate
  <2> QED  BY <2>5, <2>6, <2>7, <2>8
<1>7. ASSUME NEW k \in Clicks, CommitReview(k) PROVE PanelInv'
  <2> DEFINE r == click[k].item
  <2>1. /\ click[k].step = "review" /\ r \in Items /\ Carry(r)
        /\ click' = [click EXCEPT ![k].step = "accepted"] /\ mistaken' = mistaken
    BY <1>7, <1>s DEF CommitReview
  <2>2. PageOf[r] = "verification"
    BY <2>1 DEF PanelInv, ClickTrue
  <2>3. HandledOnce'
    BY <2>1, <2>2, <1>h DEF PanelInv, HandledOnce
  <2>4. \A j \in Clicks : ClickTrue(click[j])'
    BY <2>1, <1>c, <1>h, <1>s DEF PanelInv, ClickTrue
  <2> QED  BY <2>1, <2>3, <2>4, <1>c, <1>h DEF PanelInv, ActedAsMeant, ClickShape
<1>8. ASSUME NEW n \in Logins, LoginExpires(n) PROVE PanelInv'
  BY <1>8, <1>0 DEF LoginExpires
<1> QED
  BY <1>1, <1>2, <1>3, <1>4, <1>5, <1>6, <1>7, <1>8 DEF PanelNext

(* With any number of tabs, clicks and sign-ins: alerts and payout retries are   *)
(* carried out once, for the session they were meant for, and the tab is told.  *)
THEOREM PanelActionsAreSound == PanelSpec => []ActionsAreSound
<1>1. PanelInit => PanelInv
  BY DEF PanelInit, PanelInv, ClickShape, ClickTrue, NoClick, HandledOnce, ActedAsMeant
<1>2. PanelInv => ActionsAreSound
  BY DEF PanelInv, ClickTrue, ActionsAreSound, HandledOnce, ToldTruly, ActedAsMeant
<1> QED  BY <1>1, <1>2, PanelStep, PTL DEF PanelSpec

(* ------------------------------- Recipients --------------------------------- *)

(* What a call of the service is in the middle of.                             *)
RevisionCall == [step: {"insert", "retire", "cut"}, row: Rows]
LinkCall == [step: {"link"}, row: Rows, payment: Payments]
RetryCall == [step: {"claim"}, row: Rows \union {NoRow}, payment: Payments,
              known: Rows \union {NoRow}]
EditorCall == {Idle} \union RevisionCall \union LinkCall \union RetryCall

CallTypes ==
  /\ call \in [Editors -> EditorCall]
  /\ retryTo \in [Payments -> Rows \union {NoRow}]

LEMMA RevisionIsOne ==
  ASSUME NEW c \in EditorCall, c.step \in {"insert", "retire", "cut"}
  PROVE  c \in RevisionCall /\ c.row \in Rows
  BY DEF EditorCall, RevisionCall, LinkCall, RetryCall, Idle

LEMMA LinkIsOne ==
  ASSUME NEW c \in EditorCall, c.step = "link"
  PROVE  c \in LinkCall /\ c.row \in Rows /\ c.payment \in Payments
  BY DEF EditorCall, RevisionCall, LinkCall, RetryCall, Idle

LEMMA RetryIsOne ==
  ASSUME NEW c \in EditorCall, c.step = "claim"
  PROVE  /\ c \in RetryCall /\ c.payment \in Payments
         /\ c.row \in Rows \union {NoRow} /\ c.known \in Rows \union {NoRow}
  BY DEF EditorCall, RevisionCall, LinkCall, RetryCall, Idle

LEMMA CallTypesStep == CallTypes /\ [BeneficiaryNext]_beneficiaryVars => CallTypes'
<1> SUFFICES ASSUME CallTypes, [BeneficiaryNext]_beneficiaryVars PROVE CallTypes'
  OBVIOUS
<1> USE DEF CallTypes, payoutVars, recordVars
<1>i. Idle \in EditorCall
  BY DEF EditorCall
<1>0. ASSUME UNCHANGED <<call, retryTo>> PROVE CallTypes'
  BY <1>0
<1>1. CASE UNCHANGED beneficiaryVars
  BY <1>1 DEF beneficiaryVars
<1>2. ASSUME NEW e \in Editors,
             InsertRevision(e) \/ RetirePrevious(e) \/ CutRevision(e)
      PROVE  CallTypes'
  <2>1. call[e] \in RevisionCall
    BY <1>2, RevisionIsOne DEF InsertRevision, RetirePrevious, CutRevision
  <2>2. /\ [call[e] EXCEPT !.step = "retire"] \in EditorCall
        /\ [step |-> "cut", row |-> call[e].row] \in EditorCall
    BY <2>1 DEF RevisionCall, EditorCall
  <2> QED  BY <1>2, <1>i, <2>2 DEF InsertRevision, RetirePrevious, CutRevision
<1>3. ASSUME NEW e \in Editors, NEW b \in Rows, StartRevise(e, b) PROVE CallTypes'
  <2>1. [step |-> "insert", row |-> b] \in EditorCall
    BY DEF RevisionCall, EditorCall
  <2> QED  BY <1>3, <2>1 DEF StartRevise
<1>4. ASSUME NEW e \in Editors, NEW t \in Payments, NEW b \in Rows, StartLink(e, t, b)
      PROVE  CallTypes'
  <2>1. [step |-> "link", row |-> b, payment |-> t] \in EditorCall
    BY DEF LinkCall, EditorCall
  <2> QED  BY <1>4, <2>1 DEF StartLink
<1>5. ASSUME NEW e \in Editors, LinkTarget(e) PROVE CallTypes'
  <2>1. call[e].row \in Rows
    BY <1>5, LinkIsOne DEF LinkTarget
  <2> QED  BY <1>5, <1>i, <2>1 DEF LinkTarget
<1>6. ASSUME NEW e \in Editors, NEW t \in Payments, NEW b \in Rows \union {NoRow},
             StartRetry(e, t, b)
      PROVE  CallTypes'
  <2>1. [step |-> "claim", row |-> b, payment |-> t, known |-> retryTo[t]] \in EditorCall
    BY DEF RetryCall, EditorCall
  <2> QED  BY <1>6, <2>1 DEF StartRetry
<1>7. ASSUME NEW e \in Editors, ClaimRetry(e) PROVE CallTypes'
  <2>1. /\ call[e].row \in Rows \union {NoRow}
        /\ call[e].known \in Rows \union {NoRow}
    BY <1>7, RetryIsOne DEF ClaimRetry
  <2> QED  BY <1>7, <1>i, <2>1 DEF ClaimRetry
<1>8. ASSUME \/ \E f \in Families : CreateBeneficiary(f)
             \/ \E t \in Payments : \/ \E b \in Rows : AcceptTransfer(t, b)
                                    \/ ReadTarget(t) \/ PayTarget(t)
      PROVE  CallTypes'
  BY <1>8, <1>0 DEF CreateBeneficiary, AcceptTransfer, ReadTarget, PayTarget
<1> QED
  BY <1>1, <1>2, <1>3, <1>4, <1>5, <1>6, <1>7, <1>8 DEF BeneficiaryNext

(* ..... One current revision .....                                            *)

(* A correction is of a row that is there, and once its successor is there too  *)
(* it has this row to retire.                                                  *)
RevisionInv ==
  /\ CallTypes
  /\ saved \in [Families -> 0..MaxVersion]
  /\ \A e \in Editors :
       /\ call[e].step = "insert" =>
            Exists(call[e].row) /\ call[e].row[2] < MaxVersion
       /\ call[e].step \in {"retire", "cut"} =>
            call[e].row[2] < saved[call[e].row[1]]
  /\ OneCurrentRevision

(* A step that leaves the records and the corrections alone.                   *)
LEMMA RecordsRest ==
  ASSUME RevisionInv, CallTypes', UNCHANGED recordVars,
         \A e \in Editors :
           IF call[e].step \in {"retire", "cut"}
           THEN call'[e].step \in {"retire", "cut"} /\ call'[e].row = call[e].row
           ELSE /\ call'[e].step \notin {"retire", "cut"}
                /\ call'[e].step = "insert" =>
                     \/ call'[e] = call[e]
                     \/ Exists(call'[e].row) /\ call'[e].row[2] < MaxVersion
  PROVE  RevisionInv'
<1>1. UNCHANGED <<saved, current>>
  BY DEF recordVars
<1>2. OneCurrentRevision'
  <2> SUFFICES ASSUME NEW f \in Families, NEW v \in 1..saved'[f]
               PROVE  IF v = saved'[f] THEN <<f, v>> \in current'
                      ELSE <<f, v>> \in current' =>
                        \E e \in Editors : call'[e].step \in {"retire", "cut"}
                                           /\ call'[e].row = <<f, v>>
    BY DEF OneCurrentRevision
  <2>1. v \in 1..saved[f] /\ saved'[f] = saved[f] /\ current' = current
    BY <1>1
  <2>2. IF v = saved[f] THEN <<f, v>> \in current
        ELSE <<f, v>> \in current =>
          \E e \in Editors : call[e].step \in {"retire", "cut"}
                             /\ call[e].row = <<f, v>>
    BY <2>1 DEF RevisionInv, OneCurrentRevision
  <2>3. ASSUME NEW e \in Editors, call[e].step \in {"retire", "cut"},
               call[e].row = <<f, v>>
        PROVE  call'[e].step \in {"retire", "cut"} /\ call'[e].row = <<f, v>>
    BY <2>3
  <2> QED  BY <2>1, <2>2, <2>3
<1>3. \A e \in Editors :
       /\ call'[e].step = "insert" =>
            Exists(call'[e].row) /\ call'[e].row[2] < MaxVersion
       /\ call'[e].step \in {"retire", "cut"} =>
            call'[e].row[2] < saved[call'[e].row[1]]
  BY DEF RevisionInv
<1> QED  BY <1>1, <1>2, <1>3 DEF RevisionInv, Exists

LEMMA RevisionStep ==
  RevisionInv /\ [BeneficiaryNext]_beneficiaryVars => RevisionInv'
<1> SUFFICES ASSUME RevisionInv, [BeneficiaryNext]_beneficiaryVars PROVE RevisionInv'
  OBVIOUS
<1>t. CallTypes /\ CallTypes' /\ call \in [Editors -> EditorCall]
  BY CallTypesStep DEF RevisionInv, CallTypes
<1>i. Idle.step = "idle"
  BY DEF Idle
<1>0. ASSUME UNCHANGED <<recordVars, call>> PROVE RevisionInv'
  BY <1>0, <1>t, RecordsRest
<1>e. ASSUME NEW e \in Editors, NEW c, call' = [call EXCEPT ![e] = c],
             UNCHANGED recordVars, call[e].step \notin {"retire", "cut"},
             c.step \in {"idle", "link", "claim"}
      PROVE  RevisionInv'
  <2>1. \A d \in Editors : call'[d] = IF d = e THEN c ELSE call[d]
    BY <1>e, <1>t
  <2> QED  BY <1>e, <1>t, <2>1, RecordsRest
<1>1. CASE UNCHANGED beneficiaryVars
  BY <1>1, <1>0 DEF beneficiaryVars
<1>2. ASSUME \E t \in Payments : \/ \E b \in Rows : AcceptTransfer(t, b)
                                 \/ ReadTarget(t) \/ PayTarget(t)
      PROVE  RevisionInv'
  BY <1>2, <1>0 DEF AcceptTransfer, ReadTarget, PayTarget
<1>3. ASSUME NEW f \in Families, CreateBeneficiary(f) PROVE RevisionInv'
  <2>1. /\ saved[f] = 0 /\ saved' = [saved EXCEPT ![f] = 1]
        /\ current' = current \union {<<f, 1>>} /\ UNCHANGED call
    BY <1>3 DEF CreateBeneficiary
  <2>2. saved' \in [Families -> 0..MaxVersion]
    BY <2>1, BeneficiaryAssumption DEF RevisionInv
  <2>3. \A g \in Families : saved[g] <= saved'[g] /\ (g # f => saved'[g] = saved[g])
          /\ saved'[f] = 1
    BY <2>1, BeneficiaryAssumption DEF RevisionInv
  <2>4. OneCurrentRevision'
    <3>1. SUFFICES ASSUME NEW g \in Families, NEW v \in 1..saved'[g]
                   PROVE  IF v = saved'[g] THEN <<g, v>> \in current'
                          ELSE <<g, v>> \in current' =>
                            \E d \in Editors : call'[d].step \in {"retire", "cut"}
                                               /\ call'[d].row = <<g, v>>
      BY DEF OneCurrentRevision
    <3>2. CASE g = f
      BY <2>1, <2>3, <3>1, <3>2
    <3>3. CASE g # f
      <4>1. v \in 1..saved[g] /\ saved'[g] = saved[g]
        BY <2>3, <3>1, <3>3
      <4>2. <<g, v>> \in current' <=> <<g, v>> \in current
        BY <2>1, <3>3
      <4> QED  BY <2>1, <4>1, <4>2 DEF RevisionInv, OneCurrentRevision
    <3> QED  BY <3>2, <3>3
  <2>5. \A e \in Editors : call[e].step \in {"insert", "retire", "cut"} =>
          call[e].row \in Rows /\ call[e].row[1] \in Families /\ call[e].row[2] \in Nat
    BY <1>t, RevisionIsOne, BeneficiaryAssumption DEF Rows
  <2>6. \A e \in Editors :
          /\ call[e].step = "insert" =>
               Exists(call[e].row)' /\ call[e].row[2] < MaxVersion
          /\ call[e].step \in {"retire", "cut"} =>
               call[e].row[2] < saved'[call[e].row[1]]
    BY <2>1, <2>3, <2>5, <2>2 DEF RevisionInv, Exists
  <2> QED  BY <1>t, <2>1, <2>2, <2>4, <2>6 DEF RevisionInv, Exists
<1>4. ASSUME NEW e \in Editors, NEW b \in Rows, StartRevise(e, b) PROVE RevisionInv'
  <2> DEFINE c == [step |-> "insert", row |-> b]
  <2>1. /\ call' = [call EXCEPT ![e] = c] /\ UNCHANGED recordVars /\ Exists(b)
        /\ b[2] < MaxVersion /\ call[e].step = "idle"
    BY <1>4, <1>i DEF StartRevise
  <2>2. \A d \in Editors : call'[d] = IF d = e THEN c ELSE call[d]
    BY <2>1, <1>t
  <2> QED  BY <2>1, <2>2, <1>t, RecordsRest
<1>5. ASSUME NEW e \in Editors, InsertRevision(e) PROVE RevisionInv'
  <2> DEFINE b == call[e].row
  <2>1. /\ call[e].step = "insert" /\ call[e] \in RevisionCall /\ b \in Rows
        /\ Exists(b) /\ b[2] < MaxVersion
    BY <1>5, <1>t, RevisionIsOne DEF InsertRevision, RevisionInv
  <2>2. CASE Exists(Successor(b))
    BY <1>5, <2>1, <2>2, <1>e, <1>i DEF InsertRevision
  <2>3. CASE ~Exists(Successor(b))
    <3>1. /\ saved' = [saved EXCEPT ![b[1]] = b[2] + 1]
          /\ current' = current \union {Successor(b)}
          /\ call' = [call EXCEPT ![e] = [call[e] EXCEPT !.step = "retire"]]
      BY <1>5, <2>3 DEF InsertRevision
    <3>2. b[1] \in Families /\ b[2] \in Nat /\ b = <<b[1], b[2]>>
      BY <2>1, BeneficiaryAssumption DEF Rows
    <3>3. saved[b[1]] = b[2]
      BY <2>1, <2>3, <3>2 DEF Exists, Successor, RevisionInv
    <3>4. /\ call'[e].step = "retire" /\ call'[e].row = b
          /\ \A d \in Editors : d # e => call'[d] = call[d]
      BY <2>1, <3>1, <1>t DEF RevisionCall
    <3>5. /\ saved' \in [Families -> 0..MaxVersion]
          /\ saved'[b[1]] = b[2] + 1
          /\ \A g \in Families : g # b[1] => saved'[g] = saved[g]
      BY <2>1, <3>1, <3>2, BeneficiaryAssumption DEF RevisionInv
    <3>6. Successor(b) = <<b[1], b[2] + 1>>
      BY DEF Successor
    <3> HIDE DEF b
    <3>0. ASSUME NEW g \in Families, NEW v \in 1..saved[g]
          PROVE  IF v = saved[g] THEN <<g, v>> \in current
                 ELSE <<g, v>> \in current =>
                   \E d \in Editors : call'[d].step \in {"retire", "cut"}
                                      /\ call'[d].row = <<g, v>>
      <4>1. CASE v = saved[g]
        BY <4>1 DEF RevisionInv, OneCurrentRevision
      <4>2. ASSUME v # saved[g], <<g, v>> \in current
            PROVE  \E d \in Editors : call'[d].step \in {"retire", "cut"}
                                      /\ call'[d].row = <<g, v>>
        <5>1. PICK d \in Editors : call[d].step \in {"retire", "cut"}
                                   /\ call[d].row = <<g, v>>
          BY <4>2 DEF RevisionInv, OneCurrentRevision
        <5>2. call'[d] = call[d]
          BY <2>1, <3>4, <5>1
        <5> QED  BY <5>1, <5>2
      <4> QED  BY <4>1, <4>2
    <3>7. OneCurrentRevision'
      <4>1. SUFFICES ASSUME NEW g \in Families, NEW v \in 1..saved'[g]
                     PROVE  IF v = saved'[g] THEN <<g, v>> \in current'
                            ELSE <<g, v>> \in current' =>
                              \E d \in Editors : call'[d].step \in {"retire", "cut"}
                                                 /\ call'[d].row = <<g, v>>
        BY DEF OneCurrentRevision
      <4>2. CASE g # b[1]
        <5>1. v \in 1..saved[g] /\ saved'[g] = saved[g]
          BY <3>5, <4>1, <4>2
        <5>2. <<g, v>> \in current' <=> <<g, v>> \in current
          BY <3>1, <3>6, <4>2
        <5> QED  BY <3>0, <5>1, <5>2
      <4>3. CASE g = b[1] /\ v = b[2] + 1
        BY <3>1, <3>5, <3>6, <4>3
      <4>4. CASE g = b[1] /\ v = b[2]
        BY <3>2, <3>4, <3>5, <4>4
      <4>5. CASE g = b[1] /\ v < b[2]
        <5>1. v \in 1..saved[g] /\ v # saved[g] /\ v # saved'[g]
          BY <3>2, <3>3, <3>5, <4>1, <4>5
        <5>2. <<g, v>> \in current' <=> <<g, v>> \in current
          BY <3>1, <3>2, <3>6, <4>5
        <5> QED  BY <3>0, <5>1, <5>2
      <4>6. g = b[1] => v \in 1..(b[2] + 1)
        BY <3>5, <4>1
      <4> QED  BY <3>2, <4>2, <4>3, <4>4, <4>5, <4>6
    <3>8. \A d \in Editors : call[d].step \in {"insert", "retire", "cut"} =>
            call[d].row[1] \in Families /\ call[d].row[2] \in Nat
      BY <1>t, RevisionIsOne, BeneficiaryAssumption DEF Rows
    <3>9. \A g \in Families : saved[g] <= saved'[g]
      BY <3>2, <3>3, <3>5 DEF RevisionInv
    <3>10. \A d \in Editors :
            /\ (call[d].step = "insert")' =>
                 Exists(call[d].row)' /\ (call[d].row[2] < MaxVersion)'
            /\ (call[d].step \in {"retire", "cut"})' =>
                 (call[d].row[2] < saved[call[d].row[1]])'
      <4>1. SUFFICES ASSUME NEW d \in Editors, d # e
                     PROVE  /\ call[d].step = "insert" =>
                                 /\ call[d].row[2] <= saved'[call[d].row[1]]
                                 /\ call[d].row[2] < MaxVersion
                            /\ call[d].step \in {"retire", "cut"} =>
                                 call[d].row[2] < saved'[call[d].row[1]]
        BY <3>2, <3>4, <3>5 DEF Exists
      <4>2. \A f \in Families : saved[f] \in Nat /\ saved'[f] \in Nat
        BY <3>5, BeneficiaryAssumption DEF RevisionInv
      <4> QED  BY <3>8, <3>9, <4>2 DEF RevisionInv, Exists
    <3> QED  BY <1>t, <3>5, <3>7, <3>10 DEF RevisionInv
  <2> QED  BY <2>2, <2>3
<1>6. ASSUME NEW e \in Editors, RetirePrevious(e) PROVE RevisionInv'
  <2>1. /\ call[e].step = "retire" /\ current' = current \ {call[e].row}
        /\ call' = [call EXCEPT ![e] = Idle] /\ UNCHANGED saved
    BY <1>6 DEF RetirePrevious
  <2>2. \A d \in Editors : call'[d] = IF d = e THEN Idle ELSE call[d]
    BY <2>1, <1>t
  <2>3. call[e].row[2] < saved[call[e].row[1]]
    BY <2>1 DEF RevisionInv
  <2>4. \A f \in Families : <<f, saved[f]>> # call[e].row
    <3>1. SUFFICES ASSUME NEW f \in Families, <<f, saved[f]>> = call[e].row PROVE FALSE
      OBVIOUS
    <3>2. call[e].row[1] = f /\ call[e].row[2] = saved[f]
      BY <3>1
    <3>3. saved[f] \in Nat
      BY BeneficiaryAssumption DEF RevisionInv
    <3> QED  BY <2>3, <3>2, <3>3
  <2>5. OneCurrentRevision'
    <3>1. SUFFICES ASSUME NEW g \in Families, NEW v \in 1..saved[g]
                   PROVE  IF v = saved[g] THEN <<g, v>> \in current'
                          ELSE <<g, v>> \in current' =>
                            \E d \in Editors : call'[d].step \in {"retire", "cut"}
                                               /\ call'[d].row = <<g, v>>
      BY <2>1 DEF OneCurrentRevision
    <3>2. CASE v = saved[g]
      BY <2>1, <2>4, <3>2 DEF RevisionInv, OneCurrentRevision
    <3>3. ASSUME v # saved[g], <<g, v>> \in current'
          PROVE  \E d \in Editors : call'[d].step \in {"retire", "cut"}
                                    /\ call'[d].row = <<g, v>>
      <4>1. <<g, v>> \in current /\ <<g, v>> # call[e].row
        BY <2>1, <3>3
      <4>2. PICK d \in Editors : call[d].step \in {"retire", "cut"}
                                 /\ call[d].row = <<g, v>>
        BY <3>3, <4>1 DEF RevisionInv, OneCurrentRevision
      <4> QED  BY <2>2, <4>1, <4>2
    <3> QED  BY <3>2, <3>3
  <2> QED  BY <1>i, <1>t, <2>1, <2>2, <2>5 DEF RevisionInv, Exists
<1>7. ASSUME NEW e \in Editors, CutRevision(e) PROVE RevisionInv'
  <2>1. /\ call[e].step = "retire" /\ UNCHANGED recordVars
        /\ call' = [call EXCEPT ![e] = [step |-> "cut", row |-> call[e].row]]
    BY <1>7 DEF CutRevision
  <2>2. \A d \in Editors : call'[d] =
          IF d = e THEN [step |-> "cut", row |-> call[e].row] ELSE call[d]
    BY <2>1, <1>t
  <2> QED  BY <2>1, <2>2, <1>t, RecordsRest
<1>8. ASSUME NEW e \in Editors, NEW t \in Payments, NEW b, StartLink(e, t, b)
      PROVE  RevisionInv'
  BY <1>8, <1>e, <1>i DEF StartLink
<1>9. ASSUME NEW e \in Editors, NEW t \in Payments, NEW b, StartRetry(e, t, b)
      PROVE  RevisionInv'
  BY <1>9, <1>e, <1>i DEF StartRetry
<1>10. ASSUME NEW e \in Editors, LinkTarget(e) \/ ClaimRetry(e) PROVE RevisionInv'
  BY <1>10, <1>e, <1>i DEF LinkTarget, ClaimRetry
<1> QED
  BY <1>1, <1>2, <1>3, <1>4, <1>5, <1>6, <1>7, <1>8, <1>9, <1>10 DEF BeneficiaryNext

LEMMA RevisionStarts == BeneficiaryInit => RevisionInv
  BY BeneficiaryAssumption DEF BeneficiaryInit, RevisionInv, CallTypes, EditorCall, Idle,
     OneCurrentRevision

(* Whatever corrections race, the newest revision of a family is current, and   *)
(* an older one only while, or because, its replacement was not finished.       *)
THEOREM RevisionsAreCurrent == BeneficiarySpec => []OneCurrentRevision
<1>1. RevisionInv => OneCurrentRevision
  BY DEF RevisionInv
<1> QED  BY <1>1, RevisionStarts, RevisionStep, PTL DEF BeneficiarySpec

(* ..... Whom a payout pays .....                                              *)

(* A recipient of the sender, if it is one at all.                             *)
Fits(b, t) == b # NoRow => Owner[b[1]] = Payer[t]

(* Every recipient in play belongs to the sender; a queued payout has the target *)
(* it was queued with, unless a late link overtook it.                         *)
TargetInv ==
  /\ CallTypes
  /\ {chosen, agreed, paying} \subseteq [Payments -> Rows \union {NoRow}]
  /\ DOMAIN overtaken = Payments /\ DOMAIN payout = Payments
  /\ \A t \in Payments :
       /\ Fits(chosen[t], t) /\ Fits(retryTo[t], t) /\ Fits(paying[t], t)
       /\ payout[t] = "NONE" => retryTo[t] = NoRow
       /\ payout[t] = "PENDING_PAYOUT" => Target(t) = agreed[t] \/ overtaken[t]
       /\ paying[t] # NoRow =>
            payout[t] = "PENDING_PAYOUT" /\ (paying[t] = agreed[t] \/ overtaken[t])
  /\ \A e \in Editors :
       /\ call[e].step = "link" =>
            Fits(call[e].row, call[e].payment) /\ payout[call[e].payment] # "NONE"
       /\ call[e].step = "claim" => Fits(call[e].known, call[e].payment)

LEMMA TargetStep == TargetInv /\ [BeneficiaryNext]_beneficiaryVars => TargetInv'
<1> SUFFICES ASSUME TargetInv, [BeneficiaryNext]_beneficiaryVars PROVE TargetInv'
  OBVIOUS
<1> USE DEF payoutVars, recordVars
<1>t. CallTypes /\ CallTypes' /\ call \in [Editors -> EditorCall]
  BY CallTypesStep DEF TargetInv, CallTypes
<1>i. Idle.step = "idle"
  BY DEF Idle
<1>p. /\ chosen \in [Payments -> Rows \union {NoRow}]
      /\ agreed \in [Payments -> Rows \union {NoRow}]
      /\ paying \in [Payments -> Rows \union {NoRow}]
      /\ retryTo \in [Payments -> Rows \union {NoRow}]
      /\ DOMAIN overtaken = Payments /\ DOMAIN payout = Payments
  BY <1>t DEF TargetInv, CallTypes
<1>e. ASSUME NEW e \in Editors, NEW c, call' = [call EXCEPT ![e] = c],
             UNCHANGED payoutVars,
             c.step = "link" => Fits(c.row, c.payment) /\ payout[c.payment] # "NONE",
             c.step = "claim" => Fits(c.known, c.payment)
      PROVE  TargetInv'
  <2>1. \A d \in Editors : call'[d] = IF d = e THEN c ELSE call[d]
    BY <1>e, <1>t
  <2> QED  BY <1>e, <1>t, <2>1 DEF TargetInv, Target, Fits
<1>1. CASE UNCHANGED <<call, payoutVars>>
  BY <1>1, <1>t DEF TargetInv, Target
<1>2. CASE \/ UNCHANGED beneficiaryVars
           \/ \E f \in Families : CreateBeneficiary(f)
  BY <1>1, <1>2 DEF beneficiaryVars, CreateBeneficiary
<1>3. ASSUME NEW e \in Editors,
             \/ \E b \in Rows : StartRevise(e, b)
             \/ InsertRevision(e) \/ RetirePrevious(e) \/ CutRevision(e)
      PROVE  TargetInv'
  <2>1. UNCHANGED payoutVars
    BY <1>3 DEF StartRevise, InsertRevision, RetirePrevious, CutRevision
  <2>2. call[e].step = "insert" => [call[e] EXCEPT !.step = "retire"].step = "retire"
    BY <1>t, RevisionIsOne DEF RevisionCall
  <2>3. PICK c : call' = [call EXCEPT ![e] = c] /\ c.step \notin {"link", "claim"}
    BY <1>3, <1>i, <2>2 DEF StartRevise, InsertRevision, RetirePrevious, CutRevision
  <2> QED  BY <2>1, <2>3, <1>e
<1>4. ASSUME NEW e \in Editors, NEW t \in Payments, NEW b \in Rows, StartLink(e, t, b)
      PROVE  TargetInv'
  <2> DEFINE c == [step |-> "link", row |-> b, payment |-> t]
  <2>1. c.step = "link" /\ Fits(c.row, c.payment) /\ payout[c.payment] # "NONE"
    BY <1>4 DEF StartLink, Selectable, Fits
  <2>2. call' = [call EXCEPT ![e] = c] /\ UNCHANGED payoutVars
    BY <1>4 DEF StartLink
  <2> HIDE DEF c
  <2> QED  BY <2>1, <2>2, <1>e
<1>5. ASSUME NEW e \in Editors, NEW t \in Payments, NEW b, StartRetry(e, t, b)
      PROVE  TargetInv'
  <2> DEFINE c == [step |-> "claim", row |-> b, payment |-> t, known |-> retryTo[t]]
  <2>1. c.step = "claim" /\ Fits(c.known, c.payment)
    BY DEF TargetInv
  <2>2. call' = [call EXCEPT ![e] = c] /\ UNCHANGED payoutVars
    BY <1>5 DEF StartRetry
  <2> HIDE DEF c
  <2> QED  BY <2>1, <2>2, <1>e
<1>6. ASSUME NEW e \in Editors, LinkTarget(e) PROVE TargetInv'
  <2> DEFINE p == call[e].payment
             b == call[e].row
  <2>1. p \in Payments /\ b \in Rows /\ Fits(b, p) /\ payout[p] # "NONE"
    BY <1>6, <1>t, LinkIsOne DEF LinkTarget, TargetInv
  <2>2. /\ retryTo' = [retryTo EXCEPT ![p] = b]
        /\ overtaken' = [overtaken EXCEPT ![p] = @ \/ payout[p] # "PAYOUT_FAILED"]
        /\ call' = [call EXCEPT ![e] = Idle]
        /\ UNCHANGED <<chosen, payout, agreed, paying>>
    BY <1>6 DEF LinkTarget
  <2> HIDE DEF p, b
  <2>3. \A d \in Editors : call'[d] = IF d = e THEN Idle ELSE call[d]
    BY <2>2, <1>t
  <2>4. \A t \in Payments : retryTo'[t] = IF t = p THEN b ELSE retryTo[t]
    BY <2>2, <1>p
  <2>5. /\ DOMAIN overtaken' = Payments
        /\ \A t \in Payments : t # p => overtaken'[t] = overtaken[t]
        /\ overtaken'[p] = (overtaken[p] \/ payout[p] # "PAYOUT_FAILED")
    BY <2>1, <2>2, <1>p
  <2>6. \A t \in Payments : payout[t] = "PENDING_PAYOUT" /\ t = p => overtaken'[t]
    BY <2>5
  <2>7. \A t \in Payments : payout[t] = "PENDING_PAYOUT" =>
          Target(t)' = agreed[t] \/ overtaken'[t]
    BY <2>2, <2>4, <2>5, <2>6 DEF TargetInv, Target
  <2>8. \A t \in Payments : paying[t] # NoRow => payout[t] = "PENDING_PAYOUT"
          /\ (paying[t] = agreed[t] \/ overtaken'[t])
    BY <2>5, <2>6 DEF TargetInv
  <2>9. \A d \in Editors :
          /\ call'[d].step = "link" =>
               Fits(call'[d].row, call'[d].payment) /\ payout[call'[d].payment] # "NONE"
          /\ call'[d].step = "claim" => Fits(call'[d].known, call'[d].payment)
    BY <2>3, <1>i DEF TargetInv
  <2>10. \A t \in Payments : Fits(retryTo'[t], t)
          /\ (payout[t] = "NONE" => retryTo'[t] = NoRow)
    BY <2>1, <2>4 DEF TargetInv
  <2> QED  BY <1>t, <2>2, <2>5, <2>7, <2>8, <2>9, <2>10 DEF TargetInv, Fits
<1>7. ASSUME NEW e \in Editors, ClaimRetry(e) PROVE TargetInv'
  <2> DEFINE p == call[e].payment
             to == IF call[e].row # NoRow THEN call[e].row ELSE call[e].known
  <2>1. /\ p \in Payments /\ to \in Rows \union {NoRow}
        /\ Fits(call[e].known, p)
    BY <1>7, <1>t, RetryIsOne DEF ClaimRetry, TargetInv
  <2>2. CASE UNCHANGED <<payout, retryTo, agreed, overtaken>>
    BY <1>7, <1>e, <1>i, <2>2 DEF ClaimRetry
  <2>3. CASE /\ payout[p] = "PAYOUT_FAILED"
             /\ call[e].row # NoRow => Selectable(call[e].row, p)
             /\ payout' = [payout EXCEPT ![p] = "PENDING_PAYOUT"]
             /\ retryTo' = [retryTo EXCEPT ![p] = to]
             /\ agreed' = [agreed EXCEPT ![p] = IF to # NoRow THEN to ELSE chosen[p]]
             /\ overtaken' = [overtaken EXCEPT ![p] = FALSE]
    <3>1. call' = [call EXCEPT ![e] = Idle] /\ UNCHANGED <<chosen, paying>>
      BY <1>7 DEF ClaimRetry
    <3>2. Fits(to, p)
      BY <2>1, <2>3 DEF Selectable, Fits
    <3>3. \A d \in Editors : call'[d] = IF d = e THEN Idle ELSE call[d]
      BY <3>1, <1>t
    <3> HIDE DEF p, to
    <3>4. /\ \A t \in Payments : t # p =>
               /\ payout'[t] = payout[t] /\ retryTo'[t] = retryTo[t]
               /\ agreed'[t] = agreed[t] /\ overtaken'[t] = overtaken[t]
          /\ payout'[p] = "PENDING_PAYOUT" /\ retryTo'[p] = to
          /\ agreed'[p] = IF to # NoRow THEN to ELSE chosen[p]
          /\ DOMAIN overtaken' = Payments /\ DOMAIN payout' = Payments
          /\ agreed' \in [Payments -> Rows \union {NoRow}]
      BY <2>1, <2>3, <1>p
    <3>5. paying[p] = NoRow
      BY <2>1, <2>3 DEF TargetInv
    <3>6. \A t \in Payments :
            /\ Fits(retryTo'[t], t)
            /\ payout'[t] = "NONE" => retryTo'[t] = NoRow
            /\ paying[t] # NoRow =>
                 payout'[t] = "PENDING_PAYOUT" /\ (paying[t] = agreed'[t] \/ overtaken'[t])
      BY <3>2, <3>4, <3>5 DEF TargetInv
    <3>7. \A t \in Payments : payout'[t] = "PENDING_PAYOUT" =>
            Target(t)' = agreed'[t] \/ overtaken'[t]
      BY <3>1, <3>4 DEF TargetInv, Target
    <3>8. \A d \in Editors : call'[d].step \in {"link", "claim"} => call'[d] = call[d]
      BY <3>3, <1>i
    <3>9. \A d \in Editors : call[d].step = "link" => payout'[call[d].payment] # "NONE"
      BY <3>4, <1>t, LinkIsOne DEF TargetInv
    <3>10. \A d \in Editors :
            /\ call'[d].step = "link" =>
                 Fits(call'[d].row, call'[d].payment) /\ payout'[call'[d].payment] # "NONE"
            /\ call'[d].step = "claim" => Fits(call'[d].known, call'[d].payment)
      BY <3>8, <3>9 DEF TargetInv
    <3> QED  BY <1>t, <1>p, <3>1, <3>4, <3>6, <3>7, <3>10 DEF TargetInv, Fits
  <2> QED  BY <1>7, <2>2, <2>3 DEF ClaimRetry
<1>8. ASSUME NEW t \in Payments, NEW b \in Rows, AcceptTransfer(t, b) PROVE TargetInv'
  <2>1. /\ payout[t] = "NONE" /\ Fits(b, t)
        /\ chosen' = [chosen EXCEPT ![t] = b] /\ agreed' = [agreed EXCEPT ![t] = b]
        /\ payout' = [payout EXCEPT ![t] = "PENDING_PAYOUT"]
        /\ UNCHANGED <<call, retryTo, overtaken, paying>>
    BY <1>8 DEF AcceptTransfer, Selectable, Fits
  <2>2. retryTo[t] = NoRow /\ paying[t] = NoRow
    BY <2>1 DEF TargetInv
  <2>3. /\ chosen' \in [Payments -> Rows \union {NoRow}] /\ chosen'[t] = b
        /\ agreed' \in [Payments -> Rows \union {NoRow}] /\ agreed'[t] = b
        /\ DOMAIN payout' = Payments /\ payout'[t] = "PENDING_PAYOUT"
        /\ \A u \in Payments : u # t =>
             chosen'[u] = chosen[u] /\ agreed'[u] = agreed[u] /\ payout'[u] = payout[u]
    BY <2>1, <1>p
  <2>4. \A u \in Payments :
          /\ Fits(chosen'[u], u)
          /\ payout'[u] = "NONE" => retryTo[u] = NoRow
          /\ paying[u] # NoRow =>
               payout'[u] = "PENDING_PAYOUT" /\ (paying[u] = agreed'[u] \/ overtaken[u])
    BY <2>1, <2>2, <2>3 DEF TargetInv
  <2>5. \A u \in Payments : payout'[u] = "PENDING_PAYOUT" =>
          Target(u)' = agreed'[u] \/ overtaken[u]
    BY <2>1, <2>2, <2>3 DEF TargetInv, Target
  <2>6. \A d \in Editors : call[d].step = "link" => payout'[call[d].payment] # "NONE"
    BY <2>1, <2>3, <1>t, LinkIsOne DEF TargetInv
  <2> QED  BY <1>t, <1>p, <2>1, <2>3, <2>4, <2>5, <2>6 DEF TargetInv, Fits
<1>9. ASSUME NEW t \in Payments, ReadTarget(t) PROVE TargetInv'
  <2>1. /\ payout[t] = "PENDING_PAYOUT" /\ paying' = [paying EXCEPT ![t] = Target(t)]
        /\ UNCHANGED <<call, chosen, retryTo, payout, agreed, overtaken>>
    BY <1>9 DEF ReadTarget
  <2>2. /\ Target(t) \in Rows \union {NoRow} /\ Fits(Target(t), t)
        /\ Target(t) = agreed[t] \/ overtaken[t]
    BY <2>1, <1>p DEF TargetInv, Target
  <2>3. /\ paying' \in [Payments -> Rows \union {NoRow}]
        /\ \A u \in Payments : paying'[u] = IF u = t THEN Target(t) ELSE paying[u]
    BY <2>1, <2>2, <1>p
  <2>4. \A u \in Payments :
          /\ Fits(paying'[u], u)
          /\ paying'[u] # NoRow =>
               payout[u] = "PENDING_PAYOUT" /\ (paying'[u] = agreed[u] \/ overtaken[u])
    BY <2>1, <2>2, <2>3 DEF TargetInv
  <2> QED  BY <1>t, <2>1, <2>3, <2>4 DEF TargetInv, Fits, Target
<1>10. ASSUME NEW t \in Payments, PayTarget(t) PROVE TargetInv'
  <2>1. PICK outcome \in {"PAYOUT_SUCCESS", "PAYOUT_FAILED"} :
          payout' = [payout EXCEPT ![t] = outcome]
    BY <1>10 DEF PayTarget
  <2>2. paying' = [paying EXCEPT ![t] = NoRow]
        /\ UNCHANGED <<call, chosen, retryTo, agreed, overtaken>>
    BY <1>10 DEF PayTarget
  <2>3. /\ paying' \in [Payments -> Rows \union {NoRow}] /\ DOMAIN payout' = Payments
        /\ \A u \in Payments :
             /\ paying'[u] = IF u = t THEN NoRow ELSE paying[u]
             /\ payout'[u] = IF u = t THEN outcome ELSE payout[u]
    BY <2>1, <2>2, <1>p
  <2>4. \A u \in Payments :
          /\ Fits(paying'[u], u) /\ (payout'[u] = "NONE" => retryTo[u] = NoRow)
          /\ payout'[u] = "PENDING_PAYOUT" => Target(u) = agreed[u] \/ overtaken[u]
          /\ paying'[u] # NoRow =>
               payout'[u] = "PENDING_PAYOUT" /\ (paying'[u] = agreed[u] \/ overtaken[u])
    BY <2>3 DEF TargetInv, Fits
  <2>5. \A d \in Editors : call[d].step = "link" => payout'[call[d].payment] # "NONE"
    BY <2>3, <1>t, LinkIsOne DEF TargetInv
  <2> QED  BY <1>t, <2>2, <2>3, <2>4, <2>5 DEF TargetInv, Fits, Target
<1> QED
  BY <1>2, <1>3, <1>4, <1>5, <1>6, <1>7, <1>8, <1>9, <1>10 DEF BeneficiaryNext

(* However links, corrections and retries interleave, the partner is told to    *)
(* pay the target that was agreed, a recipient of the sender, but for a link    *)
(* that came after a retry it had not seen.                                    *)
THEOREM PayoutsGoAsAgreed == BeneficiarySpec => []PaidAsAgreed
<1>1. BeneficiaryInit => TargetInv
  BY DEF BeneficiaryInit, TargetInv, CallTypes, EditorCall, Idle, Fits
<1>2. TargetInv => PaidAsAgreed
  BY DEF TargetInv, PaidAsAgreed, Fits
<1> QED  BY <1>1, <1>2, TargetStep, PTL DEF BeneficiarySpec

(* ------------------------------ Side by side -------------------------------- *)

LEMMA ThrottleTypesStep ==
  ASSUME ThrottleInv, ThrottleTypeOK, [ThrottleNext]_throttleVars
  PROVE  ThrottleTypeOK'
<1>1. ThrottleInv'
  BY ThrottleStep
<1>2. clock' \in 1..(MaxClock + 1)
  BY ThrottleAssumption DEF ThrottleTypeOK, ThrottleNext, throttleVars, Tick, Receive,
     LockBucket, OpenWindow, Count, Refuse, Abort, Redeliver
<1> QED  BY <1>1, <1>2 DEF ThrottleInv, ThrottleTypeOK

(* Every variable of the recipients; what their calls are in the middle of is   *)
(* CallTypes.                                                                  *)
RecipientTypes ==
  /\ saved \in [Families -> 0..MaxVersion] /\ current \subseteq Rows
  /\ chosen \in [Payments -> Rows \union {NoRow}]
  /\ agreed \in [Payments -> Rows \union {NoRow}]
  /\ paying \in [Payments -> Rows \union {NoRow}]
  /\ payout \in
       [Payments -> {"NONE", "PENDING_PAYOUT", "PAYOUT_FAILED", "PAYOUT_SUCCESS"}]
  /\ overtaken \in [Payments -> BOOLEAN]

LEMMA RecipientTypesStep ==
  ASSUME RevisionInv, RecipientTypes, [BeneficiaryNext]_beneficiaryVars
  PROVE  RecipientTypes'
<1> USE DEF recordVars, payoutVars, RecipientTypes
<1>t. /\ CallTypes /\ call \in [Editors -> EditorCall]
      /\ retryTo \in [Payments -> Rows \union {NoRow}]
  BY DEF RevisionInv, CallTypes
<1>1. CASE UNCHANGED <<recordVars, payoutVars>>
  BY <1>1
<1>2. CASE UNCHANGED beneficiaryVars
  BY <1>2 DEF beneficiaryVars
<1>3. ASSUME NEW f \in Families, CreateBeneficiary(f) PROVE RecipientTypes'
  BY <1>3, BeneficiaryAssumption DEF CreateBeneficiary, Rows
<1>4. ASSUME NEW e \in Editors, InsertRevision(e) PROVE RecipientTypes'
  <2> DEFINE b == call[e].row
  <2>1. b \in Rows /\ b[2] < MaxVersion
    BY <1>4, <1>t, RevisionIsOne DEF InsertRevision, RevisionInv
  <2>2. b[1] \in Families /\ b[2] + 1 \in 1..MaxVersion /\ Successor(b) \in Rows
    BY <2>1, BeneficiaryAssumption DEF Rows, Successor
  <2>3. /\ UNCHANGED payoutVars
        /\ \/ UNCHANGED recordVars
           \/ saved' = [saved EXCEPT ![b[1]] = b[2] + 1]
              /\ current' = current \union {Successor(b)}
    BY <1>4 DEF InsertRevision
  <2> HIDE DEF b
  <2> QED  BY <2>2, <2>3, BeneficiaryAssumption
<1>5. ASSUME NEW e \in Editors,
             \/ \E b \in Rows : StartRevise(e, b)
             \/ RetirePrevious(e) \/ CutRevision(e)
             \/ \E t \in Payments, b \in Rows : StartLink(e, t, b)
             \/ \E t \in Payments, b \in Rows \union {NoRow} : StartRetry(e, t, b)
      PROVE  RecipientTypes'
  BY <1>5 DEF StartRevise, RetirePrevious, CutRevision, StartLink, StartRetry
<1>6. ASSUME NEW e \in Editors, LinkTarget(e) PROVE RecipientTypes'
  <2>1. call[e].payment \in Payments
    BY <1>6, <1>t, LinkIsOne DEF LinkTarget
  <2> QED  BY <1>6, <2>1 DEF LinkTarget
<1>7. ASSUME NEW e \in Editors, ClaimRetry(e) PROVE RecipientTypes'
  <2>1. /\ call[e].payment \in Payments /\ call[e].row \in Rows \union {NoRow}
        /\ call[e].known \in Rows \union {NoRow}
    BY <1>7, <1>t, RetryIsOne DEF ClaimRetry
  <2> QED  BY <1>7, <2>1 DEF ClaimRetry
<1>8. ASSUME NEW t \in Payments, NEW b \in Rows, AcceptTransfer(t, b)
      PROVE  RecipientTypes'
  BY <1>8 DEF AcceptTransfer
<1>9. ASSUME NEW t \in Payments, ReadTarget(t) \/ PayTarget(t) PROVE RecipientTypes'
  BY <1>9, <1>t DEF ReadTarget, PayTarget, Target
<1> QED
  BY <1>2, <1>3, <1>4, <1>5, <1>6, <1>7, <1>8, <1>9 DEF BeneficiaryNext

(* What a tab shows, and an action in progress.                                *)
ViewType ==
  [rows: {Nothing} \union Lists \union {"transaction"}, loading: BOOLEAN,
   csrf: 0..MaxLogins, failed: BOOLEAN]
TabType ==
  [step: {"login", "in", "leaving"}, page: Pages, view: ViewType, token: 0..MaxLogins]
OpenClick ==
  [step: {"token", "send", "review", "accepted", "already", "failed"}, tab: Tabs,
   item: Items, page: Pages, token: 0..MaxLogins, seen: BOOLEAN]
ClickType == {NoClick} \union OpenClick

PanelTypes ==
  /\ cookie \in 0..MaxLogins
  /\ logged \in [Logins -> {"none", "live", "closed"}]
  /\ tab \in [Tabs -> TabType]
  /\ loads \in [Tabs -> SUBSET Pages]
  /\ click \in [Clicks -> ClickType]
  /\ handled \in [Items -> 0..2] /\ mistaken \subseteq Items

(* The changes the handlers make to what a tab shows, and to an action.         *)
LEMMA TabChanges ==
  ASSUME NEW v \in TabType
  PROVE  /\ v.step \in {"login", "in", "leaving"} /\ v.page \in Pages
         /\ v.view \in ViewType /\ v.view.csrf \in 0..MaxLogins
         /\ \A s \in {"login", "in", "leaving"}, n \in 0..MaxLogins :
              /\ [v EXCEPT !.step = s] \in TabType
              /\ [v EXCEPT !.step = s, !.token = n] \in TabType
         /\ \A w \in ViewType, p \in Pages :
              /\ [v EXCEPT !.view = w] \in TabType
              /\ [v EXCEPT !.page = p, !.view = w] \in TabType
  BY DEF TabType, ViewType

LEMMA ViewChanges ==
  ASSUME NEW w \in ViewType
  PROVE  /\ \A l \in BOOLEAN : [w EXCEPT !.loading = l] \in ViewType
         /\ \A n \in 0..MaxLogins : [w EXCEPT !.csrf = n] \in ViewType
         /\ \A f \in BOOLEAN : [w EXCEPT !.failed = f] \in ViewType
         /\ \A r \in {Nothing} \union Lists \union {"transaction"} :
              [w EXCEPT !.rows = r] \in ViewType
         /\ w.rows \in {Nothing} \union Lists \union {"transaction"}
         /\ w.failed \in BOOLEAN
  BY DEF ViewType

LEMMA RowsArrive ==
  ASSUME NEW v \in TabType,
         NEW r \in {Nothing} \union Lists \union {"transaction"}, NEW f \in BOOLEAN
  PROVE  /\ [v EXCEPT !.view.rows = r, !.view.loading = FALSE] \in TabType
         /\ [v EXCEPT !.view.rows = r, !.view.loading = FALSE, !.view.failed = f]
              \in TabType
<1> DEFINE a == [v EXCEPT !.view.rows = r]
           b == [a EXCEPT !.view.loading = FALSE]
<1>1. a \in TabType
  BY DEF TabType, ViewType
<1>2. b \in TabType
  <2> HIDE DEF a
  <2> QED  BY <1>1 DEF TabType, ViewType
<1>3. [b EXCEPT !.view.failed = f] \in TabType
  <2> HIDE DEF b
  <2> QED  BY <1>2 DEF TabType, ViewType
<1> QED  BY <1>2, <1>3

LEMMA ClickChanges ==
  ASSUME NEW c \in OpenClick
  PROVE  /\ c.tab \in Tabs /\ c.item \in Items /\ c.page \in Pages
         /\ c.token \in 0..MaxLogins /\ c.seen \in BOOLEAN
         /\ \A s \in {"review", "accepted", "already", "failed"} :
              [c EXCEPT !.step = s] \in ClickType
         /\ \A n \in 0..MaxLogins :
              [c EXCEPT !.step = "send", !.token = n] \in ClickType
         /\ [c EXCEPT !.seen = FALSE] \in ClickType
  BY DEF OpenClick, ClickType

LEMMA PanelTypesStep ==
  ASSUME PanelTypes, [PanelNext]_panelVars
  PROVE  PanelTypes'
<1> USE DEF PanelTypes, SetTab
<1>o. ASSUME NEW k \in Clicks, click[k].step # "none"
      PROVE  click[k] \in OpenClick
  BY <1>o DEF ClickType, NoClick
<1>n. /\ \A n \in Logins : n \in 0..MaxLogins
      /\ 0 \in 0..MaxLogins /\ NoClick \in ClickType
      /\ "home" \in Pages /\ Lists \subseteq Pages /\ "transaction" \in Pages
  BY PanelAssumption DEF Logins, Pages, ClickType
<1>t. Fresh \in ViewType /\ Out \in TabType
  BY <1>n DEF Out, Fresh, ViewType, TabType
<1>f. ASSUME NEW t \in Tabs
      PROVE  Forget(t) \in [Clicks -> ClickType]
  <2>1. ASSUME NEW k \in Clicks, click[k] # NoClick
        PROVE  [click[k] EXCEPT !.seen = FALSE] \in ClickType
    BY <2>1, ClickChanges DEF ClickType
  <2> QED  BY <2>1 DEF Forget
<1>1. CASE UNCHANGED panelVars
  BY <1>1 DEF panelVars
<1>2. ASSUME NEW t \in Tabs, SubmitLogin(t) PROVE PanelTypes'
  BY <1>2, <1>n DEF SubmitLogin
<1>3. ASSUME NEW t \in Tabs, LoadSession(t) \/ StartSignOut(t) PROVE PanelTypes'
  <2>1. PICK v \in TabType : tab' = [tab EXCEPT ![t] = v]
    BY <1>3, <1>t, TabChanges DEF LoadSession, StartSignOut
  <2> QED  BY <1>3, <2>1 DEF LoadSession, StartSignOut
<1>4. ASSUME NEW t \in Tabs, SignOut(t) PROVE PanelTypes'
  <2>1. PICK v \in TabType : tab' = [tab EXCEPT ![t] = v]
    BY <1>4, <1>t, TabChanges DEF SignOut
  <2>2. logged' \in [Logins -> {"none", "live", "closed"}] /\ cookie' \in 0..MaxLogins
    BY <1>4, <1>n DEF SignOut
  <2>3. loads' \in [Tabs -> SUBSET Pages] /\ click' \in [Clicks -> ClickType]
    BY <1>4, <1>f DEF SignOut
  <2> QED  BY <1>4, <2>1, <2>2, <2>3 DEF SignOut
<1>5. ASSUME NEW t \in Tabs, NEW p \in Pages, Navigate(t, p) PROVE PanelTypes'
  <2> DEFINE kept == tab[t].page \in Lists /\ p \in Lists
             view == IF kept THEN tab[t].view ELSE Fresh
             shown == [view EXCEPT !.loading = p # "home"]
  <2>1. shown \in ViewType
    BY <1>t, TabChanges, ViewChanges
  <2>2. PICK v \in TabType : tab' = [tab EXCEPT ![t] = v]
    <3>1. tab' = [tab EXCEPT ![t] = [tab[t] EXCEPT !.page = p, !.view = shown]]
      BY <1>5 DEF Navigate
    <3> HIDE DEF shown
    <3> QED  BY <2>1, <3>1, TabChanges
  <2>3. loads' \in [Tabs -> SUBSET Pages] /\ click' \in [Clicks -> ClickType]
    BY <1>5, <1>f DEF Navigate
  <2> QED  BY <1>5, <2>2, <2>3 DEF Navigate
<1>6. ASSUME NEW t \in Tabs,
             (\E p \in Pages : ListArrives(t, p)) \/ TransactionArrives(t)
      PROVE  PanelTypes'
  <2>1. \A r \in Lists \union {"transaction"}, f \in BOOLEAN :
          LET now == IF Authentic THEN r ELSE tab[t].view.rows
          IN /\ [tab[t] EXCEPT !.view.rows = now, !.view.loading = FALSE] \in TabType
             /\ [tab[t] EXCEPT !.view.rows = now, !.view.loading = FALSE,
                               !.view.failed = f] \in TabType
    BY RowsArrive, TabChanges, ViewChanges
  <2>3. PICK v \in TabType : tab' = [tab EXCEPT ![t] = v]
    <3>1. CASE \E p \in Pages : ListArrives(t, p)
      BY <3>1, <2>1 DEF ListArrives
    <3>2. CASE TransactionArrives(t)
      <4>1. tab' = [tab EXCEPT ![t] =
              [tab[t] EXCEPT
                 !.view.rows = IF Authentic THEN "transaction" ELSE tab[t].view.rows,
                 !.view.loading = FALSE,
                 !.view.failed = tab[t].view.failed \/ ~Authentic]]
        BY <3>2 DEF TransactionArrives
      <4>2. (tab[t].view.failed \/ ~Authentic) \in BOOLEAN
        OBVIOUS
      <4> QED  BY <4>1, <4>2, <2>1
    <3> QED  BY <1>6, <3>1, <3>2
  <2>4. /\ UNCHANGED <<cookie, logged, click, handled, mistaken>>
        /\ loads' \in [Tabs -> SUBSET Pages]
    BY <1>6 DEF ListArrives, TransactionArrives
  <2> QED  BY <2>3, <2>4
<1>8. ASSUME NEW t \in Tabs, NEW k \in Clicks, NEW r \in Items,
             PressOnRow(t, k, r) \/ PressOnTransaction(t, k, r)
      PROVE  PanelTypes'
  <2>1. [step |-> "token", tab |-> t, item |-> r, page |-> tab[t].page,
         token |-> tab[t].view.csrf, seen |-> TRUE] \in ClickType
    BY TabChanges DEF OpenClick, ClickType
  <2>2. /\ click' = [click EXCEPT ![k] =
             [step |-> "token", tab |-> t, item |-> r, page |-> tab[t].page,
              token |-> tab[t].view.csrf, seen |-> TRUE]]
        /\ UNCHANGED <<cookie, logged, tab, loads, handled, mistaken>>
    BY <1>8 DEF PressOnRow, PressOnTransaction, Clicked
  <2> QED  BY <2>1, <2>2
<1>v. ASSUME NEW t \in Tabs
      PROVE  /\ \A n \in 0..MaxLogins : [tab[t] EXCEPT !.view.csrf = n] \in TabType
             /\ [tab[t] EXCEPT !.view.failed = TRUE] \in TabType
             /\ [tab[t] EXCEPT !.view.loading = TRUE] \in TabType
  <2>1. PICK v \in TabType : v = tab[t]
    OBVIOUS
  <2>2. \A n \in 0..MaxLogins :
          [v EXCEPT !.view = [v.view EXCEPT !.csrf = n]] \in TabType
    BY TabChanges, ViewChanges
  <2>3. /\ [v EXCEPT !.view = [v.view EXCEPT !.failed = TRUE]] \in TabType
        /\ [v EXCEPT !.view = [v.view EXCEPT !.loading = TRUE]] \in TabType
    BY TabChanges, ViewChanges
  <2> QED  BY <2>1, <2>2, <2>3
<1>9. ASSUME NEW k \in Clicks, FetchToken(k) PROVE PanelTypes'
  <2>1. click[k] \in OpenClick
    BY <1>9, <1>o DEF FetchToken
  <2>2. PICK n \in 0..MaxLogins :
          /\ click' = [click EXCEPT ![k].step = "send", ![k].token = n]
          /\ \/ UNCHANGED tab
             \/ tab' = [tab EXCEPT ![click[k].tab] =
                          [tab[click[k].tab] EXCEPT !.view.csrf = n]]
    BY <1>9, <2>1, ClickChanges DEF FetchToken
  <2>3. click' = [click EXCEPT ![k] = [click[k] EXCEPT !.step = "send", !.token = n]]
    BY <2>2
  <2>4. click' \in [Clicks -> ClickType]
    BY <2>1, <2>3, ClickChanges
  <2>5. tab' \in [Tabs -> TabType]
    <3>1. PICK t \in Tabs : t = click[k].tab
      BY <2>1, ClickChanges
    <3>2. [tab[t] EXCEPT !.view.csrf = n] \in TabType
      BY <1>v
    <3> QED  BY <2>2, <3>1, <3>2
  <2> QED  BY <1>9, <2>4, <2>5 DEF FetchToken
<1>h. ASSUME NEW r \in Items, Carry(r) PROVE handled' \in [Items -> 0..2]
  BY <1>h DEF Carry
<1>10. ASSUME NEW k \in Clicks, Mutate(k) \/ CommitReview(k) PROVE PanelTypes'
  <2>1. click[k] \in OpenClick /\ click[k].item \in Items
    BY <1>10, <1>o, ClickChanges DEF Mutate, CommitReview
  <2>2. PICK s \in {"review", "accepted", "already", "failed"} :
          click' = [click EXCEPT ![k] = [click[k] EXCEPT !.step = s]]
    BY <1>10 DEF Mutate, CommitReview
  <2>3. click' \in [Clicks -> ClickType]
    BY <2>1, <2>2, ClickChanges
  <2>4. handled' \in [Items -> 0..2] /\ mistaken' \subseteq Items
    BY <1>10, <1>h, <2>1 DEF Mutate, CommitReview
  <2> QED  BY <1>10, <2>3, <2>4 DEF Mutate, CommitReview
<1>12. ASSUME NEW k \in Clicks,
              ListActionAnswered(k) \/ TransactionActionAnswered(k) \/ TokenFails(k)
       PROVE  PanelTypes'
  <2>1. /\ click[k] \in OpenClick /\ click[k].tab \in Tabs
        /\ click[k].page \in Pages
    BY <1>12, <1>o, ClickChanges
       DEF ListActionAnswered, TransactionActionAnswered, TokenFails
  <2>2. click' \in [Clicks -> ClickType]
    BY <1>12, <1>n DEF ListActionAnswered, TransactionActionAnswered, TokenFails
  <2>3. loads' \in [Tabs -> SUBSET Pages]
    BY <1>12, <2>1 DEF ListActionAnswered, TransactionActionAnswered, TokenFails
  <2>4. \/ UNCHANGED tab
        \/ \E v \in TabType : tab' = [tab EXCEPT ![click[k].tab] = v]
    BY <1>12, <1>v, <2>1 DEF ListActionAnswered, TransactionActionAnswered, TokenFails
  <2> QED
    BY <1>12, <2>2, <2>3, <2>4
       DEF ListActionAnswered, TransactionActionAnswered, TokenFails
<1>13. ASSUME NEW n \in Logins, LoginExpires(n) PROVE PanelTypes'
  BY <1>13 DEF LoginExpires
<1> QED
  BY <1>1, <1>2, <1>3, <1>4, <1>5, <1>6, <1>8, <1>9, <1>10, <1>12, <1>13 DEF PanelNext

(* A behaviour of the composition is one of each part, so every part keeps its  *)
(* types.                                                                      *)
THEOREM SideBySideType == SideSpec => []SideTypeOK
<1> DEFINE Throttle == ThrottleInv /\ ThrottleTypeOK
           Recipients == RevisionInv /\ RecipientTypes
           Inv == Recipients /\ Throttle /\ AccessTypes /\ PanelTypes
<1>1. SideInit => Inv
  <2>1. ThrottleInit => Throttle
    BY ThrottleStarts, ThrottleAssumption DEF ThrottleInit, ThrottleTypeOK, NoBucket
  <2>2. BeneficiaryInit => Recipients
    BY RevisionStarts, BeneficiaryAssumption DEF BeneficiaryInit, RecipientTypes
  <2>3. PanelInit => PanelTypes
    BY PanelAssumption DEF PanelInit, PanelTypes, TabType, ViewType, ClickType, Out,
       Fresh, Pages, Logins
  <2> QED  BY <2>1, <2>2, <2>3, AccessTypesStart DEF SideInit
<1>2. Inv /\ [SideNext /\ UNCHANGED acting]_sideVars => Inv'
  <2> SUFFICES ASSUME Inv, [SideNext /\ UNCHANGED acting]_sideVars
               PROVE  Inv'
    OBVIOUS
  <2>1. /\ [BeneficiaryNext]_beneficiaryVars /\ [ThrottleNext]_throttleVars
        /\ [AccessNext]_accessVars /\ [PanelNext]_panelVars
    BY DEF SideNext, sideVars
  <2> QED
    BY <2>1, RevisionStep, RecipientTypesStep, ThrottleStep, ThrottleTypesStep,
       AccessTypesStep, PanelTypesStep
<1>3. Inv => SideTypeOK
  <2>1. Recipients => BeneficiaryTypeOK
    BY DEF RevisionInv, RecipientTypes, BeneficiaryTypeOK, CallTypes, EditorCall,
       RevisionCall, LinkCall, RetryCall, Idle
  <2>2. PanelTypes => PanelTypeOK
    BY DEF PanelTypes, PanelTypeOK, TabType, ViewType, ClickType, OpenClick, NoClick
  <2> QED  BY <2>1, <2>2 DEF SideTypeOK, AccessTypes
<1> QED  BY <1>1, <1>2, <1>3, PTL DEF SideSpec
=============================================================================
