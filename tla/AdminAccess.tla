----------------------------- MODULE AdminAccess -----------------------------
(* Who may act on the admin API. Staff sign in with a TOTP code, a hardware key  *)
(* or the break-glass secret and get a session; every request looks its session *)
(* up, then reads the identity again, and the service reads it once more before *)
(* it acts. Logins, requests, blocks and logouts run side by side, each await   *)
(* between them a point where another one may step in.                         *)
EXTENDS Naturals, FiniteSets

CONSTANTS
  Staff,
  Admins,         \* staff with the ADMIN role; the others are OPS
  Keyed,          \* staff whose hardware key is registered at the start
  Handlers,       \* HTTP calls in progress at the same time
  MaxSessions,    \* bound on the sessions of a run
  MaxChallenges   \* bound on its WebAuthn challenges, numbered by createdAt

ASSUME AccessAssumption ==
  /\ Admins \subseteq Staff /\ Keyed \subseteq Staff
  /\ MaxSessions \in Nat /\ MaxChallenges \in Nat

Sessions == 1..MaxSessions
Challenges == 1..MaxChallenges
Nobody == "nobody"

VARIABLES
  barred,     \* identities with blockedAt
  verified,   \* identities with mfaVerifiedAt
  session,    \* AdminSession by number: whose, its state, the challenge behind it
  challenge,  \* WebAuthnChallenge: whose, for which ceremony, whether it is there
  counter,    \* HardwareKeyCredential.counter, 0 when no key is registered
  handler,    \* what each call is in the middle of
  dated       \* calls whose session or identity was closed after they began

accessVars ==
  <<barred, verified, session, challenge, counter, handler, dated>>

NoSession == [who |-> Nobody, state |-> "none", proof |-> 0]
NoChallenge == [who |-> Nobody, ceremony |-> "none", state |-> "none"]
Done == [step |-> "done"]

AccessInit ==
  /\ barred = {} /\ verified = {}
  /\ session = [s \in Sessions |-> NoSession]
  /\ challenge = [c \in Challenges |-> NoChallenge]
  /\ counter = [i \in Staff |-> IF i \in Keyed THEN 1 ELSE 0]
  /\ handler = [h \in Handlers |-> Done]
  /\ dated = {}

Goto(h, call) == handler' = [handler EXCEPT ![h] = call]
Free(h) == handler[h] = Done
Live(s) == session[s].state = "live"

(* The counter in the answer to a challenge: a key answers those of its owner    *)
(* in their order.                                                             *)
Signed(c) == c + 1

(* The calls in progress that an identity or a session has let in.             *)
CallsOf(i) == {h \in Handlers : ~Free(h) /\ handler[h].who = i}
CallsIn(s) ==
  {h \in Handlers : handler[h].step \in {"actor", "authorize", "perform"}
                    /\ handler[h].in = s}

(* ------------------------------- Signing in -------------------------------- *)

(* A correct code of an identity that is not blocked when it is read.          *)
StartLogin(h, i) ==
  /\ Free(h) /\ i \notin barred
  /\ Goto(h, [step |-> "open", who |-> i, proof |-> 0])
  /\ dated' = dated \ {h}
  /\ UNCHANGED <<barred, verified, session, challenge, counter>>

(* Break glass takes blocked administrators too.                               *)
StartBreakGlass(h, i) ==
  /\ Free(h) /\ i \in Admins
  /\ verified' = verified \union {i}
  /\ Goto(h, [step |-> "open", who |-> i, proof |-> 0])
  /\ dated' = dated \ {h}
  /\ UNCHANGED <<barred, session, challenge, counter>>

(* The session and the date of the factor in one transaction.                  *)
CreateSession(h) ==
  /\ handler[h].step = "open"
  /\ \E s \in Sessions :
       /\ session[s] = NoSession /\ \A r \in 1..(s - 1) : session[r] # NoSession
       /\ session' = [session EXCEPT ![s] =
            [who |-> handler[h].who, state |-> "live", proof |-> handler[h].proof]]
  /\ verified' = verified \union {handler[h].who}
  /\ Goto(h, Done)
  /\ UNCHANGED <<barred, challenge, counter, dated>>

(* ------------------------------ Hardware keys ------------------------------ *)

SaveChallenge(i, ceremony) ==
  \E c \in Challenges :
    /\ challenge[c] = NoChallenge
    /\ \A b \in 1..(c - 1) : challenge[b] # NoChallenge
    /\ challenge' = [challenge EXCEPT ![c] =
         [who |-> i, ceremony |-> ceremony, state |-> "kept"]]

AuthenticationOptions(i) ==
  /\ counter[i] > 0
  /\ SaveChallenge(i, "authentication")
  /\ UNCHANGED <<barred, verified, session, counter, handler, dated>>

(* The newest one that is kept for the ceremony, whichever was answered. They    *)
(* expire in their order, so an expired newest one is no challenge at all, and  *)
(* the call ends as if it had not come.                                        *)
Newest(i, ceremony) ==
  LET kept == {c \in Challenges : challenge[c] =
                 [who |-> i, ceremony |-> ceremony, state |-> "kept"]}
  IN {c \in kept : \A b \in kept : b <= c}

FindChallenge(h, i, ceremony, answer) ==
  \E c \in Newest(i, ceremony) :
    Goto(h, [step |-> "consume", who |-> i, ceremony |-> ceremony,
             found |-> c, answer |-> answer])

(* A login with the answer to some challenge arrives, perhaps for a second time. *)
StartKeyLogin(h, c) ==
  /\ Free(h) /\ challenge[c].ceremony = "authentication"
  /\ FindChallenge(h, challenge[c].who, "authentication", c)
  /\ dated' = dated \ {h}
  /\ UNCHANGED <<barred, verified, session, challenge, counter>>

(* Mutant of ConsumeChallenge: a challenge already deleted is no error.         *)
ConsumeAgain(h) ==
  /\ handler[h].step = "consume"
  /\ challenge' = [challenge EXCEPT ![handler[h].found].state = "used"]
  /\ Goto(h, [handler[h] EXCEPT !.step = "check"])
  /\ UNCHANGED <<barred, verified, session, counter, dated>>

(* Deleting the row found before; when another call did, this one throws.       *)
ConsumeChallenge(h) ==
  /\ handler[h].step = "consume"
  /\ LET c == handler[h].found
     IN IF challenge[c].state = "used"
        THEN Goto(h, Done) /\ UNCHANGED challenge
        ELSE /\ challenge' = [challenge EXCEPT ![c].state = "used"]
             /\ Goto(h, [handler[h] EXCEPT !.step = "check"])
  /\ UNCHANGED <<barred, verified, session, counter, dated>>

(* The answer is to this challenge and counts further than the key on record.   *)
CheckAssertion(h) ==
  LET c == handler[h].answer
  IN /\ handler[h].step = "check" /\ handler[h].ceremony = "authentication"
     /\ Goto(h, IF c = handler[h].found /\ Signed(c) > counter[handler[h].who]
                THEN [handler[h] EXCEPT !.step = "count"]
                ELSE Done)
     /\ UNCHANGED <<barred, verified, session, challenge, counter, dated>>

(* Written by id: a slower ceremony may put an older counter back.             *)
StoreCounter(h) ==
  /\ handler[h].step = "count"
  /\ counter' = [counter EXCEPT ![handler[h].who] = Signed(handler[h].answer)]
  /\ Goto(h, [handler[h] EXCEPT !.step = "signin"])
  /\ UNCHANGED <<barred, verified, session, challenge, dated>>

KeyLogin(h) ==
  LET i == handler[h].who
  IN /\ handler[h].step = "signin"
     /\ Goto(h, IF i \in barred THEN Done
                ELSE [step |-> "open", who |-> i, proof |-> handler[h].answer])
     /\ UNCHANGED <<barred, verified, session, challenge, counter, dated>>

(* One key per identity is followed; excludeCredentials keeps it from being     *)
(* registered twice.                                                           *)
StoreKey(h) ==
  LET i == handler[h].who  c == handler[h].answer
  IN /\ handler[h].step = "check" /\ handler[h].ceremony = "registration"
     /\ counter' = [counter EXCEPT ![i] =
          IF c = handler[h].found /\ @ = 0 THEN Signed(c) ELSE @]
     /\ Goto(h, Done)
     /\ UNCHANGED <<barred, verified, session, challenge, dated>>

(* ---------------------------- Requests in a session ------------------------ *)

(* actorFromSession: the session is there, not revoked and not expired.         *)
FindSession(h, s) ==
  /\ Free(h) /\ Live(s)
  /\ Goto(h, [step |-> "actor", who |-> session[s].who, in |-> s])
  /\ dated' = dated \ {h}
  /\ UNCHANGED <<barred, verified, session, challenge, counter>>

(* Mutant of MayAct: only the session is asked, not the identity.              *)
MayActInSession(i) == i \in verified

MayAct(i) == i \notin barred /\ i \in verified

(* requireActor for the request, then again for the role of the operation.      *)
RequireActor(h) ==
  /\ handler[h].step \in {"actor", "authorize"}
  /\ Goto(h, IF ~MayAct(handler[h].who) THEN Done
             ELSE [handler[h] EXCEPT !.step =
                     IF @ = "actor" THEN "authorize" ELSE "perform"])
  /\ UNCHANGED <<barred, verified, session, challenge, counter, dated>>

(* An administrator blocks or unblocks anyone, also himself. Sessions are left  *)
(* as they are.                                                                *)
SetUserBlocked(h, i) ==
  /\ handler[h].step = "perform" /\ handler[h].who \in Admins
  /\ Goto(h, Done)
  /\ \/ /\ barred' = barred \union {i}
        /\ dated' = dated \union (CallsOf(i) \ {h})
     \/ barred' = barred \ {i} /\ UNCHANGED dated
  /\ UNCHANGED <<verified, session, challenge, counter>>

(* Any other operation of the service.                                         *)
Perform(h) ==
  /\ handler[h].step = "perform"
  /\ Goto(h, Done)
  /\ UNCHANGED <<barred, verified, session, challenge, counter, dated>>

(* Registering a key asks for the actor once, not for a role.                  *)
RegistrationOptions(h) ==
  /\ handler[h].step = "authorize"
  /\ SaveChallenge(handler[h].who, "registration")
  /\ Goto(h, Done)
  /\ UNCHANGED <<barred, verified, session, counter, dated>>

VerifyRegistration(h, c) ==
  /\ handler[h].step = "authorize"
  /\ [challenge[c] EXCEPT !.state = "kept"] =
       [who |-> handler[h].who, ceremony |-> "registration", state |-> "kept"]
  /\ FindChallenge(h, handler[h].who, "registration", c)
  /\ UNCHANGED <<barred, verified, session, challenge, counter, dated>>

(* logoutSession and revokeSession: a session is revoked once, live or expired. *)
Logout(s) ==
  /\ session[s].state \in {"live", "expired"}
  /\ session' = [session EXCEPT ![s].state = "revoked"]
  /\ dated' = dated \union CallsIn(s)
  /\ UNCHANGED <<barred, verified, challenge, counter, handler>>

SessionExpires(s) ==
  /\ Live(s)
  /\ session' = [session EXCEPT ![s].state = "expired"]
  /\ dated' = dated \union CallsIn(s)
  /\ UNCHANGED <<barred, verified, challenge, counter, handler>>

(* A query or the process fails: the call ends, what it wrote stays.           *)
CallFails(h) ==
  /\ ~Free(h)
  /\ Goto(h, Done)
  /\ UNCHANGED <<barred, verified, session, challenge, counter, dated>>

AccessNext ==
  \/ \E h \in Handlers :
       \/ \E i \in Staff : StartLogin(h, i) \/ StartBreakGlass(h, i)
                           \/ SetUserBlocked(h, i)
       \/ \E c \in Challenges : StartKeyLogin(h, c) \/ VerifyRegistration(h, c)
       \/ \E s \in Sessions : FindSession(h, s)
       \/ CreateSession(h) \/ KeyLogin(h)
       \/ ConsumeChallenge(h) \/ CheckAssertion(h) \/ StoreCounter(h) \/ StoreKey(h)
       \/ RequireActor(h) \/ Perform(h) \/ RegistrationOptions(h) \/ CallFails(h)
  \/ \E i \in Staff : AuthenticationOptions(i)
  \/ \E s \in Sessions : Logout(s) \/ SessionExpires(s)

AccessSpec == AccessInit /\ [][AccessNext]_accessVars

(* ------------------------------ Properties --------------------------------- *)

(* Every variable keeps its type.                                              *)
AccessTypeOK ==
  /\ barred \subseteq Staff /\ verified \subseteq Staff
  /\ session \in [Sessions ->
       [who: Staff \union {Nobody},
        state: {"none", "live", "expired", "revoked"},
        proof: {0} \union Challenges]]
  /\ challenge \in [Challenges ->
       [who: Staff \union {Nobody},
        ceremony: {"none", "authentication", "registration"},
        state: {"none", "kept", "used"}]]
  /\ counter \in [Staff -> Nat]
  /\ \A h \in Handlers : handler[h].step \in
       {"done", "open", "consume", "check", "count", "signin",
        "actor", "authorize", "perform"}
  /\ dated \subseteq Handlers

(* However often the answer to a challenge is delivered, and whichever calls    *)
(* race for it, it opens at most one session, the one of its own identity.      *)
OneLoginPerAnswer ==
  \A r, s \in Sessions :
    /\ session[r].proof # 0 => session[r].who = challenge[session[r].proof].who
    /\ session[r].proof # 0 /\ session[r].proof = session[s].proof => r = s

(* Nobody acts through a session that was logged out or ran out, and nobody      *)
(* who is blocked acts at all, whatever sessions they still have or open while  *)
(* blocked; only a call that had begun before may still finish.                *)
ClosedOutStaysOut ==
  \A h \in Handlers :
    handler[h].step = "perform" =>
      (handler[h].who \notin barred /\ Live(handler[h].in)) \/ h \in dated
=============================================================================
