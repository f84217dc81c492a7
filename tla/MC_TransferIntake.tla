-------------------------- MODULE MC_TransferIntake --------------------------
(* Finite instances of TransferIntake for TLC: what requests and messages are   *)
(* about.                                                                       *)
EXTENDS TransferIntake, TLC

CONSTANTS c1, c2, r1, r2, r3, m1, m2, m3, m4

CallerSymmetry == Permutations(Callers)

(* One chat that sends twice.                                                  *)
OneChat == [r \in Requests |-> c1]
OneChatMessages == [m \in Messages |-> c1]
OneSender == [c \in Chats |-> "s1"]
OwnKeys == [r \in Requests |-> r]
Six == [r \in Requests |-> 6]
OpenConsentCancel ==
  [m \in Messages |-> CASE m = m1 -> "START" [] m = m3 -> "CANCEL"
                        [] OTHER -> "CONSENT"]

(* Two chats: r1 and r2 of the first, r2 tried again as r3 through the second.  *)
TwoChats == [r \in Requests |-> IF r = r3 THEN c2 ELSE c1]
TwoChatMessages == [m \in Messages |-> IF m = m3 THEN c2 ELSE c1]
TwoSenders == [c \in Chats |-> IF c = c1 THEN "s1" ELSE "s2"]
SharedKey == [r \in Requests |-> IF r = r1 THEN "k1" ELSE "k2"]
Uneven == [r \in Requests |-> IF r = r1 THEN 6 ELSE IF r = r2 THEN 5 ELSE 4]
Consents == [m \in Messages |-> "CONSENT"]
=============================================================================
