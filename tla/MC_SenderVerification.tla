------------------------ MODULE MC_SenderVerification ------------------------
(* A finite instance of SenderVerification for TLC: two cases of one sender, one *)
(* for the number the sender has and one for a new number, and a case of another *)
(* sender for that same new number.                                            *)
EXTENDS SenderVerification, TLC

CONSTANTS s1, s2, c1, c2, c3, ann, ben

CallerSymmetry == Permutations(Callers)

CaseProfile == [c \in Cases |-> IF c = c3 THEN s2 ELSE s1]
CasePhone == [c \in Cases |-> IF c = c1 THEN "old" ELSE "new"]
CaseCollector == [c \in Cases |-> IF c = c3 THEN Nobody ELSE ann]
OwnPhone == [s \in Profiles |-> IF s = s1 THEN "old" ELSE "other"]
=============================================================================
