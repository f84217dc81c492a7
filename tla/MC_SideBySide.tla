--------------------------- MODULE MC_SideBySide ---------------------------
(* Finite instances for TLC of four parts that share no state: saved recipients, *)
(* the ingress throttle, admin access and the admin panel. Each behaviour lets  *)
(* one of them act and the others rest. Challenges of different people do not    *)
(* meet, so one person gets them all. The panel acts in two ways: two tabs and   *)
(* one action at a time, or one sign-in, one tab and two actions.               *)
EXTENDS Beneficiaries, IngressThrottle, AdminAccess, AdminPanel, TLC

CONSTANTS f1, f2, t1, v1, v2, alert, case, transfer

(* Two families of one sender and corridor, one revision in another currency.   *)
FamilyOwner == [f \in Families |-> "u"]
TransferPayer == [t \in Payments |-> "u"]
OtherCurrency == {<<f1, 2>>}

PageOfItem ==
  (alert :> "alerts") @@ (case :> "verification") @@ (transfer :> "transaction")

(* The second tab only signs in and out.                                        *)
TabVisits == [t \in Tabs |-> IF t = v1 THEN Pages ELSE {"home"}]

VARIABLE acting  \* the part that acts

sideVars == <<acting, beneficiaryVars, throttleVars, accessVars, panelVars>>

OneClick == Cardinality({k \in Clicks : click'[k] # NoClick}) <= 1
OneKeyOwner == challenge'[2].who \in {Nobody, challenge'[1].who}
OneTab == tab'[v2] = Out /\ logged'[2] = "none"

SideInit ==
  /\ acting \in {"recipients", "throttle", "access", "tabs", "clicks"}
  /\ BeneficiaryInit /\ ThrottleInit /\ AccessInit /\ PanelInit

SideNext ==
  \/ /\ acting = "recipients" /\ BeneficiaryNext
     /\ UNCHANGED <<throttleVars, accessVars, panelVars>>
  \/ /\ acting = "throttle" /\ ThrottleNext
     /\ UNCHANGED <<beneficiaryVars, accessVars, panelVars>>
  \/ /\ acting = "access" /\ AccessNext /\ OneKeyOwner
     /\ UNCHANGED <<beneficiaryVars, throttleVars, panelVars>>
  \/ /\ acting = "tabs" /\ PanelNext /\ OneClick
     /\ UNCHANGED <<beneficiaryVars, throttleVars, accessVars>>
  \/ /\ acting = "clicks" /\ PanelNext /\ OneTab
     /\ UNCHANGED <<beneficiaryVars, throttleVars, accessVars>>

SideSpec == SideInit /\ [][SideNext /\ UNCHANGED acting]_sideVars

(* Actions of the panel in progress are interchangeable.                        *)
SideSymmetry == Permutations(Clicks)

(* Every variable of the four keeps its type.                                  *)
SideTypeOK == BeneficiaryTypeOK /\ ThrottleTypeOK /\ AccessTypeOK /\ PanelTypeOK
=============================================================================
