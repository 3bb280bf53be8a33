-------------------------------- MODULE Plans --------------------------------
(***************************************************************************)
(* The plans a workspace can be on (server/plans.ts): prices in rand, and  *)
(* the limits on songs and members.                                        *)
(***************************************************************************)
EXTENDS Integers

PLAN_ORDER == <<"free", "starter", "professional", "label", "enterprise">>

PlanIds == {PLAN_ORDER[i] : i \in 1 .. 5}
Intervals == {"monthly", "annual"}

Unlimited == -1
Unpriced == -1     \* enterprise: prices are agreed with a person

Monthly ==
  [p \in PlanIds |->
     CASE p = "free" -> 0 [] p = "starter" -> 89 [] p = "professional" -> 249
       [] p = "label" -> 699 [] OTHER -> Unpriced]

MaxSongs ==
  [p \in PlanIds |->
     CASE p = "free" -> 5 [] p = "starter" -> 25 [] OTHER -> Unlimited]

MaxTeamMembers ==
  [p \in PlanIds |->
     CASE p \in {"free", "starter"} -> 1 [] p = "professional" -> 3
       [] p = "label" -> 10 [] OTHER -> Unlimited]

(* A year less 17 percent, rounded half up to a multiple of ten rand.      *)
annualPrice(monthly) == (((monthly * 12 * 83) + 500) \div 1000) * 10

priceFor(p, i) ==
  IF Monthly[p] = Unpriced THEN Unpriced
  ELSE IF i = "annual" THEN annualPrice(Monthly[p]) ELSE Monthly[p]

(* Free has nothing to charge and enterprise is arranged by a person.      *)
SelfServe == PlanIds \ {"free", "enterprise"}

(* The plan the dashboard offers next, and none after the last.            *)
nextPlan(p) ==
  LET above == {i \in 1 .. 4 : PLAN_ORDER[i] = p}
  IN  {PLAN_ORDER[i + 1] : i \in above}
=============================================================================
