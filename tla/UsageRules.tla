------------------------------ MODULE UsageRules ------------------------------
(***************************************************************************)
(* The UsageLedger (coordinator/src/domain/usage.ts), which keeps the      *)
(* latest usage snapshot of each model, and the CostBudgetPolicy built on  *)
(* it (coordinator/src/coordinator.ts).  Both are values here: a usage     *)
(* ledger is a function from models to snapshots, a budget is a record of  *)
(* the policy's fields.                                                    *)
(*                                                                         *)
(* A snapshot records its model, the amount spent, whether its pricing is  *)
(* "known", affirmatively "unknown" or "absent" (not settled yet), the     *)
(* final flag, and whether it is keyed by a provider-qualified modelKey    *)
(* (OpenCode) rather than by model name (Claude).  Amounts are whole units *)
(* of money; token counts and the rounding of messages are not modelled.   *)
(***************************************************************************)
EXTENDS Integers, Functions

CONSTANTS
  Models,    \* the models a run may report usage for
  BudgetUsd  \* run.limits.budgetUsd, in whole units

ASSUME BudgetAssumption == BudgetUsd \in Nat \ {0}

Usage == [model : Models, amount : Nat, source : {"known", "unknown", "absent"},
          final : BOOLEAN, keyed : BOOLEAN]

(* No snapshot: the entry of a model not reported yet. *)
NoUsage == [model |-> "none", amount |-> 0, source |-> "absent",
            final |-> FALSE, keyed |-> FALSE]

EmptyLedger == [m \in Models |-> NoUsage]

(* Keyed snapshots always replace; legacy ones never let a partial replace a *)
(* final.                                                                    *)
Replaces(previous, u) == u.keyed \/ previous = NoUsage \/ u.final \/ ~previous.final

Record(byModel, u) ==
  IF Replaces(byModel[u.model], u) THEN [byModel EXCEPT ![u.model] = u] ELSE byModel

CostOf(u) == IF u.source = "known" THEN u.amount ELSE 0

TotalCost(byModel) == FoldFunction(+, 0, [m \in Models |-> CostOf(byModel[m])])

HasKnownCost(byModel) == \E m \in Models : byModel[m].source = "known"
-------------------------------------------------------------------------------
(* Percentage of the budget at which each notice is due. *)
Threshold == [info |-> 50, warning |-> 75, critical |-> 90, exhausted |-> 100]

Levels == DOMAIN Threshold

(* Notices also include the one-time "COST BUDGET INACTIVE" warning. *)
Notices == Levels \cup {"inactive"}

HardLimitPercent == 115

Reaches(total, percent) == 100 * total >= percent * BudgetUsd

Level(total) ==
  LET reached == {l \in Levels : Reaches(total, Threshold[l])}
  IN  IF reached = {} THEN "none"
      ELSE CHOOSE l \in reached : \A k \in reached : Threshold[k] <= Threshold[l]

NewBudget == [byModel |-> EmptyLedger, emitted |-> {}, unknownPricingNotified |-> FALSE]

(* Mutant: after the first notice no further level gets one. *)
MutantNoticeFor(budget, u) ==
  LET byModel == Record(budget.byModel, u)
  IN  IF ~HasKnownCost(byModel) \/ budget.emitted # {} THEN "none" ELSE Level(TotalCost(byModel))

(* The notice `observe` returns for a snapshot, "none" when it stays silent. *)
NoticeFor(budget, u) ==
  LET byModel == Record(budget.byModel, u)
      level   == Level(TotalCost(byModel))
  IN  IF ~HasKnownCost(byModel)
      THEN IF u.source = "unknown" /\ ~budget.unknownPricingNotified THEN "inactive" ELSE "none"
      ELSE IF level \in budget.emitted THEN "none" ELSE level

Observe(budget, u) ==
  LET notice == NoticeFor(budget, u)
  IN  [byModel |-> Record(budget.byModel, u),
       emitted |-> budget.emitted \cup ({notice} \cap Levels),
       unknownPricingNotified |-> budget.unknownPricingNotified \/ notice = "inactive"]

HardLimitReached(budget) == Reaches(TotalCost(budget.byModel), HardLimitPercent)
===============================================================================
