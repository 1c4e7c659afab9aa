---------------------------- MODULE MCBudgetGate ----------------------------
(* BudgetGate for TLC: a method paced at 1 s and one paced at 8 s, longer    *)
(* than the wait a short flood is given.                                     *)
EXTENDS BudgetGate

MCMethods  == {"getHistory", "resolveUsername"}
MCInterval == [m \in MCMethods |-> IF m = "getHistory" THEN 1 ELSE 8]
MCBackoffs == <<1, 2>>
=============================================================================
