------------------------------ MODULE MCLimits ------------------------------
(***************************************************************************)
(* What is shared and used up, for TLC.  A behaviour is one of the parts,  *)
(* the others at rest: the line at a target with one slot, one rate        *)
(* bucket, one spend budget, the budget of one key, or the memory of one   *)
(* machine.                                                                *)
(***************************************************************************)
EXTENDS AdmissionQueue, TokenBucket, SpendBudget, KeyBudget, MachineLedger, TLC

VARIABLE part

(* the line: one tenant's backlog and another tenant's single request *)
MCTenantOf == [r \in Requests |-> IF r = "b1" THEN "b" ELSE "a"]
MCSameClass == [r \in Requests |-> 1]
MCOneTarget == [r \in Requests |-> <<"target">>]
MCOneSlot == {[max_concurrency |-> 1, max_queued |-> 3]}
MCFirst == [s \in Scopes |-> CHOOSE l \in Limits : TRUE]

\* 120 tokens a minute and a burst of two, retuned to one a second and three,
\* which is all the width holds.
MCRetuned == {per_minute(120, 2), per_second(1, 3)}

MCCost == [r \in Payers |-> IF r = "free" THEN 0 ELSE 3]

(* the machine: a request that waits, one that gives up, and a job on      *)
(* another target                                                          *)
MCBytes == [w \in Work |-> 2]
MCClass == [w \in Work |-> IF w = "image" THEN 2 ELSE 1]
MCTargetOf == [w \in Work |-> IF w = "clip" THEN "h3" ELSE "yue"]

Symmetry == Permutations(Deliveries)

-----------------------------------------------------------------------------

PartInit ==
  /\ part \in {"line", "bucket", "spend", "budget", "machine"}
  /\ Init /\ BucketInit /\ SpendInit /\ BudgetInit /\ LedgerInit
  /\ part # "bucket" => bucket = full(per_minute(120, 2), 0)
  /\ part # "machine" => \A c \in Capacities : c <= capacity_bytes

PartNext ==
  /\ \/ part = "line" /\ Next /\ UNCHANGED <<bucketVars, spendVars, budgetVars, ledgerVars>>
     \/ part = "bucket" /\ BucketNext /\ UNCHANGED <<vars, spendVars, budgetVars, ledgerVars>>
     \/ part = "spend" /\ SpendNext /\ UNCHANGED <<vars, bucketVars, budgetVars, ledgerVars>>
     \/ part = "budget" /\ BudgetNext /\ UNCHANGED <<vars, bucketVars, spendVars, ledgerVars>>
     \/ part = "machine" /\ LedgerNext /\ UNCHANGED <<vars, bucketVars, spendVars, budgetVars>>
     \/ \* these come to the end of their bounds, or to a waiter in no hurry that missed its wake-up
        /\ part \in {"line", "bucket", "spend", "budget"}
        /\ UNCHANGED <<vars, bucketVars, spendVars, budgetVars, ledgerVars>>
  /\ UNCHANGED part

PartSpec ==
  PartInit /\ [][PartNext]_<<vars, bucketVars, spendVars, budgetVars, ledgerVars, part>>
=============================================================================
