---------------------------- MODULE WindowBudget ----------------------------
(***************************************************************************)
(* What a limit of Limit requests per Window promises: time is cut into    *)
(* windows that do not overlap, and each has a budget of Limit requests.   *)
(***************************************************************************)
EXTENDS Integers

CONSTANTS
    Limit,    \* requests per window
    Window    \* length of a window

VARIABLES
    windows,  \* windows opened so far
    starts,   \* when the last one started
    used,     \* requests admitted in it
    total     \* requests admitted altogether

budgetVars == <<windows, starts, used, total>>

BudgetInit == windows = 0 /\ starts = 0 /\ used = 0 /\ total = 0

\* A request opens a window, after the last one has ended.
Open ==
    /\ windows' = windows + 1
    /\ starts' \in Nat
    /\ windows > 0 => starts' >= starts + Window
    /\ used' = 1
    /\ total' = total + 1

Spend ==
    /\ windows > 0
    /\ used < Limit
    /\ used' = used + 1
    /\ total' = total + 1
    /\ UNCHANGED <<windows, starts>>

BudgetNext == Open \/ Spend

BudgetSpec == BudgetInit /\ [][BudgetNext]_budgetVars
=============================================================================
