----------------------------- MODULE MCLedgers ------------------------------
(* The two books of the application and what hangs on their operations: a    *)
(* behaviour exercises the investment book, the accounts, the table of a     *)
(* purchase in installments, or what is at home and on the shopping list.    *)
EXTENDS MCInvestmentBook, Installments, Inventory, Accounts

CONSTANTS bank, card, m1, m2, r1, r2, s1, s2, plan1, soap

VARIABLE exercised

\* A bank account and a card with a limit of 2; a purchase in one or two parts.
MCCreditIds == {card}
MCCreditLimit == [a \in {card} |-> 2]
MCSchedules == {<<1, 1>>, <<1>>}

\* Every purchase of up to 60 cents in 2 to 5 installments.
MCPrincipals == 1 .. 60
MCCounts == 2 .. 5

LedgersInit ==
  /\ exercised \in {"investments", "accounts", "installments", "inventory"}
  /\ book \in IF exercised = "investments" THEN InitialBooks ELSE {{}}
  /\ tables = Stored(0, Derived(Replay(book)))
  /\ tx = [w \in Writers |-> Idle] /\ requests = 0
  /\ AccountsInit
  /\ InventoryInit
  /\ IF exercised = "installments" THEN TableInit
     ELSE /\ principal = 1 /\ count = 2 /\ rate = 0 /\ sequence = 0
          /\ remaining = 1 /\ repaid = 0 /\ charged = 0 /\ amount = 0

LedgersNext ==
  /\ UNCHANGED exercised
  /\ \/ exercised = "investments" /\ Next
        /\ UNCHANGED <<accountVars, inventoryVars, tableVars>>
     \/ exercised = "accounts" /\ AccountsNext
        /\ UNCHANGED <<vars, inventoryVars, tableVars>>
     \/ exercised = "inventory" /\ InventoryNext
        /\ UNCHANGED <<vars, accountVars, tableVars>>
     \/ exercised = "installments" /\ TableNext
        /\ UNCHANGED <<vars, accountVars, inventoryVars>>

LedgersSpec ==
  LedgersInit /\ [][LedgersNext]_<<exercised, vars, accountVars, inventoryVars, tableVars>>

LedgersSymmetry ==
  Permutations(Writers) \cup Permutations({m1, m2}) \cup Permutations({r1, r2})
    \cup Permutations({s1, s2})

\* The types of the tables of the three books.
TablesOK == TypeOK /\ AccountsTypeOK /\ InventoryTypeOK

\* A purchase in installments: the rows of its plan add up to what was financed,
\* and the table they come from is level.
InstallmentsAddUp == PlanWhole /\ LevelPayment
=============================================================================
