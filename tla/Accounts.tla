------------------------------ MODULE Accounts ------------------------------
(***************************************************************************)
(* The balance of an account (table payment_methods) against the movements  *)
(* recorded on it: expenses, incomes, purchases in installments and         *)
(* transfers.  PaymentMethodsService, ExpensesService and IncomesService    *)
(* share the tables; each GraphQL mutation is a request that first READS    *)
(* rows outside any transaction, then COMMITS one transaction computed from *)
(* what it read.  Other requests run between the two steps: PostgreSQL runs *)
(* at READ COMMITTED and no row is locked.                                  *)
(***************************************************************************)
EXTENDS Integers, Sequences, FiniteSets, Functions, Rows

CONSTANTS
  AccountIds, MovementIds, PlanIds,  \* the uuids the database may hand out
  RequestIds,   \* mutations that can be in flight at once
  CreditIds,    \* the accounts of type CREDIT
  CreditLimit,  \* the limit of an account of CreditIds
  Amounts,      \* amounts of a movement
  Openings,     \* opening balances
  Schedules,    \* installment schedules: sequences of amounts
  Mutations,   \* the mutations this instance exercises
  MaxMutations,  \* bound: mutations started in a behaviour
  None          \* SQL NULL

ASSUME AccountsAssumption ==
  /\ CreditIds \subseteq AccountIds
  /\ CreditLimit \in [CreditIds -> Nat]
  /\ Amounts \subseteq Nat \ {0}
  /\ Openings \subseteq Int
  /\ Schedules \subseteq Seq(Amounts)
  /\ MaxMutations \in Nat
  /\ None \notin AccountIds \cup PlanIds

VARIABLES
  account,   \* payment_methods: id |-> [opening, balance]
  movement,  \* expenses and incomes: id |-> [kind, account, amount, plan]
  plan,      \* installment_plans: id |-> [account, total]
  transfer,  \* account_transfers, in order of insertion
  issued,    \* ids handed out so far: a uuid is never reused
  request,   \* what each mutation in flight has read and means to write
  started,   \* mutations started
  stale,     \* history: mutations in flight since whose first read another committed
  exposed    \* history: accounts whose balance a mutation may have left wrong

accountVars == <<account, movement, plan, transfer, issued, request, started, stale, exposed>>
accountTables == <<account, movement, plan, transfer, issued>>

AccountRow == [opening : Int, balance : Int]
MovementRow == [kind : {"expense", "income"}, account : AccountIds \cup {None},
                amount : Nat, plan : PlanIds \cup {None}]
TransferRow == [from : AccountIds, to : AccountIds, amount : Amounts]

-----------------------------------------------------------------------------
NoRows == [id \in {} |-> None]

(* save() of a loaded entity: UPDATE if the row is still there, else INSERT *)
Save(table, id, row) == Over([x \in {id} |-> row], table)
DeleteRows(table, ids) == Restrict(table, DOMAIN table \ ids)

(* UPDATE ... SET balance = balance + delta WHERE id = a: atomic, and no row *)
(* is touched when a is NULL or the account is gone                          *)
AdjustBalance(table, a, delta) ==
  IF a \in DOMAIN table THEN [table EXCEPT ![a].balance = @ + delta] ELSE table

Exists(a) == a \in DOMAIN account
OwnedOrNull(a) == a = None \/ Exists(a)

(* what a purchase may still charge, given the accounts as the check sees them *)
CreditAvailable(table, a, amount) ==
  (a \in DOMAIN table /\ a \in CreditIds) =>
    amount <= CreditLimit[a] + table[a].balance

PartsTotal(parts) == SumFunction(parts)
RowsOf(kind, a) ==
  {m \in DOMAIN movement : movement[m].kind = kind /\ movement[m].account = a}
AmountOf(ids) == SumFunction([m \in ids |-> movement[m].amount])
TransferAmountOf(ids) == SumFunction([i \in ids |-> transfer[i].amount])
TransferredTo(a) == TransferAmountOf({i \in DOMAIN transfer : transfer[i].to = a})
TransferredFrom(a) == TransferAmountOf({i \in DOMAIN transfer : transfer[i].from = a})

(* mutant: the aggregate leaves out the outgoing transfers *)
BalanceFrom_NoOutgoing(opening, a) ==
  opening + AmountOf(RowsOf("income", a)) - AmountOf(RowsOf("expense", a))
          + TransferredTo(a)

(* the aggregate query of recalculateBalance *)
BalanceFrom(opening, a) ==
  opening + AmountOf(RowsOf("income", a)) - AmountOf(RowsOf("expense", a))
          + TransferredTo(a) - TransferredFrom(a)

-----------------------------------------------------------------------------
(* A request in flight *)

BeginMutation(r, op, pending) ==
  /\ op \in Mutations
  /\ r \notin DOMAIN request
  /\ started < MaxMutations
  /\ request' = Save(request, r, pending)
  /\ started' = started + 1
  /\ UNCHANGED <<accountTables, stale, exposed>>

InFlight(r, op) == r \in DOMAIN request /\ request[r].op = op

(* a mutation that is a single statement *)
Single(r, op) ==
  /\ op \in Mutations
  /\ r \notin DOMAIN request
  /\ started < MaxMutations
  /\ started' = started + 1
  /\ stale' = DOMAIN request
  /\ UNCHANGED <<request, exposed>>

(* r commits and ends: whatever the others have read is old now *)
FinishMutation(r) ==
  /\ request' = DeleteRows(request, {r})
  /\ stale' = DOMAIN request \ {r}
  /\ UNCHANGED started

End(r) == FinishMutation(r) /\ UNCHANGED exposed
Expose(accounts) == exposed' = exposed \cup (accounts \ {None})
AccountOf(m) == IF m \in DOMAIN movement THEN movement[m].account ELSE None

(* r commits what it worked out from the row of a movement it read earlier *)
EndEdit(r, accounts, unsound) ==
  /\ FinishMutation(r)
  /\ IF r \in stale \/ unsound THEN Expose(accounts \cup {AccountOf(request[r].id)})
     ELSE UNCHANGED exposed

(* an exception, a failed constraint or the death of the process: whatever  *)
(* the request had open is rolled back                                      *)
Abort(r) ==
  /\ r \in DOMAIN request
  /\ request' = DeleteRows(request, {r})
  /\ stale' = stale \ {r}
  /\ UNCHANGED <<accountTables, started, exposed>>

-----------------------------------------------------------------------------
(* Expenses *)

BeginCreateExpense(r) ==
  \E a \in AccountIds \cup {None}, x \in Amounts :
    /\ OwnedOrNull(a)
    /\ CreditAvailable(account, a, x)  \* read outside the transaction
    /\ BeginMutation(r, "createExpense", [op |-> "createExpense", account |-> a, amount |-> x])

CommitCreateExpense(r) ==
  LET q == request[r] IN
  /\ InFlight(r, "createExpense")
  /\ OwnedOrNull(q.account)            \* the foreign key
  /\ \E m \in MovementIds \ issued :
       /\ movement' = Save(movement, m, [kind |-> "expense", account |-> q.account,
                                         amount |-> q.amount, plan |-> None])
       /\ issued' = issued \cup {m}
  /\ account' = AdjustBalance(account, q.account, -q.amount)
  /\ End(r) /\ UNCHANGED <<plan, transfer>>

BeginCreateInInstallments(r) ==
  \E a \in AccountIds, parts \in Schedules :
    /\ Exists(a)
    /\ CreditAvailable(account, a, PartsTotal(parts))
    /\ BeginMutation(r, "createInInstallments",
             [op |-> "createInInstallments", account |-> a, parts |-> parts])

(* the plan and one expense per installment, charged in full at once *)
CommitCreateInInstallments(r) ==
  LET q == request[r] IN
  /\ InFlight(r, "createInInstallments")
  /\ Exists(q.account)
  /\ \E p \in PlanIds \ issued, ids \in SUBSET (MovementIds \ issued) :
       /\ Cardinality(ids) = Len(q.parts)
       /\ \E seq \in Bijection(ids, DOMAIN q.parts) :
            movement' = Over([m \in ids |-> [kind |-> "expense", account |-> q.account,
                                             amount |-> q.parts[seq[m]], plan |-> p]], movement)
       /\ plan' = Save(plan, p, [account |-> q.account, total |-> PartsTotal(q.parts)])
       /\ issued' = issued \cup ids \cup {p}
  /\ account' = AdjustBalance(account, q.account, -PartsTotal(q.parts))
  /\ End(r) /\ UNCHANGED transfer

(* An update may name another account (or NULL) and another amount; an      *)
(* installment is never edited.  "moveExpense" and "moveIncome" are the     *)
(* edits that name an account other than the one read.                      *)
BeginUpdate(r, kind, edit, move) ==
  \E m \in DOMAIN movement, a \in AccountIds \cup {None}, x \in Amounts :
    /\ movement[m].kind = kind
    /\ movement[m].plan = None
    /\ OwnedOrNull(a)
    /\ BeginMutation(r, IF a = movement[m].account THEN edit ELSE move,
             [op |-> edit, id |-> m, row |-> movement[m], account |-> a, amount |-> x])

(* The entity was loaded with its relation paymentMethod: save() writes the  *)
(* id of the loaded account, and the column paymentMethodId only when the    *)
(* relation was NULL (mail-senders.service.ts:118 says so of this ORM)       *)
SavedAccount(q) == IF q.row.account = None THEN q.account ELSE q.row.account
SavedRow(q) == [q.row EXCEPT !.account = SavedAccount(q), !.amount = q.amount]

(* mutant: an edit of the amount alone is not seen as a change *)
Changed_AccountOnly(q) == q.account # q.row.account
Changed(q) == q.account # q.row.account \/ q.amount # q.row.amount

BeginUpdateExpense(r) == BeginUpdate(r, "expense", "updateExpense", "moveExpense")

CommitUpdateExpense(r) ==
  LET q == request[r]
      reverted == AdjustBalance(account, q.row.account, q.row.amount)
  IN
  /\ InFlight(r, "updateExpense")
  /\ Changed(q) => CreditAvailable(reverted, q.account, q.amount)
  /\ OwnedOrNull(SavedAccount(q))
  /\ account' = IF Changed(q) THEN AdjustBalance(reverted, q.account, -q.amount)
                ELSE account
  /\ movement' = Save(movement, q.id, SavedRow(q))
  /\ EndEdit(r, {q.row.account, q.account}, SavedAccount(q) # q.account)
  /\ UNCHANGED <<plan, transfer, issued>>

(* mutant: an installment is removed like any other expense *)
BeginRemove_AnyRow(r, kind, op) ==
  \E m \in DOMAIN movement :
    /\ movement[m].kind = kind
    /\ BeginMutation(r, op, [op |-> op, id |-> m, row |-> movement[m]])

BeginRemove(r, kind, op) ==
  \E m \in DOMAIN movement :
    /\ movement[m].kind = kind
    /\ movement[m].plan = None
    /\ BeginMutation(r, op, [op |-> op, id |-> m, row |-> movement[m]])

BeginRemoveExpense(r) == BeginRemove(r, "expense", "removeExpense")

CommitRemoveExpense(r) ==
  LET q == request[r] IN
  /\ InFlight(r, "removeExpense")
  /\ account' = AdjustBalance(account, q.row.account, q.row.amount)
  /\ movement' = DeleteRows(movement, {q.id})
  /\ EndEdit(r, {q.row.account}, FALSE)
  /\ UNCHANGED <<plan, transfer, issued>>

(* removing one installment removes its plan and every sibling *)
BeginRemovePlan(r) ==
  \E m \in DOMAIN movement :
    LET p == movement[m].plan
        siblings == {n \in DOMAIN movement : movement[n].plan = p}
    IN
    /\ p # None
    /\ BeginMutation(r, "removePlan", [op |-> "removePlan", plan |-> p, ids |-> siblings,
                               account |-> movement[m].account, total |-> AmountOf(siblings)])

CommitRemovePlan(r) ==
  LET q == request[r] IN
  /\ InFlight(r, "removePlan")
  /\ account' = AdjustBalance(account, q.account, q.total)
  /\ movement' = DeleteRows(movement, q.ids)
  /\ plan' = DeleteRows(plan, {q.plan})
  /\ FinishMutation(r)
  /\ IF r \in stale THEN Expose({q.account}) ELSE UNCHANGED exposed
  /\ UNCHANGED <<transfer, issued>>

-----------------------------------------------------------------------------
(* Incomes: the same shape with the sign turned and no credit to check *)

BeginCreateIncome(r) ==
  \E a \in AccountIds \cup {None}, x \in Amounts :
    /\ OwnedOrNull(a)
    /\ BeginMutation(r, "createIncome", [op |-> "createIncome", account |-> a, amount |-> x])

CommitCreateIncome(r) ==
  LET q == request[r] IN
  /\ InFlight(r, "createIncome")
  /\ OwnedOrNull(q.account)
  /\ \E m \in MovementIds \ issued :
       /\ movement' = Save(movement, m, [kind |-> "income", account |-> q.account,
                                         amount |-> q.amount, plan |-> None])
       /\ issued' = issued \cup {m}
  /\ account' = AdjustBalance(account, q.account, q.amount)
  /\ End(r) /\ UNCHANGED <<plan, transfer>>

BeginUpdateIncome(r) == BeginUpdate(r, "income", "updateIncome", "moveIncome")

CommitUpdateIncome(r) ==
  LET q == request[r] IN
  /\ InFlight(r, "updateIncome")
  /\ OwnedOrNull(SavedAccount(q))
  /\ movement' = Save(movement, q.id, SavedRow(q))
  /\ account' = IF Changed(q)
                THEN AdjustBalance(AdjustBalance(account, q.row.account, -q.row.amount),
                                   q.account, q.amount)
                ELSE account
  /\ EndEdit(r, {q.row.account, q.account}, SavedAccount(q) # q.account)
  /\ UNCHANGED <<plan, transfer, issued>>

BeginRemoveIncome(r) == BeginRemove(r, "income", "removeIncome")

CommitRemoveIncome(r) ==
  LET q == request[r] IN
  /\ InFlight(r, "removeIncome")
  /\ account' = AdjustBalance(account, q.row.account, -q.row.amount)
  /\ movement' = DeleteRows(movement, {q.id})
  /\ EndEdit(r, {q.row.account}, FALSE)
  /\ UNCHANGED <<plan, transfer, issued>>

-----------------------------------------------------------------------------
(* Accounts and transfers *)

(* one INSERT, nothing read before it *)
CreateAccount(r) ==
  /\ Single(r, "createAccount")
  /\ \E a \in AccountIds \ issued, o \in Openings :
       /\ account' = Save(account, a, [opening |-> o, balance |-> o])
       /\ issued' = issued \cup {a}
  /\ UNCHANGED <<movement, plan, transfer>>

(* The delta of a new opening balance is applied to the entity in memory.   *)
(* An update that names no opening balance (a rename) carries the row read. *)
BeginUpdateAccount(r) ==
  \E a \in DOMAIN account :
    \E o \in Openings \cup {account[a].opening} :
      BeginMutation(r, "updateAccount",
            [op |-> "saveAccount", id |-> a,
             row |-> [opening |-> o, balance |-> account[a].balance + o - account[a].opening]])

BeginRecalculate(r) ==
  \E a \in DOMAIN account :
    BeginMutation(r, "recalculate", [op |-> "aggregate", id |-> a, row |-> account[a]])

(* the aggregate query, a statement of its own *)
Aggregate(r) ==
  LET q == request[r] IN
  /\ InFlight(r, "aggregate")
  /\ request' = [request EXCEPT ![r] =
       [op |-> "saveRecalculated", id |-> q.id,
        row |-> [q.row EXCEPT !.balance = BalanceFrom(q.row.opening, q.id)]]]
  /\ UNCHANGED <<accountTables, started, stale, exposed>>

(* save(account): every column that differs from the table is written back *)
SaveAccount(r, op) ==
  /\ InFlight(r, op)
  /\ account' = Save(account, request[r].id, request[r].row)
  /\ FinishMutation(r) /\ UNCHANGED <<movement, plan, transfer, issued>>

CommitUpdateAccount(r) ==
  /\ SaveAccount(r, "saveAccount")
  /\ IF r \in stale THEN Expose({request[r].id}) ELSE UNCHANGED exposed

(* what an earlier mutation left wrong is right again *)
CommitRecalculate(r) ==
  /\ SaveAccount(r, "saveRecalculated")
  /\ IF r \in stale THEN Expose({request[r].id})
     ELSE exposed' = exposed \ {request[r].id}

(* plans and transfers RESTRICT the deletion; movements are set to NULL *)
RemoveAccount(r) ==
  /\ Single(r, "removeAccount")
  /\ \E a \in DOMAIN account :
       /\ \A p \in DOMAIN plan : plan[p].account # a
       /\ \A i \in DOMAIN transfer : a \notin {transfer[i].from, transfer[i].to}
       /\ account' = DeleteRows(account, {a})
       /\ movement' = [m \in DOMAIN movement |->
                         IF movement[m].account = a
                         THEN [movement[m] EXCEPT !.account = None]
                         ELSE movement[m]]
  /\ UNCHANGED <<plan, transfer, issued>>

(* mutant: only cards are checked before a transfer *)
Covers_CardsOnly(table, a, x) == a \in CreditIds => CreditAvailable(table, a, x)

(* an asset account needs the funds, a credit account the credit *)
Covers(table, a, x) ==
  IF a \in CreditIds THEN CreditAvailable(table, a, x) ELSE table[a].balance >= x

BeginTransfer(r) ==
  \E from, to \in DOMAIN account, x \in Amounts :
    /\ from # to
    /\ Covers(account, from, x)  \* read outside the transaction
    /\ BeginMutation(r, "transfer", [op |-> "transfer", from |-> from, to |-> to, amount |-> x])

CommitTransfer(r) ==
  LET q == request[r] IN
  /\ InFlight(r, "transfer")
  /\ Exists(q.from) /\ Exists(q.to)
  /\ transfer' = Append(transfer, [from |-> q.from, to |-> q.to, amount |-> q.amount])
  /\ account' = AdjustBalance(AdjustBalance(account, q.from, -q.amount), q.to, q.amount)
  /\ End(r) /\ UNCHANGED <<movement, plan, issued>>

-----------------------------------------------------------------------------
AccountsInit ==
  /\ account = NoRows /\ movement = NoRows /\ plan = NoRows /\ transfer = <<>>
  /\ issued = {} /\ request = NoRows /\ started = 0
  /\ stale = {} /\ exposed = {}

AccountsNext ==
  \E r \in RequestIds :
       \/ CreateAccount(r) \/ RemoveAccount(r)
       \/ BeginCreateExpense(r) \/ CommitCreateExpense(r)
       \/ BeginCreateInInstallments(r) \/ CommitCreateInInstallments(r)
       \/ BeginUpdateExpense(r) \/ CommitUpdateExpense(r)
       \/ BeginRemoveExpense(r) \/ CommitRemoveExpense(r)
       \/ BeginRemovePlan(r) \/ CommitRemovePlan(r)
       \/ BeginCreateIncome(r) \/ CommitCreateIncome(r)
       \/ BeginUpdateIncome(r) \/ CommitUpdateIncome(r)
       \/ BeginRemoveIncome(r) \/ CommitRemoveIncome(r)
       \/ BeginUpdateAccount(r) \/ CommitUpdateAccount(r)
       \/ BeginRecalculate(r) \/ Aggregate(r) \/ CommitRecalculate(r)
       \/ BeginTransfer(r) \/ CommitTransfer(r)
       \/ Abort(r)

AccountsSpec == AccountsInit /\ [][AccountsNext]_accountVars

-----------------------------------------------------------------------------
(* Every column has its type and every foreign key names a row: whatever is  *)
(* removed in whatever order, no movement, plan or transfer is left pointing *)
(* at an account or a plan that is gone.                                     *)
AccountsTypeOK ==
  /\ account \in [DOMAIN account -> AccountRow]
  /\ movement \in [DOMAIN movement -> MovementRow]
  /\ DOMAIN account \subseteq AccountIds \cap issued
  /\ DOMAIN movement \subseteq MovementIds \cap issued
  /\ DOMAIN plan \subseteq PlanIds \cap issued
  /\ transfer \in Seq(TransferRow)
  /\ issued \subseteq AccountIds \cup MovementIds \cup PlanIds
  /\ DOMAIN request \subseteq RequestIds
  /\ started \in 0 .. MaxMutations
  /\ stale \subseteq DOMAIN request /\ exposed \subseteq AccountIds
  /\ \A m \in DOMAIN movement : /\ OwnedOrNull(movement[m].account)
                               /\ movement[m].plan \in DOMAIN plan \cup {None}
  /\ \A p \in DOMAIN plan : Exists(plan[p].account)
  /\ \A i \in DOMAIN transfer : Exists(transfer[i].from) /\ Exists(transfer[i].to)

(* the balance a reader of the tables works out, row by row *)
Effect(row, a) ==
  IF row.account # a THEN 0 ELSE IF row.kind = "income" THEN row.amount ELSE -row.amount
TransferEffect(row, a) ==
  (IF row.to = a THEN row.amount ELSE 0) - (IF row.from = a THEN row.amount ELSE 0)
LedgerBalance(opening, a) ==
  opening + SumFunction([m \in DOMAIN movement |-> Effect(movement[m], a)])
          + SumFunction([i \in DOMAIN transfer |-> TransferEffect(transfer[i], a)])

Exact(a) == account[a].balance = LedgerBalance(account[a].opening, a)

(* The balance column is what the account was opened with plus its incomes   *)
(* and incoming transfers minus its expenses and outgoing transfers: what    *)
(* payment-method.entity.ts:138 and the aggregate of recalculateBalance say. *)
BalanceMatchesMovements == \A a \in DOMAIN account : Exact(a)

(* What breaks it, and nothing else does: an edit or removal computed from a *)
(* row that another mutation changed, an account saved over a newer balance, *)
(* or an edit that names another account.  Mutations that only insert rows   *)
(* and increment balances keep it in every interleaving, and a               *)
(* recalculation with nothing between its steps restores it.                 *)
BalanceDriftExplained == \A a \in DOMAIN account \ exposed : Exact(a)

(* A purchase in installments is kept or removed as a whole: its expenses    *)
(* add up to the plan's total and are charged to the plan's account.         *)
PlanWhole ==
  \A p \in DOMAIN plan :
    LET parts == {m \in DOMAIN movement : movement[m].plan = p} IN
    /\ AmountOf(parts) = plan[p].total
    /\ \A m \in parts : movement[m].account = plan[p].account

(* A purchase, in installments or not, or an edit of an expense that charges *)
(* a card leaves it within its limit (assertCreditAvailable), unless another *)
(* mutation committed between its check and its commit.                      *)
CreditRespected ==
  [][\A r \in RequestIds \ stale, c \in CreditIds \cap DOMAIN account :
       /\ \/ CommitCreateExpense(r) \/ CommitCreateInInstallments(r)
          \/ CommitUpdateExpense(r)
       /\ account'[c].balance < account[c].balance
       => account'[c].balance + CreditLimit[c] >= 0]_accountVars

(* A transfer takes no account below zero and no card beyond its limit,      *)
(* unless another mutation committed between its check and its commit.       *)
TransferCovered ==
  [][\A r \in RequestIds \ stale : CommitTransfer(r) =>
       LET a == request[r].from IN
       account'[a].balance + (IF a \in CreditIds THEN CreditLimit[a] ELSE 0) >= 0]_accountVars

DebitsCovered == CreditRespected /\ TransferCovered

(* recalculateBalance leaves the account equal to its movements, whatever    *)
(* the balance was before ("valvula ante descuadres"), unless another        *)
(* mutation committed while it worked.                                       *)
RecalculateRepairs ==
  [][\A r \in RequestIds \ stale, a \in AccountIds :
       CommitRecalculate(r) /\ request[r].id = a => Exact(a)']_accountVars
=============================================================================
