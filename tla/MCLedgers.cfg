\* Two concurrent writes over every kind of investment book; every kind of
\* mutation of the accounts, two in flight; every small table of installments;
\* two requests over one article.
SPECIFICATION LedgersSpec
CONSTANTS
  a1 = a1  a2 = a2  a3 = a3  i1 = i1
  Accounts = {a1, a2, a3}
  Instruments = {i1}
  NoAccount = NoAccount
  NoInstrument = NoInstrument
  Writers = {w1, w2}
  ClosePrice <- MCClosePrice
  Operations <- MCOperations
  InitialBooks <- MCInitialBooks
  Prices = {8}
  MaxRequests = 2
  Principals <- MCPrincipals
  Counts <- MCCounts
  Rates = {0, 1, 2}
  Scale = 20
  bank = bank  card = card  m1 = m1  m2 = m2  r1 = r1  r2 = r2  s1 = s1  s2 = s2
  plan1 = plan1  soap = soap  None = None
  AccountIds = {bank, card}  MovementIds = {m1, m2}  PlanIds = {plan1}  RequestIds = {r1, r2}
  CreditIds <- MCCreditIds  CreditLimit <- MCCreditLimit  Schedules <- MCSchedules
  Amounts = {1, 2}  Openings = {1}  MaxMutations = 5
  Mutations = {"createExpense", "createInInstallments", "updateExpense", "moveExpense", "removeExpense",
               "removePlan", "createIncome", "updateIncome", "moveIncome", "removeIncome", "createAccount",
               "removeAccount", "updateAccount", "recalculate", "transfer"}
  ArticleNames = {soap}  Shoppers = {s1, s2}  MaxErrands = 5
INVARIANTS TablesOK CostConserved BalanceDriftExplained InstallmentsAddUp PrincipalRepaid InStockOrListed CreationShared
PROPERTIES LoneWriteSettles DebitsCovered RecalculateRepairs
SYMMETRY LedgersSymmetry
CHECK_DEADLOCK FALSE
