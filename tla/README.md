# Verification of personal_finance_backend

TLA+ modules, TLC configurations and TLAPS proofs kept beside the backend: a
NestJS service with a GraphQL interface, TypeORM and PostgreSQL, in which a user
keeps accounts, expenses, incomes, recurring charges, purchases and
investments, some of them fed by the user's mail and by brokers.

Every definition is translated from the source; the line each one comes from is
in `PROJECT.json` under `map`. Paths below are under `src/src/`.

How to read this file: section 1 is the inventory, 2 the conventions, 3 the
modules and how they correspond to the code, 4 the runs, 5 the fairness, 6 the
proofs, 7 what the runs found, 8 what is left out, 9 what could come next.

## 1. Inventory

What the components have in common decides what is hard about them. The process
is one Node process (or several: nothing prevents two instances), so code
between two `await`s is atomic and every `await` is a place where another
request, a cron or a shutdown may come in. The database runs at READ COMMITTED,
the code takes no row locks, and many operations READ outside any transaction
and then WRITE what they worked out. `save()` of a loaded TypeORM entity writes
back the columns of the copy in memory that differ from the row, and re-inserts
a row that is gone. Work that spans several commits has to survive a crash
between them, because nothing else cleans up.

| component | state it keeps | operations | what is hard | what makes it correct |
|---|---|---|---|---|
| **Account balances** `payment-methods/`, `transactions/` | the balance of an account; expenses, incomes, installment plans, transfers | create, update, remove of each; transfer; recalculate | reads outside the transaction; increments against whole-row saves; checks of credit and funds made early | the balance is what the movements add up to; a plan is whole or absent; limits hold at the commit |
| **Installment calculator** `installments/` | none (a pure table) | `calculateInstallments` | rounding every period to cents | the table repays the principal to the cent, with level payments |
| **Categorization queue** `categorization/categorization-queue.ts` | line, counter, waiters of the shutdown | `enqueue`, `pump`, `execute`, `drain`, shutdown hook | callbacks, a limit, a shutdown that races with the last task | bounded, work-conserving, FIFO, no lost wake-up, everything ends |
| **Mail ingestion** `mail/mail-ingestion.service.ts` | the log of mails, the reservations by CUFE, the expenses | `ingest`, `retry`, `process`, `reserveInvoice`, `registerExpense`, `finish` | six commits per mail, repeated deliveries, retries, crashes, disconnections | an invoice is registered at most once; no mail is wrongly given up |
| **Recurring expenses** `recurring-expenses/` | templates with their next date | create, update, remove, `runDue` (cron and mutation) | one commit per occurrence, one save at the end, several holders of the row | every occurrence charged, once, on its date |
| **Market data: limiter** `market-data/rate-limiter.service.ts` | a chain of promises per process; credits per minute in a table | `schedule`, `charge`, `addCredits` | several processes, waits, midnight, restarts | the day's credits are never exceeded; the chain never jams |
| **Market data: prices** `market-data/prices.service.ts` | stored closes, the last price, a request for history in the instrument's row, an advisory lock | `requestBackfill`, `refreshPrices`, `ensureHistory`, `storeBars` | stale entities, an exhausted budget, empty answers | no request is lost; the last price is the last close; the range asked for is stored |
| **Investment book** `investments/investment-transactions.service.ts`, `positions.service.ts`, `analytics/portfolio-ledger.ts` | the book of operations and four tables derived from it | create, update, remove, cost basis, rebuild | twelve kinds of operation, FIFO lots, transfers and splits across accounts, rebuilds that overlap | cost is conserved; the derived tables are what the book implies |
| **Articles, purchases, shopping list** `articles/`, `products/`, `shopping-lists/` | articles by name, consumption cycles, items to buy | `findOrCreateByName`, `recordPurchase`, `markDepleted` | several commits for one fact; two requests that create one article | what was bought is at home or on the list; no purchase fails because another creates its article |
| **Categorization by model** `categorization/`, `mail/` | none: answers that are written late | `classify`, `assignCategoryIfMissing`, `updateExpenseCategory` | the answer arrives after the user edited, or removed the category | a suggestion never replaces what the user put |
| **Mailbox synchronisation** `mail/mail-sync.service.ts` | history cursor, mark of the reading of old mails | `syncHistory`, `recoverExpiredHistory`, `startBackfill`, connect, disconnect | an expired history, mails that fail, two executions at once, restarts | the cursor never passes a mail that was not read; "done" means all read |
| **Portfolio snapshots** `investments/snapshots.service.ts` | daily rows per user, the build the queries share | `buildForUser`, `ensureCurrent`, `isStale` | builds of three origins at once, against a book that is written meanwhile | the series of a user with operations ends up being that of the book; the flag tells when it is not |
| **Statement imports** `investments/import/` | batches with their draft | `analyze`, `remap`, `commit`, `discard` | repeated confirmations, a discard that races, failures between insert and save | a batch tells the truth of itself; an operation that comes twice is there once |
| **Broker synchronisation, connectors** `investments/investment-sync.service.ts`, `connectors/` | connections with their cursor; a session with XTB | `sync`, `syncAll`, `fetchTransactions` of four brokers, `withSession` | cursor against what was stored, windows, pages, late records, time-outs | nothing the broker showed in time is left behind, the cursor is never ahead of the book; a session ends |
| **Authentication, API keys** `auth/`, `api-keys/` | the row of a user's credentials, refresh tokens, keys | login, second factor, rotation, change and reset of password, key life cycle | rows loaded, changed in memory and saved whole, in no transaction | what is revoked stays revoked; the second factor can always be satisfied |
| Exchange rates, instruments `market-data/` | caches | `rateOn`, `rateForWrite` | stale and missing rates | the rate in force on the date |
| HTTP rate limit `common/rate-limit/` | a window of instants | `take` | waits between two looks | never more than the limit in a window |
| Notifications `notifications/` | none | daily mail | run twice, run late | one mail per card and day |
| The rest (users, tags, invoice drafts, inflation, analytics, parsing, `common/`, `config/`, `migrations/`) | rows edited one at a time, or nothing | | | see section 8 |

How they interact: the mail ingestion and the recurring expenses call
`ExpensesService.create`, which moves a balance and enqueues a categorization.
The investment book asks the prices for history (`requestBackfill`) and reads
the cached closes. The mailbox synchronisation hands its mails to the ingestion;
the imports and the broker synchronisation insert into one table of operations;
a build of the daily series reads the book while it may be being written; an
expense may carry a purchase, which moves consumption cycles and the shopping
list. Crons (`recurring-expenses.cron.ts`, `market-data.cron.ts`,
`mail.cron.ts`, `snapshots.cron.ts`, `investments-sync.cron.ts`) run the same
methods as the mutations, at the same time if it so happens. Everything else
that components share, they share through rows.

`PROJECT.json` lists under `hazards` what in this code is hard to test, each at
the line where it bites, with the properties that would catch it.

## 2. Conventions of the modules

* One action per synchronous stretch or per SQL statement that other requests
  can come before: the `await`s of the code are the boundaries of the steps.
  A transaction whose statements read nothing that others change is one step,
  its commit.
* A row is a record, a table a function from ids to records. Ids handed out are
  model values; a uuid is never handed out twice.
* A **history variable** (`stale`, `exposed`, `disturbed`, `kept`, `due`,
  `promised`, ...) records what happened, is read by no guard, and is there so that a
  property can say exactly when it is promised.
* A **fault** is an action of its own with a bound (`MaxFailures`, `MaxCrashes`) or
  a name in a constant set (`Faults`): crash, failed statement, refused call.
* Bounds are constants named `Max...` and appear in guards only.
* A definition named `X_Something`, placed before `X`, is a mutant: `X` as a
  plausible mistake would have written it. Nothing uses it; replacing the body
  of `X` by it makes TLC refute the property paired with it in `PROJECT.json`,
  which is how each property is known to say something about the code.
* Assumptions on constants are named (`AccountsAssumption`, `QueueAssumption`,
  ...) and evaluated by TLC in every run of the module.

## 3. The modules

| module | what it is | used by |
|---|---|---|
| `Rows` | what `save()` does with a copy of a row | the ones below that save copies |
| `Accounts`, `AccountsProofs` | balances and movements | `MCAccounts`, `MCLedgers` |
| `Installments` | the amortization table | `MCLedgers` |
| `Inventory` | articles, cycles, shopping list | `MCLedgers` |
| `PortfolioLedger`, `InvestmentBook` | the reducer of operations, and the writes around it | `MCInvestmentBook`, `MCLedgers` |
| `FoldProofs` | what the folds of the community modules compute | the proofs of accounts and ledgers |
| `LedgersProofs` | proofs about `MCLedgers` and its parts, with those of `AccountsProofs` | |
| `CategorizationQueue` | the queue of the classifier | `MCServices` |
| `InvoiceRegistry` | abstract: an invoice at most once | `MailIngestion` |
| `MailIngestion` | from a mail to its expense | `MCMailIngestion`, `MCMail` |
| `MailSync` | which mails are read | `MCMail` |
| `MailIngestionProofs` | proofs about these three | |
| `Categorization` | suggestions against the user's edits | `MCMail` |
| `MailProofs` | proofs about the suggestions, and about `MCMail` as a whole | |
| `RecurringExpenses` | templates and their charges | `MCServices` |
| `RateLimiter`, `MarketData`, `MarketDataProofs` | the budget of calls, and the jobs that call | `MCMarketData` |
| `Snapshots` | the daily series | `MCServices` |
| `OperationIndex` | the table of operations and its unique indexes | the next three |
| `StatementImport` | batches from files | `MCArrivals` |
| `BrokerConnectors`, `BrokerSync` | what four brokers are asked for; connections and their cursor | `MCArrivals` |
| `ArrivalsProofs` | proofs about these two together, and about `MCArrivals` | |
| `XtbSession` | a socket with timers | `MCServices` |
| `Access` | sessions, second factor, API keys | `MCServices` |
| `ServicesProofs` | proofs about `MCServices` and its parts | |

The `MC...` modules give the constants their values and put components side by
side. Three of them (`MCLedgers`, `MCMail`, `MCServices`) hold components that
share no table: their variable `exercised` is chosen in the initial state and
says which component this behaviour moves, so that the state space is the sum of
the components' and not their product. Nothing is lost by it, since no action of
one reads a variable of another; that the composition implements each of its parts is
a theorem of each of the three (section 6). `MCArrivals` composes components that do share
a table: a statement is imported while a broker is synchronised. `MarketData`
composes the jobs with the limiter they call.

### Accounts (`Accounts.tla`, `AccountsProofs.tla`)

`PaymentMethodsService`, `ExpensesService` and `IncomesService` over the tables
they share. A mutation is a request `r`: `Begin...` is what it reads and checks
before its transaction, `Commit...` the transaction. Anything may commit between
the two; `Abort` is an exception, a refused constraint or a crash, after which
nothing of the request is left. `CreateAccount` and `RemoveAccount` are one
statement each.

| action | code |
|---|---|
| `BeginCreateExpense`, `CommitCreateExpense` | `ExpensesService.create`: `assertCreditAvailable`, then insert and `adjustBalance` |
| `BeginCreateInInstallments`, `CommitCreateInInstallments` | `createInInstallments`: plan, one expense per installment, one charge of the whole |
| `BeginUpdate...`, `CommitUpdate...` | `update`: revert the old effect, check, apply the new one, save the entity |
| `BeginRemove...`, `CommitRemove...`, `BeginRemovePlan`, `CommitRemovePlan` | `remove`, of a lone movement and of a whole plan |
| `BeginUpdateAccount`, `CommitUpdateAccount` | `update` of an account: the row as loaded is saved |
| `BeginRecalculate`, `Aggregate`, `CommitRecalculate` | `recalculateBalance`: load, aggregate query, save |
| `BeginTransfer`, `CommitTransfer` | `transfer` |

`SavedAccount` is TypeORM's rule that a loaded relation wins over the column: it
is behaviour of a library, modelled from the comment at
`mail/mail-senders.service.ts:118`. `stale` holds the requests since whose first
read another one committed; `exposed` the accounts a request may have left
wrong: an edit or removal worked out from a row that changed, a whole account
saved over a newer balance, an edit that names another account.

Abstracted: amounts are small integers; a credit limit and the type of an
account do not change; currencies, categories, tags and the items of an expense
are left out, no balance depends on them; the two reads of `removePlan` are one
step; `save()` (a SELECT, a comparison and an UPDATE) is one step.

### Installments (`Installments.tla`, `LedgersProofs.tla`)

`calculateInstallments`, a step per turn of its loop. Money is in cents and the
arithmetic exact; the code works out the regular payment in floating point. The
dates of the installments are left out. `LevelPayment` bounds the last installment,
which absorbs the roundings, by what a cent per period grows to at the monthly rate.

### What is at home (`Inventory.tla`, `LedgersProofs.tla`)

A request (`errand`) buys an article or reports that it ran out. A purchase of
its own (`kind = "own"`) commits after every statement; one that comes with an
expense (`"expense"`) is part of that expense's transaction, so it is what it
reads and then one commit.

| action | code |
|---|---|
| `FindArticle`, `InsertArticle`, `FindAgain` | `findOrCreateByName`: look, insert, and on a unique violation look again |
| `SavePurchase`, `CheckOpenCycle`, `OpenCycle`, `MarkPendingListItemsPurchased` | `recordPurchase`, by itself |
| `ReadInTransaction`, `CommitWithExpense` | the same within an expense |
| `BeginDepletion`, `CloseCycle`, `LookAtList`, `AddToShoppingList` | `markDepleted`, with its two commits |
| `RemoveArticle` | the removal and its cascades |
| `FailErrand` | any exception or the end of the process |

Abstracted: quantities, prices and units; editing an article, `isConsumable`
included; the editing of lists by hand.

### The categorization queue (`CategorizationQueue.tla`, `ServicesProofs.tla`)

`Enqueue` is `enqueue` with the `pump` it calls; `Settle` is the `finally` of
`execute` with its `pump` and its wake-ups; `BeginDrain` and `TimeOut` are
`beforeApplicationShutdown` with `drain`. Each is a synchronous stretch, so a
step. `Starting` says how many tasks the `while` of `pump` takes.

### Mail (`InvoiceRegistry.tla`, `MailIngestion.tla`, `MailIngestionProofs.tla`)

`InvoiceRegistry` is the abstract specification: a set of expenses in which an
invoice, identified by its CUFE, is registered at most once until the user
deletes it. `MailIngestion` is the protocol that is to implement it, statement
by statement.

| action | code in `mail-ingestion.service.ts` |
|---|---|
| `Ingest` | the `INSERT ... ON CONFLICT DO NOTHING` of `ingest` |
| `BeginRetry`, `ReleaseStale`, `Mark` | `retry`: check, release of the reservation that looks stale, back to PROCESSING |
| `Fetch` | attachments, XML and parser: an invoice, none, or an exception |
| `Reserve` | `reserveInvoice` |
| `Register`, `Release` | `registerExpense`, and the `catch` that gives the reservation back |
| `Link` | the update that names the expense in the reservation |
| `FinishStep` | `finish` |
| `RemoveExpense`, `Disconnect` | `ExpensesService.remove` and the removal of a connection, with what the foreign keys do |
| `Crash` | the process dies |

Four windows in this protocol can lose custody of an invoice, and each is a
member of `Faults` so that a run opens the ones it asks about: a crash between
expense and link (`crashBeforeLink`), a read-back that fails after the expense
was committed (`errorAfterCommit`, `expenses.service.ts:174`), a link that fails
(`errorBeforeLink`, `mail-ingestion.service.ts:241`), and a retry of a mail
another worker is on (`overlappingRetry`, `:182`). The remaining faults are
harmless to the registry.

Abstracted: one user; the checks `retry` makes on the sender and on the
connection; the list of trusted senders, fixed; `getMeta` is part of `Fetch`.

### Which mails are read (`MailSync.tla`, `MailIngestionProofs.tla`)

A mailbox with one sender, and a Gmail whose history is forgotten after
`HistoryKept` days. A mail is its position of arrival, which is also what a
`historyId` is.

| action | code in `mail-sync.service.ts` |
|---|---|
| `Notice`, `BeginHistory` | the webhook or the job loads the connection; the lock in memory, which another process does not see |
| `ReadSenders`, `ListHistory`, `SearchExpired`, `IngestAll`, `MarkSynced` | `syncHistory` and `recoverExpiredHistory`, with the strict reading that throws |
| `FailHistory`, `RecordFailure` | the `catch`, which writes the status it loaded |
| `AskBackfill`, `StartBackfill`, `RunBackfill`, `FailBackfill` | `startBackfill` and `runBackfill` |
| `Connect`, `AdoptHistory`, `Disconnect`, `SetSender`, `CrashSync` | `mail-connections.service.ts`, the removal with its cascades, the user, the process |

`due` is the history variable that says which mails the mailbox has to read: those
that arrive while it has a cursor and the sender is set up, unless an execution
in course began before that. `told` marks a status that was written by a reading
which ran alone. Abstracted: renewing the watch, Google's tokens, removing a
sender; a synchronisation takes less than the day by which a recovery goes back.

### What a model suggests (`Categorization.tla`, `MailProofs.tla`)

`ResolveLines`, `RegisterExpense` and `CreateExpense` are how an expense leaves
a task behind, by mail or by hand, with the category it was given or inherits
from its only article. `Classify` is the answer of the model: any category that
was an option, or none, since the thresholds are on probabilities nothing bounds.
`AssignArticle` and `UpdateExpenseCategory` are the writes, each one conditional
`UPDATE`; `LoseTask` the end of the process or of the queue's patience.
`BeginEdit`, `SaveEdit`, `RemoveCategory` and `SetUsual` are the user: an edit
loads a row and later saves it, whole. Abstracted: one edit at a time; all
categories are of one user.

### Recurring expenses (`RecurringExpenses.tla`, `ServicesProofs.tla`)

A date is an ordinal and `MonthStart` the calendar, so that `AddInterval` does
what `setUTCMonth` does, overflow of short months included. `BeginRun` is the
query of `runDue`, which copies the rows; `Pick` the next turn of the loop, in
the unspecified order of the query; `Materialize` one expense committed with the
template advanced in memory; `SaveTemplate` the save after the inner loop;
`Refuse` and `Fail` the exceptions that leave `runDue`; `BeginUpdate`,
`SaveUpdate`, `Remove` the edits; `Crash` and `NextDay` the machine and the clock.

Abstracted: the items of a template are a flag, whether there are any, which is
what `materialize` depends on. A save of a stale template with items may also be
refused by the database; that is one of the causes of `Fail`.

### Market data (`RateLimiter.tla`, `MarketData.tla`, with proofs)

`RateLimiter` is the limiter: a chain per process, and a table read only through
two sums. `Schedule` is `schedule`; `Peek`, `Wake`, `Add`, `Check` are `charge`
and `addCredits` cut at each statement and wait; `Send` and `Refuse` the two ways
a call settles; `Restart` a process that dies; `Tick` the clock. `MarketData`
EXTENDS it and composes with it the jobs: `Request`, `Ask`, `Opportune`
(`requestBackfill`), `RefreshPrices`, `TakeLatest`, `LoadPending`, `TakePending`,
`EndRefresh` (`refreshPrices`, by the cron or by a user), `EnsureHistory`,
`HistoryAnswer`, `LatestAnswer`, `CallFails`, `InsertBars`, `SavePrice`,
`ClearRequest` (`ensureHistory`, `storeBars`). A job that awaits the limiter is
at `calling`; its calls are the limiter's own actions.

Abstracted: the rows of the usage table are two sums; a process and the database
have one clock; the milliseconds between two calls of a minute are left out, no
count depends on them; every day is a trading day; the instruments fit in one
batch (a run of more than eight would be several calls); `Unlock` may miss,
since the lock is released through the pool.

### Investments (`PortfolioLedger.tla`, `InvestmentBook.tla`, `LedgersProofs.tla`)

`PortfolioLedger` is the reducer of `analytics/portfolio-ledger.ts`: `Comes` and
`SortEvents` the order, `Apply` the twelve kinds of operation, `Replay` the fold,
`Derived` the rows of the four tables. `InvestmentBook` is `runWrite` around it:
a request changes the book (`Write`), expands the scope by one hop of transfers
(`ExpandScope`), loads and replays it (`Load`), deletes the rows of the four
tables (`Delete`, four times) and inserts the new ones (`InsertPositions`,
`InsertCash` with the commit).

The database is modelled as far as it matters. A statement sees what was
committed when it began, and its own writes. A DELETE waits for whoever is
deleting the same rows; when it goes on, it does not see the rows that were
committed while it waited. An INSERT waits for a pending row with the same
unique key and fails on a committed one; positions and cash have such keys, lots
and realizations do not. TLC also checks here that no two requests ever wait for
each other (the `Done` step tells the end of a behaviour from a deadlock).

Abstracted: integers, with pools of operations that divide exactly; commission
and tax are one field; the frozen exchange rate only scales figures in base
currency, left out with the flows, the income totals and the checkpoints that
the analytics read; the cached close is constant; operations with and without a
time are never mixed on one day.

### The daily series (`Snapshots.tla`, `ServicesProofs.tla`)

The rows of one build are one value, `series`: the operations, currency and
closes that were read, and the instant its transaction began. `StartBuild` is the
nightly job, which visits the users that have operations and no others;
`RebuildSnapshots` the mutation, which builds whoever asks. `LoadBook`, `ReadGrids`
are `buildForUser` read by read; `Delete` and `Insert` its
transaction under READ COMMITTED, with the DELETE that waits and then does not
see what was committed meanwhile, and the unique index on user and day that
refuses a second series. `EnsureCurrent`, `Join`, `Read`, `Answer` are a query of
the analytics; `IsStale` the comparison of instants. `BeginWrite`, `BeginRemoval`,
`CommitWrite` stand for any transaction on the book, whose rows carry the instant
it began. Abstracted: the valuation of a day, a figure in floating point, stands
for what it was computed from.

### Operations that arrive (`OperationIndex`, `StatementImport`, `BrokerConnectors`,
`BrokerSync`)

`OperationIndex` is `investment_transactions` as seen by whoever inserts with
`orIgnore`: `InsertOrIgnore` gives every outcome that the two unique indexes allow.
They are on different data. The hash of `dedupe.ts` is of the natural key (type, day,
instrument, quantity, amount and currency, `occurrenceIndex` always 0), which two
records of a broker may share: `Row` makes it of the leg, the day and the `terms` of
a record. The other is on the broker's reference, which is of one record, and which
Interactive Brokers may leave out. The synchronisation hashes what
`toInstrumentCurrency` makes of an operation (`StoredAs`, `Converted`: with a rate or
without, each time it runs), the import what the file says. So two operations may have
one hash, and one operation two.

| action | code |
|---|---|
| `Analyze`, `BeginRemap`, `EndRemap` | `import.service.ts`: the draft with its duplicates marked |
| `BeginCommit`, `InsertRows`, `SaveCommit` | `commit`: the checks on the loaded batch, the transaction, the save of the whole entity |
| `BeginDiscard`, `EndDiscard`, `Abandon` | `discard`; an exception or a crash at any step |
| `StartSync`, `EnsureAccount`, `Fetch`, `Persist`, `SetCursor`, `FinishSync`, `FailSync`, `CrashSync` | `investment-sync.service.ts`: `syncAll` and `sync` |
| `CreateConnection`, `StoreCredentials`, `UpdateConnection`, `RemoveConnection`, `VerifyConnection`, `RemoveExternalAccount` | `broker-connections.service.ts`, and the removal of the account |

`BrokerConnectors` is what `fetchTransactions` of each broker asks for and what
it makes of the cursor. A broker holds records, each with the day it is filed
under and the (later) day it is shown. `FetchEtoro`: a year, a week behind the
cursor, in pages that end; `FetchInteractiveBrokers`: whatever the user's query
spans; `FetchXtb`: closed positions and the open ones; `FetchBinance`: trades by
pair from the last id, with candidate pairs up to a limit, and conversions and
fiat in windows counted from a mark. `ToTransactions` gives the legs of a record.
Abstracted: signatures and HTTP retries, the format of the answers, the
encryption of credentials, the resolution of instruments, the rates (a conversion
gives one of the keys in `Conversions`), which profile reads a file; a user has one
connection at a time.

### A session with XTB (`XtbSession.tla`, `ServicesProofs.tla`)

The socket, the commands one after another and the four timers of class
`XtbSession`: connection, command, ping, idle. `OnMessage` hands an answer to
whoever has its tag, `TimeRunsOut` is a timer that is due, `SocketCloses` may come
between two commands, when nobody waits. `Tick` lets time go by when nothing is
due.

### Access (`Access.tla`, `ServicesProofs.tla`)

The row of `authentications`, the refresh tokens and one API key of a user. A
request loads a row (`BeginAuth`, `BeginToken`, `BeginKey`), works on its copy and
saves the columns it loaded (`SaveAuth`, `RotateToken`, `SaveKey`); then it may end
the sessions (`RevokeSessions`) or issue a token (`IssueTokens`). `Loaded` says
which columns a query asks for, since those with `select: false` come only when
named; `Accepts` what an operation requires, `Assigned` what it changes.
`AbandonRequest` is a failure between two writes. Abstracted: registration (it is
the initial state), hashing, the limit of attempts, the record of a key's last
use; a code that is typed is right.

## 4. The runs

Each run answers a question of its own. The bounds are in its `.cfg` and in the
`MC` module it names.

| run | instance | what it shows |
|---|---|---|
| `ledgers` | `MCLedgers`: accounts, investments, installments and what is at home, one per behaviour | the tables keep their types and foreign keys (`TablesOK`); replaying a book conserves cost (`CostConserved`) and a write nothing overtakes leaves what the whole book implies, where one hop suffices (`LoneWriteSettles`); no account parts from its movements but those the overlaps of `exposed` explain (`BalanceDriftExplained`); plans are whole and their tables level (`InstallmentsAddUp`, `PrincipalRepaid`); a limit, the funds and a repair are right unless something committed between check and commit (`DebitsCovered`, `RecalculateRepairs`); what was bought is at home or listed (`InStockOrListed`) and two purchases can create one article (`CreationShared`) |
| `accounts_move` | one request at a time | refutes `BalanceMatchesMovements` (section 7) |
| `investments_drift` | one writer | refutes `DerivedMatchesBook` (section 7) |
| `mail` | `MCMail`, in six modes | with crashes and failures outside the windows: `Custody`, `AtMostOneExpense`, `DuplicateJustified` and the refinement `ImplementsRegistry`; with everything that fails in a living process, three of the windows open: links stay sound (`LogAndLinksSound`) and mails settle (`EveryMailSettles`); the cursor passes no unread mail (`MailboxRead`); a suggestion yields to the user (`LateAnswerYields`) |
| `mail_crash_window` | one mail, only `crashBeforeLink` | refutes `AtMostOneExpense` (section 7) |
| `market` | two processes, a cron, a request and a manual refresh | `DayQuotaKept`, `MinuteOvershootBounded`, `ChainServes`, `RequestServed`, `PriceCurrent` |
| `market_hole` | the same, no restart | refutes `RangeCached` (section 7) |
| `services` | `MCServices`, in six modes | the queue: `RunningBounded`, `WorkConserving`, `NoLostWakeUp`, `FirstInFirstOut`, and everything ends (`QueueEnds`); recurring charges on their dates, none missed (`ScheduleKept`), each in the end (`DueIsCharged`); the series catches up with a book left alone, unless it is empty (`SeriesCatchesUp`); a session with a broker is contained (`SessionContained`); what is revoked stays so (`RevocationHolds`); nobody is locked out by a change of method (`SecondFactorUsable`) |
| `snapshots_stale` | one job, one query, two operations | refutes `FlagTellsTruth` (section 7) |
| `arrivals` | `MCArrivals`: two batches and two requests, or one broker synchronised by two runners over three days with an import beside it | a batch tells the truth of itself (`BatchTellsTruth`); a synchronisation that ends well has caught all it owed (`BrokerCaught`), and what the stored cursor says was brought is in the book (`CursorNotAhead`), in both but for operations equal to one that is there and those without an amount; no row refers to a connection that is gone (`TypeOK`) |
| `arrivals_windows` | Binance, one runner, four days | refutes `RecentAsked` (section 7) |
| `arrivals_ways` | XTB, one runner, a statement beside it | refutes `EnteredOnce` (section 7) |

Why the bounds are enough, as far as bounds can be:

* **accounts** (a bank account and a card with limit 2, amounts 1 and 2, two
  movements, one plan, two requests in flight, five started). A wrong balance
  needs one read, one foreign commit and one write from what was read: two
  requests in flight. Five requests let two movements be created, edited or
  removed around an account that is created, renamed or recalculated. A third
  request in flight adds a second foreign commit, which `stale` treats as the
  first one. Movements and requests are interchangeable: symmetry.
* **investments** (three accounts, one instrument, five initial books, two
  writers, two requests). Three accounts are one more than a hop reaches, which
  is where one hop stops being enough. The pool has two lots of different cost,
  a transfer that spans both, a transfer onward, a sale across a reopened lot, a
  split and an unpaired arrival and departure, each to be recorded, edited or
  removed on top of a book that holds others. Two writers cover every pair of
  overlapping rebuilds.
* **installments** (1 to 60 cents, 2 to 5 installments, 0, 5 and 10 %). The
  residue the last installment absorbs depends on the principal modulo the count;
  sixty cents cover every residue of two to five several times. A principal
  smaller than the count gives installments of zero, which the check on the
  amount would refuse; the calculator itself is right there too.
* **inventory** (one article, two requests in flight, five begun). Every statement
  names one article, so others are independent; a cycle that is opened, closed
  and opened again, with a request beside it, takes four.
* **mail, once and settles** (two mails of one invoice, one without in the first;
  two workers, two expenses). The hazard is a pair: one invoice, two carriers, two
  workers. A second invoice would be independent of the first, since every
  statement names one CUFE. The theorems cover every number for safety.
* **mail, mailbox** (days 5 to 7, a history kept one day, two mails, two mailboxes;
  two synchronisations at once in one day, or one over the days, or two readings
  of old mails). Three days are the least in which a history kept one day is
  forgotten and a mail that failed is older than the cursor. What is not crossed
  is a synchronisation with a reading of old mails: they write different rows, and
  a mail ingested twice is the subject of the ingestion.
* **mail, suggestions** (one purchase, one article, a category and a subcategory of
  it). The theorem covers every number; a variant with two articles was checked
  apart, and what two articles add is that nothing is inherited.
* **market** (one credit a minute, two a day, two days, three jobs, one restart). The
  overshoot of a minute needs a call in each of two processes; the budget needs
  more calls than credits. The second day is where pending requests are resumed.
  One instrument, because every row is read and saved on its own; four days of
  history with a stored prefix are the least in which a hole fits between prefix
  and window.
* **queue** (five tasks, three places). The line has a first and a second, a place is
  freed while both wait, and a shutdown can begin at any point. The theorems cover
  every number.
* **recurring** (one template, monthly from the 28th of January or biweekly with an
  end; two days a month apart; one edit, one fault). The dates make the template
  due twice in one execution and put its end between occurrences. One edit, one
  fault and two executions are enough for each pair of holders. One template: what
  a second one adds is that an exception of the first takes it along, which is the
  reason `DueIsCharged` promises nothing then.
* **snapshots** (one job, one query with its shared build, two operations of which
  one lies in the future, two writes, one refresh, one fault). Two builds at once
  are what the DELETE that waits and the unique index are about.
* **access** (two requests at once, three tokens, one new password, three requests;
  the key apart from the rest, as it has its own row). Three requests are the
  least that log in, fork or change, and try again.
* **session** (three commands; time-outs of 3, 4, 2 and 6 ticks for 15, 20, 8 and 30
  seconds). The order of the timers is kept: connection below command, ping
  below both, idle above all.
* **arrivals** (days 10 to 12, overlap 1, history 4, pages of 2, windows of 2 and 3
  days, three of them, one pair; one connection). The brokers' history has more
  records than eToro's pages hold, records shown a day late, a position of XTB that
  is still open, a movement of a type that is not known, and a trade that is shown
  once its asset is gone. There is a pair of equal operations of each kind: two
  positions bought alike, two dividends of which one has no reference, two trades; and a
  position of XTB in another currency than its instrument's, which the statement
  imported beside has too. Binance is followed for the last two days, the
  others from the first; its marks go back at every synchronisation, and
  `EarliestMark` stops them after two in a row. `arrivals_windows` uses one day more,
  which is what it
  takes three windows of two days to fall short.

## 5. Fairness

* The queue: weak fairness of `Settle(t)` for every task in course. Justified by
  the classifier, whose every request carries a time-out
  (`category-classifier.service.ts:41-43,133,230`), after which `run` settles.
  Nothing is assumed of `TimeOut`, the shutdown's own timer: `QueueEnds` holds
  without it.
* The mail: weak fairness of the steps of a worker that has begun: every awaited
  statement or call settles, one way or the other. Nothing forces a mail to arrive
  or be retried, and crashes are not in that mode: a mail whose worker died stays
  PROCESSING until someone retries it, by design. The failures of statements
  outside the `try` of `process` are not in it either (`errorInFinish`,
  `errorOutside`): those do leave a mail in PROCESSING.
* Recurring expenses: weak fairness of `BeginRun` (the cron fires every day), of
  the steps of an execution in course and of the save of an edit in course.
  `DueIsCharged` promises nothing while some template cannot be charged: a single
  one throws out of the loop (`recurring-expenses.service.ts:151`).
* The series: weak fairness of `StartBuild(j1)`, the nightly job
  (`snapshots.cron.ts`), which is enabled for a user with operations only
  (`usersWithTransactions`, `snapshots.service.ts:61,270-275`), of `CommitWrite` and of
  the steps of a build in course:
  awaited statements settle. Failures are bounded (`MaxFailures`), so some night
  none happens. No query and no mutation is forced to come: the job
  alone brings the series up. To an emptied book it does not come, and then the old
  series stays (section 7): `SeriesCatchesUp` promises nothing there.
* The other specifications are checked for safety only and assume none.

## 6. Proofs

TLAPS checks what follows for every value of the constants that satisfies the
named assumptions, which TLC evaluates in the runs. `PROJECT.json` lists the
theorems, with the property of a run each one states where it does. Every module
of proofs follows one pattern: an inductive invariant made of named parts, what
the initial states and each action do to it (a lemma per action), a `...Step` lemma
over the next-state relation, and the theorems.

**The parts and the whole.** The runs check specifications that put components side by
side. `LedgersAreIndependent`, `ServicesAreIndependent` and `MailIsItsParts` say that
each behaviour of such a specification is one of every component in it, so every
theorem of a component, liveness apart, holds of what the run checks too; of the mail,
the ingestion is two instances, with the windows shut and with three of them open.
`LedgersTypeCorrect`, `ServicesTypeCorrect` and `MailTypeCorrect` are the types of the
whole. `MCArrivals` is different, because its parts share a table: `ModesStep` shows that
its steps are steps of the imports or of the synchronisations, and all the invariants
below go through together (`ModesInv`), which gives `ArrivalsTypeCorrect` and
`ArrivalsKeepTheBook`.

**Folds** (`FoldProofs`). The folds of the community modules are a recursive function
that `CHOOSE` picks, and the library's induction theorems take an operator. In their
place the argument is a least counterexample: a well-founded order has a minimal
element in every set (`WFMin`), and the sets, or the lengths, at which a fact fails are
such a set. That gives that the function exists (`FoldExistsTo`), that it is the
recursive one (`FoldIsRecursive`) and two rules to compute with (`FoldOfNone`,
`FoldUnfolds`); a module instantiates `FoldProofs` with the fold it uses.

**Accounts** (`AccountsProofs`). `BalanceDriftIsExplained`, `PlansStayWhole`,
`DebitsAreCovered`, `RecalculationRepairs` and `AccountsTypeCorrect`, all from
`AccountsInv`. A balance is a column moved by deltas and the ledger is a sum over
rows; they agree (`Settled`) because a commit moves both by the same amount, which is
so while the rows it read are still the rows it changes. So the invariant says of
every mutation in flight what survives the commits of the others: it is about an
account and rows that were issued (`Anchored`), no edit is of a row that the removal
of a plan takes (`Apart`), and, unless it is `stale`, what it read still holds
(`ReadsStill`): the credit, the row it edits, the plan and its total, the distance
between the balance and the opening, the sum it aggregated. `Sound` are the tables:
foreign keys, and plans that add up (`PlansAddUp`). `DebitsCovered` and
`RecalculateRepairs` are action properties: `ReadsStill` of the mutation that commits is
what they need. The sums come first: `SumFunctionOnSet`
folds over a set by choosing an element at a time, and the lemmas that a row added,
removed or changed moves the sum by what it moves are proved for any finite set.

**The investment book** (`LedgersProofs`, last part). `CostIsConserved` is about the
replay of
a book: `SortLists` (whatever order `Comes` is, sorting lists each operation once),
`AfterNext` (the replay goes operation by operation), and then one lemma per kind of
operation on what it does to the three sums (`BuyMoves`, `DisposalMoves`, `SplitMoves`,
`TransferInMoves`, ..., joined in `ApplyMoves`). A disposal is the hard one: what is taken
from the lots is exactly the quantity (`TakenFits`), what is realized costs what the
lots lost (`SoldRows`, `GainsAre`), and what a transfer reopens costs the same at its
destination (`ReopenAdds`). `Kept` carries both equalities from one operation to the next
(`KeptNext`). The hypothesis `BookDivides` is the one a rounding ledger needs: the unit
cost of a purchase, the unit proceeds of a sale and the lots of a split leave no
remainder; TLC finds it true of every book of the run. `BookTypeCorrect` is by
`BookInv`: what a request removes is in the book, what it adds is one operation of the
same id that takes the place of every row of it, and what it has stored is of accounts
the book knows (`WriteOK`, `StoredOK`); two requests in flight touch rows of different
ids and create different ones (`Untangled`).

**Mail** (`MailIngestionProofs`). `IngestionTypeOK` and `LinksStaySound` hold under
every fault. Outside the four windows (`SafeFaults`), the invariant is `Custody`: a
mail has one worker (`OneWorkerPerMail`), from the reservation to the link the
reservation is still that worker's (`ReservationKept`), and an expense of the
books is named by its reservation or is in the hands of the worker about to
name it (`ExpenseHeld`). None of the three is inductive alone: without one
worker per mail a retry would release a live reservation, and without a kept
reservation a second worker could reserve the invoice of an expense that is not
yet linked. One lemma per action (`...KeepsCustody`), then `IngestionCustody`,
`InvoiceRegisteredOnce` (`CustodyMeansOnce`) and `IngestionImplementsRegistry`:
the only step that adds an expense is `Register`, and whoever takes it holds the
reservation of an invoice the books do not have (`HolderFindsNone`).
`LinksStaySound` is by `References`: the expense a worker is about to link is its
own (`OwnExpense`) and registers the invoice in hand (`InHand`), and what the log
and the reservations name stays so (`Logged`, `Matched`). `LogNamesTheBooks` adds
`Custody` to it. `DuplicatesAreJustified` needs one hypothesis more, that the mailbox
stays connected (`Lasting`): a disconnection deletes the rows of the mails, the one
that would have registered the invoice included, and leaves the mails given up for
its sake. `Justified` follows an invoice that is not in the books to a mail that can
still register it (`Hope`); a pending reservation has such a mail (`Rooted`), and a
worker that gave its mail up has left none behind (`Fresh`).

**Which mails are read** (`MailIngestionProofs`, second part). `MailboxIsRead` is by
`SyncInv`. A cursor is sound when no mail beyond it is older than its mark allows
(`SoundHistory`), which is what makes the recovery of an expired history go back
far enough; what an execution loaded stays sound because mails only arrive and
days only pass. `Followed` says, stage by stage, that what an execution still has
to hand over plus what was read covers its cursor, while the mailbox it loaded is
the one that is there; `Noted` the same of the stored cursor. `Hunted` and
`DoneIsRead` are the readings of old mails.

**Suggestions and queue** (`MailProofs`, `ServicesProofs`). For the queue, the inductive
invariant is the conjunction of `TypeOK`, `RunningBounded`, `WorkConserving`,
`NoLostWakeUp` and `RunOnce`. `WorkConserving` is what the others lean on: since no
place is free while a task waits, a freed place starts at most one task, so `pump`
is a step that can be followed by hand (`StartsNone`, `StartsOne`).
`QueueFirstInFirstOut` is the action property. `SuggestionsYield`: for any purchases,
articles and tree of categories, `LateAnswerYields`. The property alone is not
inductive, because the late write compares by value: it is safe only since the
category an expense was registered with cannot come back. The invariant adds that
it was given up by removing it (`DefaultGone`), and that an edit which began before
writes back what it read (`EditAgrees`). `CategoriesExist` takes the same invariant,
and that an answer is only held by a task that is writing (`Answered`).

**Recurring expenses** (`ServicesProofs`). `ScheduleIsKept`: for any calendar whose
months have twenty-eight days or more. The first part is arithmetic of the calendar:
a day has one month (`MonthUnique`, `MonthExists`), a template on one of the first
twenty-eight days goes from its n-th date to its next one in a step of
`AddInterval` (`NextDate`). Then `Covered`, of a row wherever it is copied: some n
dates come before its next one, and each has an expense. It survives every overlap
because a stale copy that is saved only goes back, and the expenses only grow. And
`Kept`, of a template that nothing disturbed: one request at most has it in hand
(`Alone`), its copy is charged exactly to its next date, and so is its row, but while
an execution charges it (`AtWork`). `FrequencyKept` is a hypothesis of the theorem,
and a real restriction: an update may change the frequency of a template, and then
its earlier charges are not dates of the new one. `RecurringTypesCorrect` does
without it.

**Arrivals** (`ArrivalsProofs`). `ArrivalsSpec` is the imports with any number of
synchronisations beside them, which may start in any state. For
`BatchesTellTheTruth` the invariant says how far each request has got
(`Structured`), that what a confirmation submitted is in the book or was deleted
with its account from the insert on (`PromisesKept`), and that a batch nobody
disturbed and that is not committed has rows in the book only while its one
request is between insert and save (`Quiet`). It rests on two facts about every
step of either component: no step forgets what the indexes told a row by (the traces of
the book and of `forgotten` only grow, `TableForgetsNothing`), and rows of a batch come
from its own insert only.
`SynchronisationCatchesAll` starts with no synchronisation in course (`BrokersSpec`).
Its invariant, `BrokerInv`, gives a cursor a meaning (`Covers`): every record shown in
time that the next reading will not ask for again, and every trade up to the last id,
is in the table, by its key or by its reference, or in what the synchronisation has
fetched and not yet stored. Nothing is assumed of the keys: records may share them
and each synchronisation may convert a row otherwise, so the step that inserts shows
of each row that it went in or collided with one that is equal or has its reference
(`PersistBrings`). One lemma per broker (`...Delivers`) shows that what it fetches and the
cursor it returns keep that, and that without warnings all that was due is there. It
is the assumption `TradesAssumption` that makes an id a cursor: an exchange numbers
trades in the order it shows them. That an answer holds at most 1000 trades is left
out of the model. `CursorNeverAhead` reads the same invariant at the stored cursor: the
connection's `Covers` is what makes `CursorNotAhead` true between a `Persist` and a
`SetCursor`, after a failure of either, and when an older cursor is written back
(`InvNotAhead`).

**Market data** (`MarketDataProofs`). For the limiter, `DayBudget` is by `BudgetInv`:
each granted credit is a position in the count of its day, positions within the sum
that was checked lie in `1 .. CreditsPerDay`, and a call charged today has its
position within today's sum (`Counted`), so concurrency cannot grant a position
twice over the limit. It needs that days do not run backwards (`DayMonotone`) and
that what has left the queue is at the head of its chain (`Served`). `LimiterTypes`
is part of it. `MinuteBudgetOfOne` adds, for one process, that a call about to
charge still fits in the minute it looked at (`Fits`): nobody else can have
charged meanwhile. `QueueServes` (`ChainServes`) adds that a chain holds each
task that waits once, and none other (`Orderly`). `MarketUsesLimiter` shows that
`MarketData!Spec` implies `LimiterSpec`: every step of every job is a step of the
limiter or leaves it alone. So what is proved of the limiter holds for the
system, without looking at the jobs again: `MarketBudget`, `MarketQueue`.
`RequestsAreServed` and `PricesAreCurrent` are about the jobs themselves, by
`MarketInv`. Of an instrument nothing disturbed, the copy a job holds agrees with the
row (`Agrees`: the request it read is the one that is there, the range it fetches is
the one that answers it) and one job holds it; the last price is the close of the last
day stored, but between the insert of the closes and the save of the price.

**Sessions** (`ServicesProofs`). `SessionIsContained` (XTB): the commands before the one
in course have been answered (`CommandFirst`), and the time spent is at most the
connection's and the commands' so far (`WithinBudget`), which bounds the whole.
`RevocationIsFinal` and `SecondFactorStaysUsable` (access) are by `AccessInv`: while one
request holds the row of the credentials, the row and its copy are coherent
(`RowKept`); what is open, or about to be, has the password of the row
(`PasswordKept`); a session is carried on by one token or by one request
(`SessionsKept`); and the key is saved as it was but for the operation of whoever
holds it (`KeyKept`).

**The daily series** (`ServicesProofs`, last part). `BuildsExclude` is by `SnapshotInv`: a
build holds rows only between its DELETE and its inserts, while there are rows
(`Stepwise`), one holds them, and whoever waits waits for that one (`Exclusive`), and
queries wait only for the build they share (`Shared`). `SnapshotAssumption` says the
bounds are numbers and that no job is called as the build of the queries.

**Installments and what is at home** (`LedgersProofs`). `TableRepaysPrincipal`:
whatever the rounding, what is repaid and what remains add up to the principal,
nothing negative remains, and at the end nothing remains. `InstallmentsAreLevel` is
`LevelPayment` for every amount, number of installments and rate; `PurchasesAddUp` is
the property of the run, `InstallmentsAddUp`: it and `PlanWhole`. Before the last one
an installment is the regular one, or less once the capital ran out. How far the last one
is from it is the hard half. The invariant (`LevelInv`) follows the balance: without
interest it is what so many regular installments did not take; with interest, `Near`
compares it with what is owed exactly, both scaled to integers. The half cent of the
payment and that of each interest enter once a period (`PaymentIsNear`, `RoundIsNear`),
a period multiplies the distance by one plus the rate and adds them (`ErrorMoves`,
`ErrorGrows`, `PeriodStaysNear`), and a capital that runs out early stays near because
nothing is owed after the last period (`PowersLag`). At the end the distance is at most
((1 + rate)^count - 1) / rate cents (`LastIsNear`). A cent per installment, the
bound one expects, holds only without interest: with twelve installments at 10 % the last
one can be 17 cents apart. What a power is
(`base ^ 0 = 1` and `base ^ (k + 1) = base * base ^ k`), which the provers do not know, is
the assumption `PowersAssumption`, evaluated by TLC for the constants of the run; that the
payment is an integer, that the powers grow apart and how they compare follow from it
(`PaymentIsInteger`, `PowersGrow`, `PowersLag`).
`HomeIsKept` is by `HomeInv`: one request has a settled article in hand (`Alone`), what
it read is still so (`Relied`), and an article in nobody's hands is at home or listed
(`AtRest`). `CreationIsShared` is by `SharedInv`, beside it: a purchase that found the
name taken still finds the article, but for one removed since it began (`Found`);
`removed` records who that happened to, because a later purchase may create the
article anew.

Exceptions of the properties carry over to the theorems: `exposed` and `stale`,
`disturbed`, `unsettled`, `contended`, `forked` are history variables, so a theorem says
the property fails only after the overlap or failure they record.

Only model-checked:

* every liveness property (`EveryMailSettles`, `QueueEnds`, `DueIsCharged`,
  `SeriesCatchesUp`), which is out of the prover's reach together with `ENABLED`;
* `LoneWriteSettles`: that the tables a write leaves are those of the whole book needs
  that replaying the operations of some accounts gives what replaying all of them gives
  in those accounts, for every order of the operations;
* `CostConserved` without its hypothesis `BookDivides`: it is proved of every book whose
  divisions are exact, as all those of the run are, and says nothing of the others.

## 7. What the runs found

* **An edit that names another account loses it** (`accounts_move`).
  `ExpensesService.update` (`expenses.service.ts:205`) and
  `IncomesService.update` set `paymentMethodId` on an entity that was loaded with
  its relation, move both balances, and save: the row keeps the old account.
  The two balances stop being the sums of their movements, against
  `payment-method.entity.ts:138` and `docs/API.md:201`.
* **A crash between expense and link registers an invoice twice**
  (`mail_crash_window`). The reservation without an expense looks stale to
  `retry`, which deletes it (`mail-ingestion.service.ts:241`, against `:68-69`
  and `mail-invoice.entity.ts:18-19`). The other three windows have the same
  effect and are why the theorems assume `SafeFaults`.
* **A hole in the history counts as covered** (`market_hole`). `missingRange`
  looks at the two ends of what is stored; the nightly refresh stores the last
  days before the pending requests are served, so a history that had stopped
  acquires both ends (`prices.service.ts:303`, against `:76`).
* **The derived tables part from the book** (`investments_drift`). A split
  recorded in one account does not reach the lots another account holds when
  that other account is rebuilt alone (`positions.service.ts:140`, against
  `portfolio-ledger.ts:543-544` and `investment-transactions.service.ts:329-330`).
* **A stale series that says it is current** (`snapshots_stale`). `isStale`
  (`snapshots.service.ts:494`) compares the latest `updated_at` of the operations
  that exist with `created_at`: a removal only lowers the first, and a write that
  was in flight while the build read carries an instant before the second. After the
  removal of the last operation the old series stays for good, with the flag down: the
  queries find it current and the nightly job does not visit the user; against
  `portfolio-evolution.type.ts:62-64` and `docs/API.md:974`.
* **The windows of Binance stop short of today** (`arrivals_windows`). The mark of a
  source is the start of what was asked for and goes back a week at every
  synchronisation; forty windows of thirty days are counted from it. After some
  sixty nightly synchronisations, or some 470 days, the last window ends before
  today (`binance.connector.ts:308`, against `:319-320` and `docs/API.md:1214`).
* **One operation, two rows** (`arrivals_ways`). The synchronisation hashes the amount
  and currency it converted (`investment-sync.service.ts:390-393`), the import those
  of the file (`import.service.ts:694-704`), and the reference of a file is of no
  connection: a position of XTB bought in euros on an instrument in dollars is booked
  twice when it comes both ways, against `dedupe.ts:10-19`.

Met while modelling, and visible in the models as the cases their properties
exclude:

* Accounts: renaming an account writes back the balance it was loaded with; two
  overlapping removals of a movement apply its effect twice; credit and funds
  are checked before the transaction. These are the `stale` and `exposed`
  exceptions of the properties.
* What is at home: a failure between the two commits of `markDepleted` leaves an
  article neither at home nor listed, and a retry finds no open cycle
  (`unsettled`).
* Recurring expenses: two executions that overlap, or a crash before the save,
  charge an occurrence again (never miss one: `NoneMissed`); a removed template
  comes back with a stale save; an update can leave a template with neither
  amount nor items, and then every execution stops at it; a template of the 31st
  changes its day in the first short month (`Regular` excludes it).
* Limiter: two processes that look at a minute together exceed it, by one call
  per additional process; a call that midnight catches between charge and check
  is counted in neither day.
* Prices: a request made while a job holds the row is erased by the job's save;
  an empty answer clears a request.
* Investments: two overlapping rebuilds of an account can keep both sets of
  lots, which have no unique key, or store positions that the other made old;
  removing a transfer leaves the destination's lots; a chain of transfers makes
  the rebuild insert rows in accounts it did not delete from, which is refused
  as a conflict; a corrected cost basis writes the price of the opening
  operation, before any split, and has no effect on lots opened by a purchase or
  a transfer. `OneHopSuffices` and `alone` say when none of this happens.
  `resolveMissingFxRates` writes over a rate typed meanwhile and rebuilds in
  another transaction, and an update that changes the date of an operation keeps
  its old rate; rates are left out of the model. The comparator of
  `portfolio-ledger.ts:183` is not transitive when operations of a day with and
  without a time meet, which the pools avoid.
* Imports: a discard or a remap that began before a confirmation was saved, or a
  failure between its insert and its save, leaves a batch that denies the rows it
  put in the book (`disturbed`).
* Equal operations: every way in but the one by hand leaves `occurrenceIndex` at 0, so of
  two equal fills, dividends or deposits of a day `orIgnore` drops the second, without
  a warning, and the cursor moves on (`investment-sync.service.ts:381`). Of a file
  they are marked as duplicates, and a user who unmarks them loses them all the same.
  `dedupe.ts:21-22` and `import.service.ts:631-633` say that `occurrenceIndex` tells
  them apart. `BrokerCaught` and `CursorNotAhead` count the equal operation that is in
  the book (`InBook`).
* Conversions between two coins: both operations have amount 0 and `toEntity` drops them
  without a warning (`investment-sync.service.ts:330-332`), while
  `binance.connector.ts:383-384` counts them as two operations. The same properties
  leave them out (`priced`).
* Brokers: eToro's history is truncated at fifty pages with a warning while the
  cursor moves past what was cut (`lost`); a pair of Binance that neither the
  balance nor the book nor the cursor names is not asked for (`Owed`); a
  correction of an operation already stored is dropped by `orIgnore`; an operation
  without a reference is booked again when its conversion finds another rate; a connection
  removed while it is synchronised throws outside the `try`.
* Access: two rotations of one token leave two live tokens (`forked`); a change of
  method or of password saves columns that another request changed meanwhile
  (`contended`, `keyContended`); a failure between the new password and the end
  of the sessions leaves them open (`unrevoked`).

## 8. What is not modelled, and why

* Parsing and input/output: the Gmail client, XML and ZIP, statements and
  spreadsheets, signatures and HTTP retries of the connectors, language models,
  invoice drafts. The models take their outcomes as inputs.
* Read-only figures in floating point: returns, inflation, analytics,
  benchmarks. They keep no state, and iterative root finding is beyond TLC's
  integers.
* Exchange rates, instruments and the monthly corporate actions: caches of an
  external provider behind the limiter that is modelled. A rate scales figures in
  base currency, which the ledger leaves out.
* Investment accounts and proposals of corporate actions, users, tags,
  configuration, migrations: rows edited one at a time. The constraints of the
  schema that matter are in the modules that meet them; removing a category is an
  action of `Categorization`.
* The limit of calls per broker connection (`common/rate-limit`): its last look at
  the window and the record of the call are one synchronous stretch. The daily
  notifications have no state.
* In the modelled components: what section 3 lists as abstracted;
  `ensureBenchmarkHistory` (`ensureHistory` with no row to mark) and manual prices
  of the market data.
* Three hazards have no property. How long the nightly job is skipped when its
  advisory lock leaks through the pool (`market-data.cron.ts:108`): the model lets
  the release miss, but the code makes no promise to check.
  `investment-transactions.service.ts:313`: it is about
  exchange rates. And operations that are equal, or have no amount
  (`investment-sync.service.ts:381`): the code drops them, so the properties of the
  arrivals are stated around them and section 7 says what is lost.

## 9. What could come next

1. Theorems: `LoneWriteSettles`, over the lemmas on the replay that `CostIsConserved`
   rests on; how much cost the roundings of a book can lose, when they do not divide.
2. Abstract specifications: a ledger of accounts that `Accounts` implements when
   nothing is stale; a calendar of charges that `RecurringExpenses` implements up
   to repetition; a table of sessions for `Access`.
3. Exchange rates: the rate in force on a date, with `resolveMissingFxRates` as a
   writer of the investment book.
4. Several connections of one user, and the cursor of one restored by an update
   that loaded it before.
