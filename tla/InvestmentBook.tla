--------------------------- MODULE InvestmentBook ---------------------------
(***************************************************************************)
(* The book of investment operations and the tables derived from it        *)
(* (investment-transactions.service.ts, positions.service.ts).             *)
(*                                                                         *)
(* Every write runs in one database transaction: it changes the book, then *)
(* rebuilds a scope of accounts by reading their operations, replaying     *)
(* them, deleting the four derived tables' rows of the scope and inserting *)
(* the new ones.  Transactions run under READ COMMITTED: a statement sees  *)
(* what was committed when it started and its own changes; a DELETE waits  *)
(* for whoever is deleting the same rows, and does not see the rows that   *)
(* were committed while it waited; an INSERT waits for a pending row with  *)
(* the same unique key and fails on a committed one.                       *)
(***************************************************************************)
EXTENDS PortfolioLedger, FiniteSets

CONSTANTS
  Writers,        \* concurrent requests
  Operations,     \* the operations a request may record; several may share an id
  Prices,         \* the unit costs a correction may give
  InitialBooks,   \* books the runs start from, their tables in order
  MaxRequests     \* bound on the requests of a behaviour

VARIABLES
  book,           \* investment_transactions, committed
  tables,         \* the four derived tables, committed: rows with their write
  tx,             \* what each request is doing
  requests        \* requests so far; names the write that inserted a row

vars == <<book, tables, tx, requests>>

\* What the service accepts: an operation on an instrument names it and a
\* quantity above zero, a split both its terms.
IsOperation(o) ==
  /\ o \in [id : Int, type : DOMAIN TypeOrder, account : Accounts,
           instrument : Instruments \cup {NoInstrument}, on : Int, at : Int,
           quantity : Int, per : Int, price : Int, amount : Int, charges : Int,
           to : Accounts \cup {NoAccount}, currency : STRING, settlement : STRING, settled : Int]
  /\ o.type \in {"BUY", "SELL", "SPLIT", "TRANSFER_IN", "TRANSFER_OUT"} =>
       o.instrument \in Instruments /\ o.quantity > 0
  /\ o.type = "SPLIT" => o.per > 0

IdsDiffer(ops) == \A o, p \in ops : o.id = p.id => o = p

ASSUME BookAssumption ==
  /\ IsFiniteSet(Accounts) /\ IsFiniteSet(Instruments)
  /\ ClosePrice \in [Instruments -> Int]
  /\ \A o \in Operations : IsOperation(o)
  /\ \A b \in InitialBooks : IsFiniteSet(b) /\ IdsDiffer(b) /\ \A o \in b : IsOperation(o)
  /\ Prices \subseteq Int /\ MaxRequests \in Nat

TableNames == {"realizations", "lots", "positions", "cash"}
DeleteOrder == <<"realizations", "lots", "positions", "cash">>

Idle == [stage |-> "idle"]
Active == {w \in Writers : tx[w].stage # "idle"}

Transfers(ops) == {o \in ops : o.type = "TRANSFER_OUT" /\ o.to # NoAccount}

Stored(write, derived) == [T \in TableNames |-> {[write |-> write, row |-> r] : r \in derived[T]}]

\* What a statement of w sees of the book.
OwnBook(w) == (book \ tx[w].gone) \cup tx[w].fresh

Init ==
  /\ book \in InitialBooks
  /\ tables = Stored(0, Derived(Replay(book)))
  /\ tx = [w \in Writers |-> Idle]
  /\ requests = 0

---------------------------------------------------------------------------
(* A request: what it reads and checks before its transaction begins.      *)

Begin(w, stage, change, accounts) ==
  /\ tx[w].stage = "idle"
  /\ requests < MaxRequests
  /\ requests' = requests + 1
  /\ tx' = [tx EXCEPT ![w] =
       [stage |-> stage, change |-> change, accounts |-> accounts, scope |-> accounts,
        write |-> requests + 1, gone |-> {}, fresh |-> {}, derived |-> Derived(EmptyLedger),
        next |-> 1, waiting |-> FALSE, aim |-> {},
        deleted |-> [T \in TableNames |-> {}], inserted |-> [T \in TableNames |-> {}],
        alone |-> TRUE]]
  /\ UNCHANGED <<book, tables>>

Create(w) ==
  \E o \in Operations :
    /\ \A p \in book : p.id # o.id
    /\ \A v \in Active : tx[v].change.id # o.id
    /\ Begin(w, "write", [kind |-> "create", id |-> o.id, row |-> o], {o.account})

\* update keeps the type, the instrument and the counterparty of the row it read.
Update(w) ==
  \E existing \in book, o \in Operations :
    /\ o.id = existing.id /\ o # existing
    /\ o.type = existing.type /\ o.instrument = existing.instrument /\ o.to = existing.to
    /\ Begin(w, "write", [kind |-> "update", id |-> o.id, row |-> o],
             {existing.account, o.account})

RemoveOperation(w) ==
  \E existing \in book :
    Begin(w, "write", [kind |-> "remove", id |-> existing.id, row |-> existing],
          {existing.account})

\* setLotCostBasis writes the price of the operation that opened the lot.
SetLotCostBasis(w) ==
  \E r \in tables.lots, price \in Prices :
    Begin(w, "write", [kind |-> "price", id |-> r.row.lot.by, row |-> price], {r.row.account})

\* rebuildAll: the manual valve, for every account or for one.
RebuildAll(w) ==
  \E accounts \in {Accounts} \cup {{a} : a \in Accounts} :
    Begin(w, "scope", [kind |-> "rebuild", id |-> 0, row |-> 0], accounts)

---------------------------------------------------------------------------
(* The transaction of a request, statement by statement.                   *)

Rollback(w) == tx' = [tx EXCEPT ![w] = Idle]

\* The write itself.  An update or a removal matches by id: of a row that is
\* gone it changes nothing, and the rebuild goes on.
Gone(w) ==
  IF tx[w].change.kind = "create" THEN {} ELSE {o \in book : o.id = tx[w].change.id}

Fresh(w) ==
  LET c == tx[w].change
  IN CASE c.kind = "create" -> {c.row}
       [] c.kind = "update" -> {c.row : o \in Gone(w)}
       [] c.kind = "price"  -> {[o EXCEPT !.price = c.row] : o \in Gone(w)}
       [] OTHER -> {}

Write(w) ==
  /\ tx[w].stage = "write"
  /\ \A v \in Active \ {w} : \A o \in tx[v].gone \cup tx[v].fresh : o.id # tx[w].change.id
  /\ tx' = [tx EXCEPT ![w].stage = "scope", ![w].gone = Gone(w), ![w].fresh = Fresh(w)]
  /\ UNCHANGED <<book, tables, requests>>

\* expandScope: one hop along the transfers, in both directions.
Expanded(accounts, ops) ==
  accounts \cup {o.to : o \in {p \in Transfers(ops) : p.account \in accounts}}
           \cup {o.account : o \in {p \in Transfers(ops) : p.to \in accounts}}

\* Mutant of ExpandScope: only what leaves the accounts of the write.
ExpandScope_Outgoing(w) ==
  /\ tx[w].stage = "scope"
  /\ tx' = [tx EXCEPT ![w].stage = "load",
                      ![w].scope = @ \cup {o.to : o \in {p \in Transfers(OwnBook(w)) : p.account \in @}}]
  /\ UNCHANGED <<book, tables, requests>>

ExpandScope(w) ==
  /\ tx[w].stage = "scope"
  /\ tx' = [tx EXCEPT ![w].stage = "load", ![w].scope = Expanded(@, OwnBook(w))]
  /\ UNCHANGED <<book, tables, requests>>

\* loadEvents and replay; a LedgerError rolls the write back.
Load(w) ==
  /\ tx[w].stage = "load"
  /\ LET ledger == Replay({o \in OwnBook(w) : o.account \in tx[w].scope})
     IN IF ledger.ok
        THEN tx' = [tx EXCEPT ![w].stage = "delete", ![w].derived = Derived(ledger)]
        ELSE Rollback(w)
  /\ UNCHANGED <<book, tables, requests>>

InScope(w, T) == {r \in tables[T] : r.row.account \in tx[w].scope}
Locked(w, T) == UNION {tx[v].deleted[T] : v \in Active \ {w}}

\* One DELETE of persist; it waits while another transaction holds a row of it.
Delete(w) ==
  LET T == DeleteOrder[tx[w].next]
      aim == IF tx[w].waiting THEN tx[w].aim ELSE InScope(w, T)
  IN /\ tx[w].stage = "delete"
     /\ IF aim \cap Locked(w, T) # {}
        THEN /\ ~tx[w].waiting
             /\ tx' = [tx EXCEPT ![w].waiting = TRUE, ![w].aim = aim]
        ELSE tx' = [tx EXCEPT ![w].deleted[T] = aim \cap tables[T],
                              ![w].waiting = FALSE, ![w].aim = {},
                              ![w].stage = IF T = "cash" THEN "positions" ELSE "delete",
                              ![w].next = @ + 1]
     /\ UNCHANGED <<book, tables, requests>>

\* Positions are unique by account and instrument, cash by account and
\* currency; lots and realizations have no unique key.
SameKey(T, r, s) ==
  /\ r.row.account = s.row.account
  /\ \/ T = "positions" /\ r.row.instrument = s.row.instrument
     \/ T = "cash" /\ r.row.currency = s.row.currency

Pending(w, T) == UNION {tx[v].inserted[T] \cup tx[v].deleted[T] : v \in Active \ {w}}

Clash(T, rows, others) == \E r \in rows, s \in others : SameKey(T, r, s)

New(w) == Stored(tx[w].write, tx[w].derived)

\* The inserts of lots and realizations neither wait nor show before the
\* commit: they go with the insert of the positions.
InsertPositions(w) ==
  /\ tx[w].stage = "positions"
  /\ ~Clash("positions", New(w).positions, Pending(w, "positions"))
  /\ IF Clash("positions", New(w).positions, tables.positions \ tx[w].deleted.positions)
     THEN Rollback(w)
     ELSE tx' = [tx EXCEPT ![w].stage = "cash", ![w].inserted = [New(w) EXCEPT !.cash = {}]]
  /\ UNCHANGED <<book, tables, requests>>

\* The insert of the cash balances and the commit.
InsertCash(w) ==
  /\ tx[w].stage = "cash"
  /\ ~Clash("cash", New(w).cash, Pending(w, "cash"))
  /\ IF Clash("cash", New(w).cash, tables.cash \ tx[w].deleted.cash)
     THEN Rollback(w) /\ UNCHANGED <<book, tables>>
     ELSE /\ book' = OwnBook(w)
          /\ tables' = [T \in TableNames |-> (tables[T] \ tx[w].deleted[T]) \cup New(w)[T]]
          /\ tx' = [v \in Writers |->
               IF v = w THEN Idle
               ELSE IF v \in Active THEN [tx[v] EXCEPT !.alone = FALSE]
               ELSE tx[v]]
  /\ UNCHANGED requests

Done == Active = {} /\ requests = MaxRequests /\ UNCHANGED vars

Next ==
  \/ \E w \in Writers :
       \/ Create(w) \/ Update(w) \/ RemoveOperation(w) \/ SetLotCostBasis(w) \/ RebuildAll(w)
       \/ Write(w) \/ ExpandScope(w) \/ Load(w) \/ Delete(w)
       \/ InsertPositions(w) \/ InsertCash(w)
  \/ Done

Spec == Init /\ [][Next]_vars

---------------------------------------------------------------------------
(* Properties.                                                             *)

StageNames == {"idle", "write", "scope", "load", "delete", "positions", "cash"}

\* One row per id in the book; the committed tables hold rows of known
\* accounts, and no lot holds a negative quantity or more than it opened with
\* (applyDisposal never oversells).
TypeOK ==
  /\ IdsDiffer(book)
  /\ \A T \in TableNames : \A r \in tables[T] : r.row.account \in Accounts
  /\ \A r \in tables.lots : r.row.lot.open \in 0..r.row.lot.original
  /\ \A w \in Writers : tx[w].stage \in StageNames
  /\ requests \in 0..MaxRequests

\* The stored rows of the accounts are those derived, each once.
Reflects(stored, derived, accounts) ==
  \A T \in TableNames :
    LET rows == {s \in stored[T] : s.row.account \in accounts}
    IN /\ {s.row : s \in rows} = {r \in derived[T] : r.account \in accounts}
       /\ Cardinality(rows) = Cardinality({s.row : s \in rows})

Links(ops) == {{o.account, o.to} : o \in Transfers(ops)}

\* The accounts a write names and those linked with them.
Reach(w) ==
  tx[w].accounts \cup UNION {l \in Links(OwnBook(w)) : l \cap tx[w].accounts # {}}

\* One hop is enough: the write severs no link, and either it rebuilds every
\* account or no account is linked with two others and no split recorded
\* elsewhere reaches an instrument of the accounts it rebuilds.
OneHopSuffices(w) ==
  /\ Links(book) \subseteq Links(OwnBook(w))
  /\ \/ tx[w].accounts = Accounts
     \/ /\ \A l, m \in Links(OwnBook(w)) : l = m \/ l \cap m = {}
        /\ \A s \in book \cup tx[w].fresh : s.type = "SPLIT" /\ s.account \notin Reach(w) =>
             \A o \in OwnBook(w) : o.account \in Reach(w) => o.instrument # s.instrument

\* When one hop is enough, no other write committed meanwhile and the whole
\* book can be replayed, a write is refused neither by the replay of its scope
\* nor by a unique index, and leaves in every account it names or links with
\* exactly the rows the whole book implies (rebuildWithin).
LoneWriteSettles ==
  [][\A w \in Writers :
       /\ tx[w].stage \in {"load", "positions", "cash"} /\ tx'[w].stage = "idle"
       /\ tx[w].alone /\ OneHopSuffices(w) /\ Replay(OwnBook(w)).ok
       => /\ book' = OwnBook(w)
          /\ Reflects(tables', Derived(Replay(book')), Reach(w))]_vars

\* The sums over a book: what its purchases and its entries cost, what its
\* sales brought in; over the lots: their cost; over realizations of a ledger.
OfType(ops, type) == {o \in ops : o.type = type}
Paid(ops) == SumFunction([o \in OfType(ops, "BUY") |-> o.amount + o.charges])
Brought(ops) == SumFunction([o \in OfType(ops, "TRANSFER_IN") |-> o.quantity * UnitCost(o)])
Earned(ops) == SumFunction([o \in OfType(ops, "SELL") |-> o.amount - o.charges])
Held(lots) == SumFunction([h \in DOMAIN lots |-> Basis(lots[h])])
CostOf(rows) == SumFunction([r \in rows |-> r.quantity * r.cost])
GainOf(rows) == SumFunction([r \in rows |-> r.gain])

Sales(ledger) == {r \in ledger.done : r.sale}
LeftFor(ledger, ops) == {r \in ledger.done : \E o \in ops : o.id = r.by /\ o.to = NoAccount}

\* What was paid for the lots is in the open ones, was sold, or left for an
\* unknown account; the sales brought in what they cost plus the realized gain.
CostKept(ledger, ops) ==
  /\ Paid(ops) + Brought(ops) = Held(ledger.lots) + CostOf(Sales(ledger) \cup LeftFor(ledger, ops))
  /\ Earned(ops) = CostOf(Sales(ledger)) + GainOf(Sales(ledger))

\* Replaying the book neither creates nor destroys cost, commissions, lots taken
\* in at the cached close, splits and transfers between accounts notwithstanding
\* (applyDisposal, applySplit).
CostConserved ==
  LET keeps(ledger) == ledger.ok => CostKept(ledger, book) IN Active = {} => keeps(Replay(book))

\* The divisions of an operation leave no remainder on the lots it finds: the
\* unit cost of a purchase, the unit proceeds of a sale, the lots of a split.
DividesOn(ledger, e) ==
  /\ e.type = "BUY" => (e.amount + e.charges) % e.quantity = 0
  /\ e.type = "SELL" => (e.amount - e.charges) % e.quantity = 0
  /\ e.type = "SPLIT" =>
       \A h \in DOMAIN ledger.lots : h[2] = e.instrument =>
         \A n \in DOMAIN ledger.lots[h] :
           /\ (ledger.lots[h][n].open * e.quantity) % e.per = 0
           /\ (ledger.lots[h][n].cost * e.per) % e.quantity = 0

\* Nothing is rounded when the book is replayed: what CostConserved is proved for.
BookDivides ==
  LET events == SortEvents(book)
  IN \A n \in DOMAIN events :
       DividesOn(FoldLeft(Apply, EmptyLedger, SubSeq(events, 1, n - 1)), events[n])

\* "Ejecuta la escritura y la reconstruccion en UNA transaccion, para que el
\* libro y sus derivados no puedan quedar descuadrados" (runWrite): between
\* requests the four tables are what the book implies.
DerivedMatchesBook ==
  Active = {} /\ Replay(book).ok => Reflects(tables, Derived(Replay(book)), Accounts)

=============================================================================
