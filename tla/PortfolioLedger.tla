-------------------------- MODULE PortfolioLedger --------------------------
(***************************************************************************)
(* The reducer that derives lots, realizations, positions and cash from    *)
(* the book of investment operations (analytics/portfolio-ledger.ts).  It  *)
(* is pure: Replay folds Apply over the sorted operations.                 *)
(*                                                                         *)
(* Quantities and unit costs are integers; the pools of operations a run   *)
(* supplies divide exactly, so the rounding to ten decimals never bites.   *)
(* Commission and tax are one field, charges.  The frozen exchange rate    *)
(* only scales the figures in base currency, which are left out, as are    *)
(* the flows and income totals: the analytics read them, nothing stores    *)
(* them.                                                                   *)
(***************************************************************************)
EXTENDS Integers, Sequences, FiniteSetsExt, SequencesExt

CONSTANTS
  Accounts,       \* investment accounts of one user
  Instruments,
  NoAccount,      \* no counterparty account
  NoInstrument,   \* the operation names no instrument
  ClosePrice      \* the cached close of an instrument, 0 when there is none

TypeOrder ==
  [TRANSFER_IN |-> 0, DEPOSIT |-> 1, BUY |-> 2, SPLIT |-> 3, DIVIDEND |-> 4,
   INTEREST |-> 5, CURRENCY_EXCHANGE |-> 6, SELL |-> 7, TRANSFER_OUT |-> 8,
   FEE |-> 9, TAX |-> 10, WITHDRAWAL |-> 11]

\* sortEvents.  An operation without a time has at = 0.
Comes(a, b) ==
  \/ a.on < b.on
  \/ /\ a.on = b.on
     /\ LET timed == a.at # 0 /\ b.at # 0 /\ a.at # b.at
        IN \/ timed /\ a.at < b.at
           \/ ~timed /\ TypeOrder[a.type] < TypeOrder[b.type]
           \/ ~timed /\ a.type = b.type /\ a.id < b.id

\* e goes after those of the sorted operations that come before it.
PutInOrder(e, sorted) ==
  InsertAt(sorted, 1 + Cardinality({n \in DOMAIN sorted : Comes(sorted[n], e)}), e)

SortEvents(events) == FoldSet(PutInOrder, <<>>, events)

\* createContext.
EmptyLedger ==
  [ok |-> TRUE,
   lots |-> [h \in Accounts \X Instruments |-> <<>>],
   done |-> {},
   cash |-> <<>>,
   touched |-> <<>>]

\* The LedgerError a rule throws ends the replay.
Fails(ledger) == [ledger EXCEPT !.ok = FALSE]

OpenBefore(lots, n) == SumFunctionOnSet([m \in DOMAIN lots |-> lots[m].open], 1 .. n - 1)
Open(lots) == SumFunction([n \in DOMAIN lots |-> lots[n].open])
Basis(lots) == SumFunction([n \in DOMAIN lots |-> lots[n].open * lots[n].cost])

AdjustCash(ledger, account, currency, delta) ==
  LET k == <<account, currency>>
      cash == ledger.cash
  IN IF delta = 0 THEN ledger
     ELSE [ledger EXCEPT !.cash = [j \in DOMAIN cash \cup {k} |->
             (IF j \in DOMAIN cash THEN cash[j] ELSE 0) + (IF j = k THEN delta ELSE 0)]]

TouchPosition(ledger, account, instrument, on) ==
  LET k == <<account, instrument>>
      touched == ledger.touched
  IN [ledger EXCEPT !.touched = [j \in DOMAIN touched \cup {k} |->
        IF j = k /\ (j \in DOMAIN touched => touched[j] < on) THEN on ELSE touched[j]]]

\* The lots of a holding stay in order of opening; a lot opened on the same
\* date as others goes after them.
Insert(lots, lot) ==
  InsertAt(lots, 1 + Cardinality({n \in DOMAIN lots : lots[n].opened <= lot.opened}), lot)

NewLot(opened, quantity, cost, by, estimated) ==
  [opened |-> opened, original |-> quantity, open |-> quantity, cost |-> cost,
   by |-> by, estimated |-> estimated, closed |-> 0]

OpenLot(ledger, account, instrument, lot) ==
  [ledger EXCEPT !.lots[<<account, instrument>>] = Insert(@, lot)]

\* Commissions and taxes of the purchase are part of the cost of the lot.
Buy(ledger, e) ==
  LET total == e.amount + e.charges
  IN AdjustCash(
       OpenLot(ledger, e.account, e.instrument,
               NewLot(e.on, e.quantity, total \div e.quantity, e.id, FALSE)),
       e.account, e.currency, -total)

\* What each lot gives to a disposal of that quantity, oldest first.
Taken(lots, quantity) ==
  [n \in DOMAIN lots |->
     LET left == quantity - OpenBefore(lots, n)
     IN IF left <= 0 THEN 0 ELSE IF lots[n].open < left THEN lots[n].open ELSE left]

\* Mutant of Reopen: the destination takes the lots at the market price.
Reopen_AtMarket(ledger, e, lots, taken) ==
  FoldLeft(LAMBDA l, n :
             IF taken[n] = 0 THEN l
             ELSE TouchPosition(
                    OpenLot(l, e.to, e.instrument,
                            NewLot(lots[n].opened, taken[n], ClosePrice[e.instrument], e.id, TRUE)),
                    e.to, e.instrument, e.on),
           ledger, [n \in DOMAIN lots |-> n])

\* A transfer to a known account reopens there each lot it takes from, with
\* its opening date and its cost.
Reopen(ledger, e, lots, taken) ==
  FoldLeft(LAMBDA l, n :
             IF taken[n] = 0 THEN l
             ELSE TouchPosition(
                    OpenLot(l, e.to, e.instrument,
                            NewLot(lots[n].opened, taken[n], lots[n].cost, e.id, lots[n].estimated)),
                    e.to, e.instrument, e.on),
           ledger, [n \in DOMAIN lots |-> n])

Disposal(ledger, e) ==
  LET h == <<e.account, e.instrument>>
      sale == e.type = "SELL"
      lots == ledger.lots[h]
      taken == Taken(lots, e.quantity)
      net == e.amount - e.charges
      left == [n \in DOMAIN lots |->
                 [lots[n] EXCEPT !.open = @ - taken[n],
                                 !.closed = IF taken[n] > 0 /\ taken[n] = lots[n].open
                                            THEN e.on ELSE @]]
      sold == {[account |-> e.account, instrument |-> e.instrument, by |-> e.id, n |-> n,
                quantity |-> taken[n], cost |-> lots[n].cost, on |-> e.on, sale |-> sale,
                gain |-> IF sale THEN taken[n] * (net \div e.quantity - lots[n].cost) ELSE 0]
               : n \in {m \in DOMAIN lots : taken[m] > 0}}
      consumed == [ledger EXCEPT !.lots[h] = left, !.done = @ \cup sold]
  IN IF Open(lots) < e.quantity THEN Fails(ledger)
     ELSE IF sale THEN AdjustCash(consumed, e.account, e.currency, net)
     ELSE IF e.to = NoAccount THEN consumed
     ELSE Reopen(consumed, e, lots, taken)

\* Mutant of Split: the quantity a lot opened with stays as it was.
Split_OpenOnly(ledger, e) ==
  [ledger EXCEPT !.lots = [h \in DOMAIN @ |->
     IF h[2] # e.instrument THEN @[h]
     ELSE [n \in DOMAIN @[h] |->
             [@[h][n] EXCEPT !.open = (@ * e.quantity) \div e.per,
                             !.cost = (@ * e.per) \div e.quantity]]]]

Divided(lots, e) ==
  [n \in DOMAIN lots |->
     [lots[n] EXCEPT !.original = (@ * e.quantity) \div e.per,
                     !.open = (@ * e.quantity) \div e.per,
                     !.cost = (@ * e.per) \div e.quantity]]

\* A split is a fact of the market: it reaches every lot of the instrument,
\* whatever its account.  e.quantity for e.per shares.
Split(ledger, e) ==
  [ledger EXCEPT !.lots = [h \in DOMAIN @ |->
     IF h[2] = e.instrument THEN Divided(@[h], e) ELSE @[h]]]

\* The cost of what comes in is the row's price, else the cached close, else
\* zero; the last two are marked as estimated.
UnitCost(e) == IF e.price # 0 THEN e.price ELSE ClosePrice[e.instrument]

TransferIn(ledger, e) ==
  OpenLot(ledger, e.account, e.instrument,
          NewLot(e.on, e.quantity, UnitCost(e), e.id, e.price = 0))

Exchange(ledger, e) ==
  AdjustCash(AdjustCash(ledger, e.account, e.currency, -(e.amount + e.charges)),
             e.account, e.settlement, e.settled)

\* applyEvent.
Apply(ledger, e) ==
  LET after ==
        CASE e.type = "BUY" -> Buy(ledger, e)
          [] e.type \in {"SELL", "TRANSFER_OUT"} -> Disposal(ledger, e)
          [] e.type \in {"DIVIDEND", "INTEREST"} ->
               AdjustCash(ledger, e.account, e.currency, e.amount - e.charges)
          [] e.type = "DEPOSIT" -> AdjustCash(ledger, e.account, e.currency, e.amount)
          [] e.type \in {"WITHDRAWAL", "FEE", "TAX"} ->
               AdjustCash(ledger, e.account, e.currency, -e.amount)
          [] e.type = "SPLIT" -> Split(ledger, e)
          [] e.type = "TRANSFER_IN" -> TransferIn(ledger, e)
          [] e.type = "CURRENCY_EXCHANGE" -> Exchange(ledger, e)
  IN IF ~ledger.ok THEN ledger
     ELSE IF e.instrument = NoInstrument THEN after
     ELSE TouchPosition(after, e.account, e.instrument, e.on)

Replay(events) == FoldLeft(Apply, EmptyLedger, SortEvents(events))

---------------------------------------------------------------------------
\* The rows of the four derived tables, as the rebuild inserts them.  A lot's
\* row is named by its place in its holding, a realization's by its operation
\* and the lot it took from.

LotRows(ledger) ==
  UNION {{[account |-> h[1], instrument |-> h[2], n |-> n, lot |-> ledger.lots[h][n]]
          : n \in DOMAIN ledger.lots[h]} : h \in DOMAIN ledger.lots}

Realized(ledger, h) ==
  MapThenSumSet(LAMBDA r : r.gain,
                {r \in ledger.done : r.sale /\ <<r.account, r.instrument>> = h})

\* buildPositions: one row per holding any operation touched, even when empty.
PositionRows(ledger) ==
  {[account |-> h[1], instrument |-> h[2],
    quantity |-> Open(ledger.lots[h]), basis |-> Basis(ledger.lots[h]),
    realized |-> Realized(ledger, h), last |-> ledger.touched[h],
    estimated |-> \E n \in DOMAIN ledger.lots[h] :
                     ledger.lots[h][n].open # 0 /\ ledger.lots[h][n].estimated]
   : h \in DOMAIN ledger.touched}

CashRows(ledger) ==
  {[account |-> k[1], currency |-> k[2], amount |-> ledger.cash[k]] : k \in DOMAIN ledger.cash}

Derived(ledger) ==
  [realizations |-> ledger.done, lots |-> LotRows(ledger),
   positions |-> PositionRows(ledger), cash |-> CashRows(ledger)]

=============================================================================
