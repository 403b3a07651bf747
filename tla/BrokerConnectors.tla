-------------------------- MODULE BrokerConnectors --------------------------
(***************************************************************************)
(* What the connectors of the four brokers ask for and bring, given the     *)
(* cursor of the connection (investments/connectors).  Time goes by days.   *)
(* A broker keeps records, each with the day it is filed under and the day   *)
(* it begins to be shown; a record becomes one operation of ours or several, *)
(* its legs.  At most one call of a fetch fails.                             *)
(***************************************************************************)
EXTENDS OperationIndex, FiniteSetsExt

CONSTANTS
  Records,         \* what happens at the broker: set of BrokerRecord
  RecordIds,
  Terms,           \* instrument, quantity, amount and currency of a record
  Pairs,           \* pairs the exchange recognises, one per asset
  Overlap,         \* days a fetch goes back behind its cursor (7)
  History,         \* days asked for without a cursor (365, 730)
  PageLimit,       \* rows in the pages eToro is asked for (50 pages of 200)
  ConvertWindow,   \* CONVERT_WINDOW_DAYS (30)
  FiatWindow,      \* FIAT_WINDOW_DAYS (90)
  MaxWindows,      \* MAX_WINDOWS (40)
  MaxPairs,        \* MAX_CANDIDATE_PAIRS (120)
  NoDay            \* no cursor, no mark, no pair

ConnectedBrokers == {"binance", "etoro", "interactive_brokers", "xtb"}
Sources == {"etoro", "interactive_brokers", "xtb", "trades", "convert", "fiat", "capital"}

\* opened: the day from which XTB lists a position as open; number: the id of a
\* trade of Binance; pair: that of the trade, or of the asset converted; held: the
\* last day its asset has a balance; named: it has a transactionID, which only
\* Interactive Brokers may leave out.  Two records of a day may have equal terms.
BrokerRecord ==
  [id : RecordIds, source : Sources, terms : Terms, named : BOOLEAN,
   kind : {"closed", "trade", "cash", "unknown", "bought", "sold", "swapped", "exchanged"},
   opened : Int, on : Int, shown : Int, pair : Pairs \cup {NoDay}, number : Nat, held : Int]

ASSUME ConnectorsAssumption ==
  /\ Records \subseteq BrokerRecord
  /\ \A o \in Records : o.opened <= o.on /\ o.on <= o.shown
  /\ {Overlap, History, PageLimit, ConvertWindow, FiatWindow, MaxWindows, MaxPairs} \subseteq Nat \ {0}
  /\ IsFiniteSet(Records) /\ IsFiniteSet(Pairs) /\ NoDay \notin Int

\* "último tradeId visto por símbolo", and the next one is asked for: the exchange
\* numbers the trades of a pair as it shows them.  An answer holds all that are new
\* (the limit of 1000 is left out).
ASSUME TradesAssumption ==
  \A o \in Records : o.source = "trades" =>
    /\ o.pair \in Pairs /\ o.number > 0
    /\ \A p \in Records : p.source = "trades" /\ p.pair = o.pair /\ o.number <= p.number => o.shown <= p.shown

\* SyncCursor: each connector uses its part.
EmptyCursor ==
  [on |-> NoDay, fromId |-> [p \in Pairs |-> 0], covered |-> [s \in {"convert", "fiat"} |-> NoDay]]

Shown(source, now) == {o \in Records : o.source = source /\ o.shown <= now}
Later(a, b) == IF a > b THEN a ELSE b
Earlier(a, b) == IF a < b THEN a ELSE b

\* RawTransaction: its external id, the natural key in the currency of the broker
\* (a position is bought and sold on different days), and whether it has an amount.
OccurredOn(o, leg) == IF leg = "open" THEN o.opened ELSE o.on
Row(o, leg) ==
  [ref |-> IF o.named THEN <<o.id, leg>> ELSE NoReference,
   key |-> <<leg, OccurredOn(o, leg), o.terms>>, on |-> o.on, priced |-> o.kind # "swapped"]

\* FetchResult.  cut: records that a truncated history leaves out.
Fetched(rows, cursor, warned, cut) == [rows |-> rows, cursor |-> cursor, warned |-> warned, cut |-> cut]

-----------------------------------------------------------------------------
(* The legs of a record *)

\* A closed position is its opening and its closing; XTB lists the open ones too.
PositionLegs(o, now) == IF o.on <= now THEN {"open", "close"} ELSE {"open"}

\* A cash movement of a type mapCashType does not know is no operation.
StatementLegs(o) == IF o.kind = "unknown" THEN {} ELSE {o.kind}

\* "Una conversión con dinero en un lado es UNA compra o UNA venta. Entre dos criptos
\* son dos operaciones", both with amount 0.
ConvertLegs(o) ==
  CASE o.kind = "bought" -> {"buy"}
    [] o.kind = "sold" -> {"sell"}
    [] o.kind = "swapped" -> {"sell", "buy"}
    [] o.kind = "exchanged" -> {"fx"}

Legs(o, now) ==
  CASE o.source \in {"etoro", "xtb"} -> PositionLegs(o, now)
    [] o.source = "interactive_brokers" -> StatementLegs(o)
    [] o.source = "convert" -> ConvertLegs(o)
    [] o.source \in {"trades", "fiat", "capital"} -> {o.source}

ToTransactions(found, now) == UNION {{Row(o, leg) : leg \in Legs(o, now)} : o \in found}

-----------------------------------------------------------------------------
(* eToro: the positions closed, a year at most, a week behind the cursor; a *)
(* history that fills the last page is taken for a truncated one, and the    *)
(* cursor moves on all the same.                                             *)

EtoroMinDate(cursor, now) ==
  LET earliest == now - History + 1
  IN IF cursor.on = NoDay THEN earliest ELSE Later(earliest, cursor.on - Overlap)

FetchEtoro(cursor, now) ==
  LET found == {o \in Shown("etoro", now) : o.on >= EtoroMinDate(cursor, now)}
      next == [cursor EXCEPT !.on = now]
  IN IF Cardinality(found) < PageLimit
     THEN {Fetched(ToTransactions(found, now), next, FALSE, {})}
     ELSE {Fetched(ToTransactions(kept, now), next, TRUE, found \ kept) : kept \in kSubset(PageLimit, found)}

(* Interactive Brokers: the statement of the user's Flex Query, whatever the *)
(* cursor; here a query over the last History days.                          *)
FetchInteractiveBrokers(cursor, now) ==
  LET found == {o \in Shown("interactive_brokers", now) : o.on >= now - History + 1}
  IN {Fetched(ToTransactions(found, now), [cursor EXCEPT !.on = now],
              \E o \in found : StatementLegs(o) = {}, {})}

(* XTB: the operations closed since a week behind the cursor, and the open   *)
(* ones; it warns when there are none.                                       *)
FetchXtb(cursor, now) ==
  LET start == IF cursor.on = NoDay THEN now - History ELSE cursor.on - Overlap
      closed == {o \in Shown("xtb", now) : o.on >= start}
      open == {o \in Records : o.source = "xtb" /\ o.opened <= now /\ now < o.on}
      rows == ToTransactions(closed \cup open, now)
  IN {Fetched(rows, [cursor EXCEPT !.on = now], rows = {}, {})}

-----------------------------------------------------------------------------
(* Binance *)

\* candidateSymbols and buildCandidatePairs: the pairs of the cursor first, then
\* those of the assets with a balance or named by the book, up to a limit.
CandidatePairs(cursor, traded, now) ==
  LET previous == {p \in Pairs : cursor.fromId[p] > 0}
      owned == {p \in Pairs : \E o \in Shown("trades", now) : o.pair = p /\ o.held >= now}
      others == (owned \cup traded) \ previous
  IN IF Cardinality(previous) >= MaxPairs THEN kSubset(MaxPairs, previous)
     ELSE {previous \cup more :
             more \in kSubset(Earlier(Cardinality(others), MaxPairs - Cardinality(previous)), others)}

\* A source with a mark goes back behind it; one never walked starts afresh.
Since(cursor, source, now) ==
  IF cursor.covered[source] = NoDay THEN now - History ELSE cursor.covered[source] - Overlap

\* windows: consecutive stretches from since on, to now or until there are too many.
Windows(since, width, now) ==
  {[start |-> since + k * width, end |-> Earlier(since + (k + 1) * width, now)] :
     k \in {j \in 0 .. MaxWindows - 1 : since + j * width < now}}

\* The windows walked: a call that fails ends the walk of its source.
Walk(source, width, cursor, now, broken) ==
  LET all == Windows(Since(cursor, source, now), width, now)
      walked == IF broken = NoDay THEN all ELSE {w \in all : w.end <= broken}
  IN {o \in Shown(source, now) : \E w \in walked : w.start <= o.on /\ o.on <= w.end}

Trades(pairs, cursor, now) ==
  {o \in Shown("trades", now) : o.pair \in pairs /\ o.number > cursor.fromId[o.pair]}

\* The mark that stays is the oldest day covered.
Mark(source, cursor, now) ==
  LET covered == cursor.covered[source]
  IN Earlier(IF covered = NoDay THEN now ELSE covered, Since(cursor, source, now))

\* Mutant of BinanceCursor: a pair is marked up to the last of its trades, though
\* its call failed or was not made.
BinanceCursor_AllShown(cursor, trades, now) ==
  [cursor EXCEPT
     !.on = now,
     !.fromId = [p \in Pairs |-> Max({@[p]} \cup {o.number : o \in {t \in Shown("trades", now) : t.pair = p}})],
     !.covered = [s \in DOMAIN @ |-> Mark(s, cursor, now)]]

BinanceCursor(cursor, trades, now) ==
  [cursor EXCEPT
     !.on = now,
     !.fromId = [p \in Pairs |-> Max({@[p]} \cup {o.number : o \in {t \in trades : t.pair = p}})],
     !.covered = [s \in DOMAIN @ |-> Mark(s, cursor, now)]]

\* The call that fails: of a pair, of a category of movements, of a window.
BinanceFaults(pairs, now) ==
  {<<"none", 0>>, <<"capital", 0>>} \cup ({"pair"} \X pairs)
    \cup ({"convert", "fiat"} \X {now - ConvertWindow})

AnswerOfBinance(pairs, fault, cursor, now) ==
  LET failed(what) == fault[1] = what
      broken(source) == IF failed(source) THEN fault[2] ELSE NoDay
      trades == Trades(IF failed("pair") THEN pairs \ {fault[2]} ELSE pairs, cursor, now)
      moved == IF failed("capital") THEN {} ELSE Shown("capital", now)
      converted == Walk("convert", ConvertWindow, cursor, now, broken("convert"))
      paid == Walk("fiat", FiatWindow, cursor, now, broken("fiat"))
  IN Fetched(ToTransactions(trades \cup moved \cup converted \cup paid, now),
             BinanceCursor(cursor, trades, now),
             fault[1] # "none" \/ Cardinality(pairs) \in {0, MaxPairs}, {})

FetchBinance(cursor, traded, now) ==
  {AnswerOfBinance(pairs, fault, cursor, now) :
     pairs \in CandidatePairs(cursor, traded, now), fault \in BinanceFaults(Pairs, now)}

\* BrokerConnectorRegistry.get and fetchTransactions.
FetchTransactions(broker, cursor, traded, now) ==
  CASE broker = "binance" -> FetchBinance(cursor, traded, now)
    [] broker = "etoro" -> FetchEtoro(cursor, now)
    [] broker = "interactive_brokers" -> FetchInteractiveBrokers(cursor, now)
    [] broker = "xtb" -> FetchXtb(cursor, now)
=============================================================================
