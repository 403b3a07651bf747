----------------------------- MODULE MCArrivals -----------------------------
(***************************************************************************)
(* The two ways operations arrive in bulk, on one table.  A behaviour       *)
(* exercises the imports alone, with two requests on two batches, or the    *)
(* synchronisation of one broker, with one statement imported beside it.    *)
(***************************************************************************)
EXTENDS StatementImport, BrokerSync, TLC

CONSTANTS x1, x2, x3, x4, r1, r2, b1, c1, c2, w1, w2, Modes

VARIABLE exercised

vars == <<exercised, booked, forgotten, importVars, syncVars>>

\* A record with no pair; one of an exchange.
Record(id, source, kind, opened, on, shown, terms) ==
  [id |-> id, source |-> source, kind |-> kind, opened |-> opened, on |-> on, shown |-> shown,
   pair |-> NoDay, number |-> 0, held |-> 0, terms |-> terms, named |-> TRUE]
Exchanged(id, source, kind, on, shown, number, terms) ==
  [Record(id, source, kind, on, on, shown, terms) EXCEPT !.pair = "BTCUSDT", !.number = number, !.held = 11]

\* eToro has more history than the pages hold; the asset of the trades is sold by
\* the second day, with trades after it; a position of XTB is open for a while.  Two
\* positions of eToro are bought alike, two dividends and two trades are equal; one
\* of XTB is bought in another currency than its instrument's.
MCRecords ==
  {Record(x1, "etoro", "closed", 7, 8, 9, "lot"), Record(x2, "etoro", "closed", 7, 9, 9, "lot"),
   Record(x3, "etoro", "closed", 9, 10, 11, "order"),
   Record(x1, "interactive_brokers", "trade", 9, 9, 10, "lot"),
   Record(x2, "interactive_brokers", "cash", 11, 11, 12, "lot"),
   [Record(x4, "interactive_brokers", "cash", 11, 11, 12, "lot") EXCEPT !.named = FALSE],
   Record(x3, "interactive_brokers", "unknown", 9, 9, 9, "order"),
   Record(x1, "xtb", "closed", 5, 6, 7, "lot"), Record(x2, "xtb", "closed", 10, 11, 12, "foreign"),
   Exchanged(x1, "trades", "trade", 9, 9, 1, "lot"), Exchanged(x2, "trades", "trade", 11, 12, 2, "lot"),
   Exchanged(x3, "trades", "trade", 11, 12, 3, "lot"),
   Exchanged(x3, "convert", "bought", 11, 12, 0, "order"), Exchanged(x4, "convert", "swapped", 11, 11, 0, "order")}
MCRecordIds == {x1, x2, x3, x4}
MCTerms == {"lot", "order", "foreign", "converted"}
MCLegs == {"open", "close", "trade", "trades", "cash", "buy", "sell"}
MCKeys == MCLegs \X (5 .. 12) \X MCTerms
MCReferences == (MCRecordIds \X MCLegs) \cup {r1, r2}
MCConversions ==
  [k \in {<<"open", 10, "foreign">>} |-> {k, <<"open", 10, "converted">>}]
MCPairs == {"BTCUSDT"}

ImportLine(key, ref, read, known) == [key |-> key, ref |-> ref, read |-> read, known |-> known]
MCStatements ==
  {[kind |-> "table", lines |-> {ImportLine(<<"open", 5, "lot">>, r1, TRUE, TRUE),
                                 ImportLine(<<"open", 5, "lot">>, r2, TRUE, TRUE),
                                 ImportLine(<<"close", 6, "lot">>, NoReference, FALSE, TRUE)}],
   [kind |-> "pdf", lines |-> {ImportLine(<<"open", 10, "foreign">>, NoReference, TRUE, TRUE),
                               ImportLine(<<"open", 9, "order">>, NoReference, TRUE, FALSE)}]}

MCAccounts == {0, 1}
MCSymmetry == Permutations(Callers) \cup Permutations(Runners)

ASSUME ArrivalsAssumption ==
  /\ b1 \in Batches /\ MaxCalls > 0 /\ StartDay < EndDay
  /\ Modes \subseteq {"imports"} \cup ConnectedBrokers

Init ==
  /\ booked = {} /\ forgotten = {}
  /\ exercised \in Modes
  /\ batch = [b \in {} |-> 0] /\ call = [c \in Callers |-> NoCall]
  /\ promised = [b \in Batches |-> {}] /\ disturbed = {}
  /\ calls = IF exercised = "imports" THEN 0 ELSE MaxCalls - 1
  /\ IF exercised = "imports"
     THEN /\ today = EndDay /\ made = MaxConnections /\ conn = NoConnection /\ external = {} /\ lost = {}
          /\ run = [w \in Runners |-> Idle]
     ELSE SyncInit(exercised, IF exercised = "binance" THEN EndDay - 1 ELSE StartDay)

\* Beside a synchronisation, the first batch and the account it fills.
ImportBeside ==
  \/ \E s \in Statements : Analyze(b1, s, 1)
  \/ \E c \in Callers :
       \/ b1 \in DOMAIN batch /\ BeginCommit(c, b1, 1, batch[b1].draft)
       \/ 1 \in external /\ InsertRows(c)
       \/ SaveCommit(c)

\* The connection is managed while one broker is exercised, statements are
\* imported beside another.
Next ==
  /\ UNCHANGED exercised
  /\ \/ exercised = "imports" /\ ImportNext /\ UNCHANGED syncVars
     \/ exercised = "xtb" /\ ImportBeside /\ UNCHANGED syncVars
     \/ exercised = "interactive_brokers" /\ Manage /\ UNCHANGED importVars
     \/ exercised # "imports" /\ Synchronise /\ UNCHANGED importVars

Spec == Init /\ [][Next]_vars

TypeOK == ImportTypeOK /\ SyncTypeOK
=============================================================================
