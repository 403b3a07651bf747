----------------------------- MODULE BrokerSync -----------------------------
(***************************************************************************)
(* The synchronisation of a connection with its broker                     *)
(* (investment-sync.service.ts, broker-connections.service.ts).  A user     *)
(* has one connection at a time; it may be removed and made again, and the  *)
(* account of the one removed keeps its rows.  The nightly job and a        *)
(* request may synchronise it at once: nothing keeps them apart.            *)
(***************************************************************************)
EXTENDS BrokerConnectors

CONSTANTS
  Runners,       \* synchronisations that may be in course
  StartDay, EndDay,
  MaxConnections, \* bound: connections made, one after another
  EarliestMark   \* bound: no synchronisation begins with a mark before this day

VARIABLES
  today,
  conn,       \* the row of broker_connections, or NoConnection
  made,       \* connections made so far; the number of one names it
  external,   \* numbers of the connections whose broker account exists
  run,        \* the synchronisation each runner has in course
  lost        \* history: records a truncated history left out

syncVars == <<today, conn, made, external, run, lost>>

NoConnection == [exists |-> FALSE]
Idle == [stage |-> "idle"]

ConnectionStatus == {"active", "error", "needs_reauth", "disabled"}

\* Every connection may have an account of its own, and what a broker tells has a
\* natural key and a reference.
ASSUME BrokerSyncAssumption ==
  /\ StartDay \in Nat /\ EndDay \in Nat /\ MaxConnections \in Nat \ {0}
  /\ 1 .. MaxConnections \subseteq BookAccounts
  /\ \A o \in Records, day \in 0 .. EndDay :
       \A leg \in Legs(o, day) :
         Row(o, leg).key \in NaturalKeys /\ Row(o, leg).ref \in References \cup {NoReference}

SyncCursor ==
  {EmptyCursor} \cup
    [on : 0 .. EndDay, fromId : [Pairs -> Nat], covered : [{"convert", "fiat"} -> Int \cup {NoDay}]]

\* sealed: the credentials are stored in a second statement, after the row.
BrokerConnection ==
  [exists : {TRUE}, broker : ConnectedBrokers, status : ConnectionStatus, autoSync : BOOLEAN,
   sealed : BOOLEAN, cursor : SyncCursor]

SyncInit(broker, day) ==
  /\ today = day /\ made = 1 /\ external = {} /\ lost = {}
  /\ conn = [exists |-> TRUE, broker |-> broker, status |-> "active", autoSync |-> TRUE,
             sealed |-> FALSE, cursor |-> EmptyCursor]
  /\ run = [w \in Runners |-> Idle]

-----------------------------------------------------------------------------
(* Connections (broker-connections.service.ts) *)

CreateConnection(broker) ==
  /\ ~conn.exists /\ made < MaxConnections
  /\ made' = made + 1
  /\ conn' = [exists |-> TRUE, broker |-> broker, status |-> "active", autoSync |-> TRUE,
              sealed |-> FALSE, cursor |-> EmptyCursor]
  /\ UNCHANGED <<booked, forgotten, today, external, run, lost>>

StoreCredentials ==
  /\ conn.exists /\ ~conn.sealed
  /\ conn' = [conn EXCEPT !.sealed = TRUE]
  /\ UNCHANGED <<booked, forgotten, today, made, external, run, lost>>

\* save writes back the whole copy the request loaded, at the latest now and at
\* the earliest when the connection was made: then the status and the cursor
\* go back too.  (Were the row gone, save would insert it again: left out.)
Copies == {conn, [conn EXCEPT !.status = "active", !.cursor = EmptyCursor]}

UpdateConnection(autoSync, copy) ==
  /\ conn.exists
  /\ conn' = [copy EXCEPT !.autoSync = autoSync]
  /\ UNCHANGED <<booked, forgotten, today, made, external, run, lost>>

\* Mutant of RemoveConnection: the reference of the rows is left behind.
RemoveConnection_Dangling ==
  /\ conn.exists
  /\ conn' = NoConnection
  /\ UNCHANGED <<booked, forgotten, today, made, external, run, lost>>

\* ON DELETE SET NULL: the account and its rows stay, without the connection.
RemoveConnection ==
  /\ conn.exists
  /\ conn' = NoConnection
  /\ booked' = {[r EXCEPT !.connection = NoSource] : r \in booked}
  /\ UNCHANGED <<forgotten, today, made, external, run, lost>>

\* The account goes with its rows (ON DELETE CASCADE); the cursor of its
\* connection stays, so that its history is not asked for again.
RemoveExternalAccount(g) ==
  /\ g \in external
  /\ external' = external \ {g}
  /\ booked' = {r \in booked : r.account # g}
  /\ forgotten' = forgotten \cup {Trace(r) : r \in {r \in booked : r.account = g}}
  /\ UNCHANGED <<today, conn, made, run, lost>>

Current(g) == conn.exists /\ made = g

SetStatus(g, status) ==
  IF Current(g) THEN [conn EXCEPT !.status = status] ELSE conn

\* verifyCredentials succeeds, is refused or fails.
VerifyConnection ==
  /\ conn.exists
  /\ \E status \in IF conn.sealed THEN {"active", "error", "needs_reauth"} ELSE {"error"} :
       conn' = SetStatus(made, status)
  /\ UNCHANGED <<booked, forgotten, today, made, external, run, lost>>

-----------------------------------------------------------------------------
(* sync *)

\* The job of the night takes the connections marked for it, a request any.
Askers == {"night", "request"}
Takes(asker) == asker = "night" => conn.autoSync

\* syncAll: the connections of the user; a disabled one is passed over.
StartSync(w) ==
  /\ run[w].stage = "idle" /\ conn.exists /\ conn.status # "disabled"
  /\ \A s \in {"convert", "fiat"} : conn.cursor.covered[s] \in {NoDay} \cup EarliestMark .. EndDay
  /\ \E asker \in Askers : Takes(asker)
  /\ run' = [run EXCEPT ![w] = [stage |-> "account", g |-> made, sealed |-> conn.sealed,
                                broker |-> conn.broker, loaded |-> conn.cursor]]
  /\ UNCHANGED <<booked, forgotten, today, conn, made, external, lost>>

\* credentialsOf and ensureAccount; a second insert breaks the unique index, and
\* one for a connection that is gone its foreign key: then FailSync.
EnsureAccount(w) ==
  /\ run[w].stage = "account" /\ run[w].sealed
  /\ Current(run[w].g)
  /\ external' = external \cup {run[w].g}
  /\ run' = [run EXCEPT ![w].stage = "fetch"]
  /\ UNCHANGED <<booked, forgotten, today, conn, made, lost>>

\* tradedSymbols: the instruments of the rows the account has.  That of a trade is
\* called as its pair, which names no asset; that of a conversion, as its asset.
TradedSymbols(g) ==
  {o.pair : o \in {o \in Records : o.source = "convert" /\
                     \E leg \in ConvertLegs(o), r \in booked :
                       r.account = g /\ r.key \in StoredAs(Row(o, leg).key)}}

Fetch(w) ==
  /\ run[w].stage = "fetch"
  /\ LET traded == TradedSymbols(run[w].g)
     IN \E result \in FetchTransactions(run[w].broker, run[w].loaded, traded, today) :
          /\ run' = [run EXCEPT ![w] = [stage |-> "persist", g |-> @.g, broker |-> @.broker,
                       loaded |-> @.loaded, rows |-> result.rows, next |-> result.cursor,
                       warned |-> result.warned, day |-> today, traded |-> traded]]
          /\ lost' = lost \cup result.cut
  /\ UNCHANGED <<booked, forgotten, today, conn, made, external>>

\* toEntity: the account gives the row its connection; "if (amount <= 0 ...) return
\* null": a row without an amount is dropped, with no warning.  The hash is that of
\* the values stored.
SyncedRow(g, row, stored) ==
  [account |-> g, key |-> stored, ref |-> row.ref, batch |-> NoSource, connection |-> g]

\* toInstrumentCurrency for each row: a rate may be at hand for some only.
Converted(rows) ==
  {stored \in [rows -> UNION {StoredAs(r.key) : r \in rows}] : \A r \in rows : stored[r] \in StoredAs(r.key)}

Priced(rows) == {r \in rows : r.priced}
ToEntities(g, rows) ==
  {{SyncedRow(g, r, stored[r]) : r \in Priced(rows)} : stored \in Converted(Priced(rows))}

\* Without rows nothing is written; otherwise the foreign keys must hold.
Writable(r) == Priced(r.rows) = {} \/ (Current(r.g) /\ r.g \in external)

\* Mutant of Persist: what is after the cursor is not sent to the index.
Persist_OnlyAfterCursor(w) ==
  /\ run[w].stage = "persist" /\ Writable(run[w])
  /\ \E entities \in ToEntities(run[w].g,
                      {r \in run[w].rows : run[w].loaded.on = NoDay \/ r.on > run[w].loaded.on}) :
       \E new \in InsertOrIgnore(entities) : booked' = booked \cup new
  /\ run' = [run EXCEPT ![w] = [@ EXCEPT !.stage = "cursor", !.rows = {}]]
  /\ UNCHANGED <<forgotten, today, conn, made, external, lost>>

\* persist: the insert and the rebuild of the positions, one transaction.
Persist(w) ==
  /\ run[w].stage = "persist" /\ Writable(run[w])
  /\ \E entities \in ToEntities(run[w].g, run[w].rows) :
       \E new \in InsertOrIgnore(entities) : booked' = booked \cup new
  /\ run' = [run EXCEPT ![w] = [@ EXCEPT !.stage = "cursor", !.rows = {}]]
  /\ UNCHANGED <<forgotten, today, conn, made, external, lost>>

\* setCursor updates no row when the connection is gone.
SetCursor(w) ==
  /\ run[w].stage = "cursor"
  /\ conn' = IF Current(run[w].g) THEN [conn EXCEPT !.cursor = run[w].next] ELSE conn
  /\ run' = [run EXCEPT ![w] = [@ EXCEPT !.stage = "finish", !.next = EmptyCursor]]
  /\ UNCHANGED <<booked, forgotten, today, made, external, lost>>

\* The status; the batch that records the synchronisation holds no operation.
FinishSync(w) ==
  /\ run[w].stage = "finish"
  /\ conn' = SetStatus(run[w].g, "active")
  /\ run' = [run EXCEPT ![w] = Idle]
  /\ UNCHANGED <<booked, forgotten, today, made, external, lost>>

\* Any call before the status may fail, the request for prices after the
\* transaction too; needsReauth tells by the words of the error.
FailSync(w) ==
  /\ run[w].stage \notin {"idle", "finish"}
  /\ \E status \in {"error", "needs_reauth"} : conn' = SetStatus(run[w].g, status)
  /\ run' = [run EXCEPT ![w] = Idle]
  /\ UNCHANGED <<booked, forgotten, today, made, external, lost>>

\* The process ends: nothing records that it was synchronising.
CrashSync ==
  /\ \E w \in Runners : run[w].stage # "idle"
  /\ run' = [w \in Runners |-> Idle]
  /\ UNCHANGED <<booked, forgotten, today, conn, made, external, lost>>

NextDay ==
  /\ today < EndDay
  /\ today' = today + 1
  /\ UNCHANGED <<booked, forgotten, conn, made, external, run, lost>>

\* What the user does to the connection and to its account.
Manage ==
  \/ \E broker \in ConnectedBrokers : CreateConnection(broker)
  \/ RemoveConnection \/ VerifyConnection
  \/ conn.exists /\ \E autoSync \in BOOLEAN, copy \in Copies : UpdateConnection(autoSync, copy)
  \/ \E g \in external : RemoveExternalAccount(g)

Synchronise ==
  \/ StoreCredentials \/ CrashSync \/ NextDay
  \/ \E w \in Runners :
       \/ StartSync(w) \/ EnsureAccount(w) \/ Fetch(w) \/ Persist(w)
       \/ SetCursor(w) \/ FinishSync(w) \/ FailSync(w)

SyncNext == Manage \/ Synchronise

-----------------------------------------------------------------------------
SyncTypeOK ==
  /\ today \in StartDay .. EndDay /\ made \in 1 .. MaxConnections
  /\ conn = NoConnection \/ conn \in BrokerConnection
  /\ \A r \in booked : r.connection # NoSource => Current(r.connection)
  /\ external \subseteq 1 .. made /\ lost \subseteq Records

\* The windows of a source that reach the day of the fetch: see RecentAsked.
Reaches(cursor, source, now) ==
  Since(cursor, source, now)
    + MaxWindows * (IF source = "convert" THEN ConvertWindow ELSE FiatWindow) >= now

\* What a fetch owes: a record the broker was already showing, no later than
\* the overlap allows for, within the history asked for; a trade of Binance, if its
\* asset is held or named by the book, or its pair in the cursor.
Due(r) ==
  {o \in Records :
     /\ o.shown <= r.day /\ o.shown - o.on <= Overlap /\ o.on > r.day - History
     /\ CASE r.broker # "binance" -> o.source = r.broker
          [] r.broker = "binance" /\ o.source = "trades" ->
               o.held >= r.day \/ o.pair \in r.traded \/ r.loaded.fromId[o.pair] > 0
          [] r.broker = "binance" /\ o.source \in {"convert", "fiat"} -> Reaches(r.loaded, o.source, r.day)
          [] OTHER -> r.broker = "binance" /\ o.source = "capital"}
Owed(r) == Due(r) \ lost

\* The row or one that the unique indexes do not tell from it: one of its reference,
\* or equal to it in type, day, instrument, quantity, amount and currency, as it
\* came or converted.  Deleted with the account counts.
InBook(g, row) ==
  \E t \in Ever :
    /\ t.account = g
    /\ t.key \in StoredAs(row.key) \/ (row.ref # NoReference /\ t.ref = row.ref)

EndsWell(r) == r.stage = "finish" /\ ~r.warned

\* "ese solape es justo lo que atrapa las operaciones que el bróker liquida
\* tarde" (docs/API.md): when a synchronisation ends well and without warnings,
\* every operation with an amount it owed is in the book of its account, or an
\* equal one of that day is, whatever failed, crashed or ran beside it before.  Of
\* equal ones the index lets one in, the others are counted as its duplicates.
BrokerCaught ==
  \A w \in Runners : EndsWell(run[w]) =>
    \A row \in ToTransactions(Owed(run[w]), run[w].day) : row.priced => InBook(run[w].g, row)

\* What the stored cursor says has been brought: of an exchange the trades up to
\* the number of their pair, of the others what was shown by its day, no later than
\* the overlap allows for, within the history.
Behind(broker, cursor) ==
  {o \in Records :
     \/ broker = "binance" /\ o.source = "trades" /\ o.number <= cursor.fromId[o.pair]
     \/ /\ broker \in {"etoro", "xtb"} /\ o.source = broker /\ o \notin lost
        /\ cursor.on # NoDay /\ o.shown <= cursor.on
        /\ o.shown - o.on <= Overlap /\ o.on > cursor.on - History}

\* The cursor is stored after the rows and apart from them (setCursor): what it
\* says will not be asked for again is in the book already, after a crash between
\* the two, a call of the fetch that failed, another synchronisation that stored
\* an older cursor or a copy of the connection that was written back.
CursorNotAhead ==
  conn.exists =>
    \A o \in Behind(conn.broker, conn.cursor) :
      \A row \in ToTransactions({o}, o.shown) : row.priced => InBook(made, row)

\* "la MISMA operación llegando por dos vías distintas" (dedupe.ts): whether a file
\* or the broker brings it, or both, an operation has one row in an account: there
\* are no more rows like it than operations.
EnteredOnce ==
  LET operations == ToTransactions(Records, EndDay)
  IN \A g \in external, row \in operations :
       Cardinality({r \in booked : r.account = g /\ r.key \in StoredAs(row.key)})
         <= Cardinality({s \in operations : s.key = row.key})

\* "basta con retroceder una semana sobre lo cubierto" (since, binance.connector.ts):
\* the conversions of the last days are asked for at every synchronisation.
RecentAsked ==
  conn.exists /\ conn.broker = "binance" => Reaches(conn.cursor, "convert", today)
=============================================================================
