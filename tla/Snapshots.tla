------------------------------ MODULE Snapshots ------------------------------
(***************************************************************************)
(* The daily series of the portfolio (snapshots.service.ts,                *)
(* snapshots.cron.ts) and the queries that read it                         *)
(* (portfolio-analytics.service.ts, evolution and returns).                *)
(*                                                                         *)
(* A build reads the operations, the base currency and the cached closes   *)
(* and rates, one after another and outside any transaction; then, in one, *)
(* it deletes the user's rows and inserts the new ones.  The nightly job,  *)
(* the manual mutation and the queries that find the series behind the     *)
(* book all build, and only the queries share a build among themselves.    *)
(*                                                                         *)
(* The rows of one build are one value: what it read and created_at, the   *)
(* instant its transaction began.  Two builds always share a day, today's, *)
(* so the unique index on (user, day) lets only one series stand.          *)
(* Instants are counted by the writes of the book that have begun.         *)
(***************************************************************************)
EXTENDS Naturals, FiniteSets

CONSTANTS
  Readers,        \* queries of the user in flight
  Jobs,           \* runs of the nightly job and of rebuildPortfolioSnapshots
  Operations,     \* ids of operations; the pool of the writes
  Ahead,          \* those dated after today
  Bases,          \* base currencies of the user
  MaxWrites,      \* bound on the writes of the book
  MaxCloses,      \* bound on the refreshes of closes and rates
  MaxFailures,      \* bound on the builds that fail
  Nothing

VARIABLES
  operations,     \* investment_transactions: [id, at], at being updated_at
  writing,        \* the write in flight, stamped when it began
  base,           \* users.base_currency
  closes,         \* version of the cached closes and exchange rates
  series,         \* portfolio_snapshots: the rows of one build
  build,          \* what each builder is doing
  active,         \* activeBuilds holds the build the queries share
  reader,         \* what each query is doing
  instant, failures

snapshotVars == <<operations, writing, base, closes, series, build, active, reader, instant, failures>>

ASSUME SnapshotAssumption ==
  MaxWrites \in Nat /\ MaxCloses \in Nat /\ MaxFailures \in Nat /\ "shared" \notin Jobs

Builders == Jobs \cup {"shared"}
SnapshotRows == [of : SUBSET [id : Operations, at : 1 .. MaxWrites], base : Bases,
                 closes : 0 .. MaxCloses, at : 0 .. MaxWrites]
NoBuild == [stage |-> "idle", of |-> {}, base |-> Nothing, closes |-> 0, at |-> 0, deleted |-> FALSE]

SnapshotInit ==
  /\ operations = {}
  /\ writing = Nothing
  /\ base \in Bases
  /\ closes = 0
  /\ series = Nothing
  /\ build = [b \in Builders |-> NoBuild]
  /\ active = FALSE
  /\ reader = [r \in Readers |-> [stage |-> "idle"]]
  /\ instant = 0
  /\ failures = 0

---------------------------------------------------------------------------
(* The book and its surroundings.                                          *)

Written(kind, id) == [kind |-> kind, id |-> id, at |-> instant + 1]

\* A transaction that writes the book begins: rows get its now().
BeginWrite ==
  /\ writing = Nothing
  /\ instant < MaxWrites
  /\ \E id \in Operations :
       writing' = IF \E o \in operations : o.id = id
                  THEN Written("update", id) ELSE Written("create", id)
  /\ instant' = instant + 1
  /\ UNCHANGED <<operations, base, closes, series, build, active, reader, failures>>

BeginRemoval ==
  /\ writing = Nothing
  /\ instant < MaxWrites
  /\ \E o \in operations : writing' = Written("remove", o.id)
  /\ instant' = instant + 1
  /\ UNCHANGED <<operations, base, closes, series, build, active, reader, failures>>

Others(id) == {o \in operations : o.id # id}

CommitWrite ==
  /\ writing # Nothing
  /\ operations' = Others(writing.id) \cup
       (IF writing.kind = "remove" THEN {} ELSE {[id |-> writing.id, at |-> writing.at]})
  /\ writing' = Nothing
  /\ UNCHANGED <<base, closes, series, build, active, reader, instant, failures>>

\* External: nothing in src/ writes the column, and everything reads it anew.
ChangeBase ==
  /\ failures < MaxFailures
  /\ failures' = failures + 1
  /\ base' \in Bases \ {base}
  /\ UNCHANGED <<operations, writing, closes, series, build, active, reader, instant>>

RefreshCloses ==
  /\ closes < MaxCloses
  /\ closes' = closes + 1
  /\ UNCHANGED <<operations, writing, base, series, build, active, reader, instant, failures>>

---------------------------------------------------------------------------
(* isStale, findSeries.                                                    *)

Latest(ats) == CHOOSE n \in ats : \A m \in ats : m <= n

\* The series of the current base currency; rows of another are not read.
FindSeries == IF series # Nothing /\ series.base = base THEN series ELSE Nothing

\* MAX(updated_at) of the operations there are against MAX(created_at).
IsStale ==
  /\ operations # {}
  /\ FindSeries # Nothing => Latest({o.at : o \in operations}) > series.at

---------------------------------------------------------------------------
(* buildForUser, read by read.                                             *)

Start(b) == [build EXCEPT ![b] = [NoBuild EXCEPT !.stage = "events"]]

\* Mutant of StartBuild: a job that builds only what isStale calls stale.
StartBuild_WhenStale(b) ==
  /\ b \in Jobs
  /\ build[b].stage = "idle"
  /\ IsStale
  /\ build' = Start(b)
  /\ UNCHANGED <<operations, writing, base, closes, series, active, reader, instant, failures>>

\* The nightly job visits the users that have operations, whatever the flag says;
\* they may be gone when it reads them.
StartBuild(b) ==
  /\ b \in Jobs
  /\ build[b].stage = "idle"
  /\ operations # {}
  /\ build' = Start(b)
  /\ UNCHANGED <<operations, writing, base, closes, series, active, reader, instant, failures>>

\* rebuildPortfolioSnapshots builds the user who asks, with operations or without.
RebuildSnapshots(b) ==
  /\ b \in Jobs
  /\ build[b].stage = "idle"
  /\ build' = Start(b)
  /\ UNCHANGED <<operations, writing, base, closes, series, active, reader, instant, failures>>

\* A build ends; that of the queries leaves activeBuilds and those who joined
\* it go on, or fail with it.
BuildEnded(b, ok) ==
  IF b = "shared"
  THEN /\ active' = FALSE
       /\ reader' = [r \in Readers |->
            IF reader[r].stage # "joined" THEN reader[r]
            ELSE [stage |-> IF ok THEN "read" ELSE "idle"]]
  ELSE UNCHANGED <<active, reader>>

\* loadEvents.  Without operations the series is deleted, in a statement of
\* its own; with all of them after asOf there is nothing to build.
LoadBook(b) ==
  /\ build[b].stage = "events"
  /\ IF \E o \in operations : o.id \notin Ahead
     THEN /\ build' = [build EXCEPT ![b].stage = "grids", ![b].of = operations]
          /\ UNCHANGED <<series, active, reader>>
     ELSE /\ build' = [build EXCEPT ![b] = [NoBuild EXCEPT !.stage = IF operations = {} THEN "empty" ELSE "idle"]]
          /\ IF operations = {} THEN UNCHANGED <<active, reader>> ELSE BuildEnded(b, TRUE)
          /\ UNCHANGED series
  /\ UNCHANGED <<operations, writing, base, closes, instant, failures>>

\* A builder that has deleted rows holds them until it commits.
Holder(b) == \E c \in Builders \ {b} : build[c].deleted

DeleteAll(b) ==
  /\ build[b].stage = "empty"
  /\ ~Holder(b)
  /\ series' = Nothing
  /\ build' = [build EXCEPT ![b] = NoBuild]
  /\ BuildEnded(b, TRUE)
  /\ UNCHANGED <<operations, writing, base, closes, instant, failures>>

\* The base currency, priceGrid and fxGrid.
ReadGrids(b) ==
  /\ build[b].stage = "grids"
  /\ build' = [build EXCEPT ![b].stage = "begin", ![b].base = base, ![b].closes = closes]
  /\ UNCHANGED <<operations, writing, base, closes, series, active, reader, instant, failures>>

\* The transaction begins, which stamps its rows, and deletes those there are.
\* The DELETE waits for whoever is deleting the rows it sees, and does not see
\* the ones committed while it waited.
Delete(b) ==
  /\ build[b].stage \in {"begin", "delete"}
  /\ build' = [build EXCEPT
       ![b].at = IF build[b].stage = "begin" THEN instant ELSE @,
       ![b].stage = IF series # Nothing /\ Holder(b) THEN "blocked" ELSE "insert",
       ![b].deleted = series # Nothing /\ ~Holder(b)]
  /\ UNCHANGED <<operations, writing, base, closes, series, active, reader, instant, failures>>

\* What the builders that waited find when b commits or rolls back.
Unblocked(b, committed) ==
  [c \in Builders |->
     IF c = b THEN NoBuild
     ELSE IF build[c].stage = "blocked" /\ build[b].deleted
          THEN [build[c] EXCEPT !.stage = IF committed THEN "insert" ELSE "delete"]
     ELSE build[c]]

Rows(b) == [of |-> build[b].of, base |-> build[b].base, closes |-> build[b].closes, at |-> build[b].at]

\* The inserts and the commit; rows of another build on the same day refuse it.
Insert(b) ==
  LET refused == series # Nothing /\ ~build[b].deleted
  IN /\ build[b].stage = "insert"
     /\ ~Holder(b)
     /\ series' = IF refused THEN series ELSE Rows(b)
     /\ build' = Unblocked(b, ~refused)
     /\ BuildEnded(b, ~refused)
     /\ UNCHANGED <<operations, writing, base, closes, instant, failures>>

\* A query fails: the build throws, and rolls back what it had begun.
FailBuild(b) ==
  /\ build[b].stage # "idle"
  /\ failures < MaxFailures
  /\ failures' = failures + 1
  /\ build' = Unblocked(b, FALSE)
  /\ BuildEnded(b, FALSE)
  /\ UNCHANGED <<operations, writing, base, closes, series, instant>>

---------------------------------------------------------------------------
(* evolution and returns: ensureCurrent, the series, the flag.             *)

EnsureCurrent(r) ==
  /\ reader[r].stage = "idle"
  /\ reader' = [reader EXCEPT ![r] = [stage |-> IF IsStale THEN "stale" ELSE "read"]]
  /\ UNCHANGED <<operations, writing, base, closes, series, build, active, instant, failures>>

\* Joins the build of another query, or starts it.
Join(r) ==
  /\ reader[r].stage = "stale"
  /\ reader' = [reader EXCEPT ![r] = [stage |-> "joined"]]
  /\ active' = TRUE
  /\ build' = IF active THEN build ELSE Start("shared")
  /\ UNCHANGED <<operations, writing, base, closes, series, instant, failures>>

Read(r) ==
  /\ reader[r].stage = "read"
  /\ reader' = [reader EXCEPT ![r] = [stage |-> "flag", points |-> FindSeries]]
  /\ UNCHANGED <<operations, writing, base, closes, series, build, active, instant, failures>>

\* The flag is read after the series: a series built in between may clear it.
Answer(r) ==
  /\ reader[r].stage = "flag"
  /\ reader' = [reader EXCEPT ![r] = [stage |-> "idle"]]
  /\ UNCHANGED <<operations, writing, base, closes, series, build, active, instant, failures>>

SnapshotNext ==
  \/ BeginWrite \/ BeginRemoval \/ CommitWrite \/ ChangeBase \/ RefreshCloses
  \/ \E b \in Builders :
       \/ StartBuild(b) \/ RebuildSnapshots(b) \/ LoadBook(b) \/ DeleteAll(b) \/ ReadGrids(b)
       \/ Delete(b) \/ Insert(b) \/ FailBuild(b)
  \/ \E r \in Readers : EnsureCurrent(r) \/ Join(r) \/ Read(r) \/ Answer(r)

SnapshotSpec == SnapshotInit /\ [][SnapshotNext]_snapshotVars

---------------------------------------------------------------------------
(* Properties.                                                             *)

BuildStages == {"idle", "events", "empty", "grids", "begin", "delete", "blocked", "insert"}

\* At most one builder holds the committed rows, a builder waits only while
\* another holds them, and a query waits only for a build that runs.
SnapshotTypeOK ==
  /\ series \in SnapshotRows \cup {Nothing}
  /\ \A b \in Builders : build[b].stage \in BuildStages
  /\ Cardinality({b \in Builders : build[b].deleted}) <= 1
  /\ \A b \in Builders : build[b].deleted => series # Nothing
  /\ \A b \in Builders : build[b].stage = "blocked" => Holder(b)
  /\ active <=> build["shared"].stage # "idle"
  /\ \A r \in Readers : reader[r].stage = "joined" => active

\* The rows in the table are the book's, in the user's currency, valued with
\* what is in cache; nothing can be built of a book that lies in the future.
Current ==
  \/ \A o \in operations : o.id \in Ahead
  \/ series # Nothing /\ series.of = operations /\ series.base = base /\ series.closes = closes

\* "Es idempotente: borra y reescribe desde la primera operacion, asi que una
\* importacion retroactiva se arregla sola" (buildForUser): when a book that has
\* operations is left alone the nightly job brings the series up to it and no
\* build that was still running takes it back, whatever fails, waits or is
\* refused.  It does not visit a book without operations: the series of one that
\* was emptied stays until its user asks for a rebuild.
SeriesCatchesUp == <>[](operations # {} => Current)

\* "true si se escribieron operaciones despues de construir esta serie"
\* (portfolio-evolution.type.ts): when nothing is being written or built, a
\* series that isStale does not mark is that of the operations there are.
FlagTellsTruth ==
  /\ writing = Nothing
  /\ \A b \in Builders : build[b].stage = "idle"
  /\ ~IsStale
  => operations = (IF FindSeries = Nothing THEN {} ELSE FindSeries.of)

=============================================================================
