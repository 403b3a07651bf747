--------------------------- MODULE ArrivalsProofs ---------------------------
(***************************************************************************)
(* The ways operations arrive in bulk, imports and synchronisations, on one *)
(* table: for any number of batches, requests, connections and records, a   *)
(* batch tells the truth about itself.  That part uses of a synchronisation  *)
(* only what it does to the table.  The second proves what a synchronisation *)
(* promises: that what it owes is in the book when it ends without warnings, *)
(* and that the stored cursor never passes what is not there.                *)
(***************************************************************************)
EXTENDS MCArrivals, FiniteSetTheorems, NaturalsInduction, WellFoundedInduction, TLAPS

\* The synchronisations may be in any state when the first batch is analyzed.
ArrivalsInit == booked = {} /\ forgotten = {} /\ ImportInit

ArrivalsNext ==
  \/ ImportNext /\ UNCHANGED syncVars
  \/ SyncNext /\ UNCHANGED importVars

arrivalVars == <<booked, forgotten, importVars, syncVars>>
ArrivalsSpec == ArrivalsInit /\ [][ArrivalsNext]_arrivalVars

-----------------------------------------------------------------------------
(* What a step of either does to the table. *)

Shaped(r) ==
  r = [account |-> r.account, key |-> r.key, ref |-> r.ref,
       connection |-> r.connection, batch |-> r.batch]

\* The table stays; a batch inserts; a broker inserts; a reference is
\* dropped; an account goes with its rows.
Inserts(b) ==
  \E rows : \E new \in InsertOrIgnore(rows) :
    /\ \A r \in rows : Shaped(r) /\ r.batch = b
    /\ booked' = booked \cup new /\ forgotten' = forgotten
Unlinks == booked' = {[r EXCEPT !.connection = NoSource] : r \in booked} /\ forgotten' = forgotten
Drops ==
  \E g : /\ booked' = {r \in booked : r.account # g}
         /\ forgotten' = forgotten \cup {Trace(r) : r \in {r \in booked : r.account = g}}

LEMMA SyncOnTable ==
  ASSUME SyncNext
  PROVE  UNCHANGED <<booked, forgotten>> \/ Inserts(NoSource) \/ Unlinks \/ Drops
<1>1. CASE \E w \in Runners : Persist(w)
  <2>1. PICK w \in Runners : Persist(w)
    BY <1>1
  <2>2. PICK entities \in ToEntities(run[w].g, run[w].rows) : \E new \in InsertOrIgnore(entities) :
          booked' = booked \cup new /\ forgotten' = forgotten
    BY <2>1 DEF Persist
  <2>3. \A r \in entities : Shaped(r) /\ r.batch = NoSource
    BY <2>2 DEF ToEntities, SyncedRow, Shaped
  <2> QED BY <2>2, <2>3 DEF Inserts
<1>2. CASE RemoveConnection
  BY <1>2 DEF RemoveConnection, Unlinks
<1>3. CASE \E g \in external : RemoveExternalAccount(g)
  BY <1>3 DEF RemoveExternalAccount, Drops
<1>4. CASE \/ StoreCredentials \/ CrashSync \/ NextDay \/ VerifyConnection
           \/ \E broker \in ConnectedBrokers : CreateConnection(broker)
           \/ \E autoSync \in BOOLEAN, copy \in Copies : UpdateConnection(autoSync, copy)
  BY <1>4 DEF StoreCredentials, CrashSync, NextDay, VerifyConnection, CreateConnection, UpdateConnection
<1>5. CASE \E w \in Runners : StartSync(w) \/ EnsureAccount(w) \/ Fetch(w)
                              \/ SetCursor(w) \/ FinishSync(w) \/ FailSync(w)
  BY <1>5 DEF StartSync, EnsureAccount, Fetch, SetCursor, FinishSync, FailSync
<1> QED BY <1>1, <1>2, <1>3, <1>4, <1>5 DEF SyncNext, Manage, Synchronise

\* The rows a confirmation sends.
EntitiesOf(c) == {Entity(c, r) : r \in Importable(call[c].rows)}

LEMMA EntitiesShaped ==
  ASSUME NEW c \in Callers
  PROVE  \A r \in EntitiesOf(c) : Shaped(r) /\ r.batch = call[c].id /\ r.connection = NoSource
  BY DEF EntitiesOf, Entity, Shaped

LEMMA InsertRowsOnTable ==
  ASSUME NEW c \in Callers, InsertRows(c)
  PROVE  Inserts(call[c].id)
<1>1. PICK new \in InsertOrIgnore(EntitiesOf(c)) :
        booked' = booked \cup new /\ forgotten' = forgotten
  BY DEF InsertRows, EntitiesOf
<1> QED BY <1>1, EntitiesShaped DEF Inserts

LEMMA OtherImportsOnTable ==
  ASSUME ImportNext, ~\E c \in Callers : InsertRows(c)
  PROVE  UNCHANGED <<booked, forgotten>>
  BY DEF ImportNext, ImportRequests, Analyze, BeginRemap, BeginCommit, BeginDiscard, Load,
     EndRemap, SaveCommit, EndDiscard, Abandon

-----------------------------------------------------------------------------
(* A batch tells the truth about itself. *)

Seen == {DedupeHash(t) : t \in Ever}
Table(b) == UNCHANGED <<booked, forgotten>> \/ Inserts(b) \/ Unlinks \/ Drops

Held(c, b) == call[c].stage # "none" /\ call[c].id = b

CallShaped(k) ==
  k = [stage |-> k.stage, id |-> k.id, copy |-> k.copy, account |-> k.account, rows |-> k.rows]
BatchShaped(row) ==
  row = [status |-> row.status, account |-> row.account, file |-> row.file,
         lines |-> row.lines, draft |-> row.draft]

Submitted(c) == {DedupeHash(Entity(c, r)) : r \in Importable(call[c].rows)}

Structured ==
  /\ DOMAIN call = Callers /\ DOMAIN promised = Batches /\ DOMAIN batch \subseteq Batches
  /\ \A b \in DOMAIN batch : BatchShaped(batch[b])
  /\ \A c \in Callers : call[c].stage # "none" =>
       CallShaped(call[c]) /\ call[c].id \in DOMAIN batch /\ BatchShaped(call[c].copy)
  /\ \A r \in booked : Shaped(r)

\* What a saved confirmation submitted, and what one about to be saved did, is
\* in the table, or was deleted with its account.
PromisesKept ==
  /\ \A b \in Batches : promised[b] \subseteq Seen
  /\ \A c \in Callers : call[c].stage = "save" => Submitted(c) \subseteq Seen

\* A batch nothing disturbed: one request at most, on the row as it is; and its
\* operations are explained by its status or by that request.
Quiet(b) ==
  /\ \A c, d \in Callers : Held(c, b) /\ Held(d, b) => c = d
  /\ \A c \in Callers : Held(c, b) =>
       call[c].copy = batch[b] /\ (call[c].stage = "discard" => batch[b].status # "committed")
  /\ (\E r \in booked : r.batch = b) =>
       /\ b \in DOMAIN batch
       /\ batch[b].status = "committed" \/ \E c \in Callers : Held(c, b) /\ call[c].stage = "save"

TruthInv == Structured /\ PromisesKept /\ \A b \in Batches \ disturbed : Quiet(b)

\* A row is seen by its hash.
LEMMA SeenByTrace ==
  /\ \A r \in booked : Trace(r) \in Ever /\ DedupeHash(r) \in Seen
  /\ \A r : DedupeHash(Trace(r)) = DedupeHash(r)
<1>1. \A r : DedupeHash(Trace(r)) = DedupeHash(r)
  BY DEF DedupeHash, Trace
<1>2. \A r \in booked : Trace(r) \in Ever
  BY DEF Ever
<1> QED BY <1>1, <1>2 DEF Seen, Ever

\* No step forgets a trace, and the rows of a batch come from its insert only.
LEMMA TableForgetsNothing ==
  ASSUME NEW b, Table(b), \A r \in booked : Shaped(r)
  PROVE  /\ Ever \subseteq Ever' /\ Seen \subseteq Seen'
         /\ \A r \in booked' : Shaped(r) /\ (r.batch = b \/ \E q \in booked : q.batch = r.batch)
<1>1. CASE UNCHANGED <<booked, forgotten>>
  BY <1>1 DEF Ever, Seen
<1>2. CASE Inserts(b)
  <2>1. PICK rows : \E new \in InsertOrIgnore(rows) :
          /\ \A r \in rows : Shaped(r) /\ r.batch = b
          /\ booked' = booked \cup new /\ forgotten' = forgotten
    BY <1>2 DEF Inserts
  <2>2. PICK new \in InsertOrIgnore(rows) : booked' = booked \cup new /\ forgotten' = forgotten
    BY <2>1
  <2>3. new \subseteq rows
    BY <2>2 DEF InsertOrIgnore
  <2>4. Ever \subseteq Ever'
    BY <2>2 DEF Ever
  <2> QED BY <2>1, <2>2, <2>3, <2>4 DEF Seen, Ever
<1>3. CASE Unlinks
  <2>1. \A q \in booked : LET r == [q EXCEPT !.connection = NoSource] IN
          Shaped(r) /\ r.account = q.account /\ r.key = q.key /\ r.ref = q.ref /\ r.batch = q.batch
    BY DEF Shaped
  <2>2. \A q \in booked : Trace([q EXCEPT !.connection = NoSource]) = Trace(q)
    BY <2>1 DEF Trace
  <2>3. \A r \in booked' : \E q \in booked : r = [q EXCEPT !.connection = NoSource]
    BY <1>3 DEF Unlinks
  <2>4. \A q \in booked : [q EXCEPT !.connection = NoSource] \in booked'
    BY <1>3 DEF Unlinks
  <2>5. \A q \in booked : Trace(q) \in Ever'
    BY <2>2, <2>4 DEF Ever
  <2>6. Ever \subseteq Ever'
    BY <1>3, <2>5 DEF Ever, Unlinks
  <2> QED BY <2>1, <2>3, <2>6 DEF Seen
<1>4. CASE Drops
  <2>1. PICK g : /\ booked' = {r \in booked : r.account # g}
                 /\ forgotten' = forgotten \cup {Trace(r) : r \in {r \in booked : r.account = g}}
    BY <1>4 DEF Drops
  <2>2. Ever \subseteq Ever'
    BY <2>1 DEF Ever
  <2> QED BY <2>1, <2>2 DEF Seen, Ever
<1> QED BY <1>1, <1>2, <1>3, <1>4 DEF Table

LEMMA SyncKeepsTruth ==
  ASSUME TruthInv, Table(NoSource), UNCHANGED importVars
  PROVE  TruthInv'
<1>1. /\ Seen \subseteq Seen'
      /\ \A r \in booked' : Shaped(r) /\ (r.batch = NoSource \/ \E q \in booked : q.batch = r.batch)
  BY TableForgetsNothing DEF TruthInv, Structured
<1>2. Structured'
  BY <1>1 DEF TruthInv, Structured, importVars
<1>3. PromisesKept'
  BY <1>1 DEF TruthInv, PromisesKept, importVars, Submitted, Entity
<1>4. ASSUME NEW b \in Batches \ disturbed, Quiet(b) PROVE Quiet(b)'
  <2>1. b # NoSource
    BY ImportAssumption
  <2>2. (\E r \in booked' : r.batch = b) => \E r \in booked : r.batch = b
    BY <1>1, <2>1
  <2> QED BY <1>4, <2>2 DEF Quiet, Held, importVars
<1> QED BY <1>2, <1>3, <1>4 DEF TruthInv, importVars

\* A confirmation leaves nothing it submitted out of the table.
LEMMA InsertRowsSubmits ==
  ASSUME NEW c \in Callers, InsertRows(c)
  PROVE  Submitted(c) \subseteq Seen'
<1>1. PICK new \in InsertOrIgnore(EntitiesOf(c)) :
        booked' = booked \cup new /\ forgotten' = forgotten
  BY DEF InsertRows, EntitiesOf
<1>2. \A r \in EntitiesOf(c) \ new : \E s \in new \cup booked : Collide(r, s)
  BY <1>1 DEF InsertOrIgnore
<1>3. \A r \in EntitiesOf(c) : \E s \in new \cup booked : DedupeHash(r) = DedupeHash(s)
  BY <1>2, EntitiesShaped DEF Collide, SameReference
<1>4. \A s \in booked' : DedupeHash(s) \in Seen'
  <2>1. \A s \in booked' : Trace(s) \in Ever'
    BY DEF Ever
  <2> QED BY <2>1, SeenByTrace DEF Seen
<1> QED BY <1>1, <1>3, <1>4 DEF Submitted, EntitiesOf

\* A request begins on a copy of the batch.
LEMMA LoadKeepsTruth ==
  ASSUME TruthInv, NEW c \in Callers, NEW b \in DOMAIN batch, NEW stage, NEW account, NEW rows,
         stage \in {"remap", "insert", "save", "discard"},
         Load(c, b, stage, account, rows),
         stage = "discard" => batch[b].status # "committed",
         stage = "save" => Importable(rows) = {}
  PROVE  TruthInv'
<1> DEFINE k == [stage |-> stage, id |-> b, copy |-> batch[b], account |-> account, rows |-> rows]
<1>1. /\ call[c].stage = "none" /\ call' = [call EXCEPT ![c] = k]
      /\ booked' = booked /\ forgotten' = forgotten /\ batch' = batch /\ promised' = promised
      /\ disturbed' = IF Holding(b) # {} THEN disturbed \cup {b} ELSE disturbed
  BY DEF Load, Disturb
<1>2. CallShaped(k) /\ k.stage = stage /\ k.id = b /\ k.copy = batch[b] /\ k.rows = rows
  BY DEF CallShaped
<1> HIDE DEF k
<1>3. DOMAIN call = Callers
  BY DEF TruthInv, Structured
<1>4. call'[c] = k /\ \A d \in Callers \ {c} : call'[d] = call[d]
  BY <1>1, <1>3
<1>5. Structured'
  BY <1>1, <1>2, <1>3, <1>4 DEF TruthInv, Structured
<1>6. PromisesKept'
  <2>1. Submitted(c)' = {} \/ stage # "save"
    BY <1>2, <1>4 DEF Submitted
  <2>2. \A d \in Callers \ {c} : Submitted(d)' = Submitted(d)
    BY <1>4 DEF Submitted, Entity
  <2>3. Seen' = Seen
    BY <1>1 DEF Seen, Ever
  <2> QED BY <1>1, <1>2, <1>4, <2>1, <2>2, <2>3 DEF TruthInv, PromisesKept
<1>7. ASSUME NEW x \in Batches, x \notin disturbed' PROVE Quiet(x)'
  <2>1. x \notin disturbed /\ Quiet(x)
    BY <1>1, <1>7 DEF TruthInv
  <2>2. \A d \in Callers \ {c} : Held(d, x)' <=> Held(d, x)
    BY <1>4 DEF Held
  <2>3. ~Held(c, x)
    BY <1>1 DEF Held
  <2>4. CASE x # b
    <3>1. ~Held(c, x)'
      BY <1>2, <1>4, <2>4 DEF Held
    <3> QED BY <1>1, <1>4, <2>1, <2>2, <2>3, <3>1 DEF Quiet
  <2>5. CASE x = b
    <3>1. \A d \in Callers : ~Held(d, x)
      BY <1>1, <1>7, <2>5 DEF Holding, Held
    <3> QED BY <1>1, <1>2, <1>4, <2>1, <2>2, <2>5, <3>1 DEF Quiet
  <2> QED BY <2>4, <2>5
<1> QED BY <1>5, <1>6, <1>7 DEF TruthInv

\* A request ends: what it saves keeps the status, or is a confirmation whose
\* rows are in the table, or a discard.
LEMMA SaveKeepsTruth ==
  ASSUME TruthInv, NEW c \in Callers, NEW row, BatchShaped(row), Save(c, row),
         call[c].stage # "none", UNCHANGED <<booked, forgotten, disturbed>>,
         \A b \in Batches : promised'[b] \subseteq Seen, DOMAIN promised' = Batches,
         \/ row.status = "committed"
         \/ call[c].stage # "save" /\ row.status = call[c].copy.status
         \/ call[c].stage = "discard"
  PROVE  TruthInv'
<1> DEFINE b == call[c].id
<1>1. b \in DOMAIN batch /\ DOMAIN call = Callers
  BY DEF TruthInv, Structured
<1>2. batch' = [batch EXCEPT ![b] = row] /\ call' = [call EXCEPT ![c] = NoCall]
  BY DEF Save
<1>3. /\ DOMAIN batch' = DOMAIN batch /\ batch'[b] = row
      /\ \A x \in DOMAIN batch \ {b} : batch'[x] = batch[x]
  BY <1>1, <1>2
<1>4. /\ DOMAIN call' = Callers /\ call'[c].stage = "none"
      /\ \A d \in Callers \ {c} : call'[d] = call[d]
  BY <1>1, <1>2 DEF NoCall
<1>5. Held(c, b)
  BY DEF Held
<1> HIDE DEF b
<1>6. Structured'
  BY <1>3, <1>4 DEF TruthInv, Structured
<1>7. PromisesKept'
  <2>1. Seen' = Seen
    BY DEF Seen, Ever
  <2>2. \A d \in Callers \ {c} : Submitted(d)' = Submitted(d)
    BY <1>4 DEF Submitted, Entity
  <2> QED BY <1>4, <2>1, <2>2 DEF TruthInv, PromisesKept
<1>8. ASSUME NEW x \in Batches, x \notin disturbed' PROVE Quiet(x)'
  <2>1. Quiet(x)
    BY <1>8 DEF TruthInv
  <2>2. \A d \in Callers \ {c} : Held(d, x)' <=> Held(d, x)
    BY <1>4 DEF Held
  <2>3. ~Held(c, x)'
    BY <1>4 DEF Held
  <2>4. CASE x # b
    <3>1. ~Held(c, x)
      BY <2>4 DEF Held, b
    <3>2. batch'[x] = batch[x] \/ x \notin DOMAIN batch
      BY <1>3, <2>4
    <3>3. \A d \in Callers : Held(d, x) => x \in DOMAIN batch
      BY DEF TruthInv, Structured, Held
    <3> QED BY <1>3, <1>4, <2>1, <2>2, <2>3, <3>1, <3>2, <3>3 DEF Quiet
  <2>5. CASE x = b
    <3>1. \A d \in Callers : ~Held(d, x)'
      BY <1>5, <2>1, <2>2, <2>3, <2>5 DEF Quiet
    <3>2. call[c].copy = batch[b] /\ (call[c].stage = "discard" => batch[b].status # "committed")
      BY <1>5, <2>1, <2>5 DEF Quiet
    <3>3. (\E r \in booked : r.batch = x) => row.status = "committed"
      BY <1>5, <2>1, <2>5, <3>2 DEF Quiet
    <3> QED BY <1>1, <1>3, <2>5, <3>1, <3>3 DEF Quiet
  <2> QED BY <2>4, <2>5
<1> QED BY <1>6, <1>7, <1>8 DEF TruthInv

LEMMA AnalyzeKeepsTruth ==
  ASSUME TruthInv, NEW b \in Batches, NEW s \in Statements, NEW account, Analyze(b, s, account)
  PROVE  TruthInv'
<1> DEFINE row == [status |-> "parsed", account |-> account, file |-> s.kind = "table",
                   lines |-> s.lines, draft |-> BuildRows(s.lines, account, FALSE)]
<1>1. /\ b \notin DOMAIN batch
      /\ batch' = [x \in DOMAIN batch \cup {b} |-> IF x = b THEN row ELSE batch[x]]
      /\ UNCHANGED <<booked, forgotten, call, calls, promised, disturbed>>
  BY DEF Analyze
<1>2. BatchShaped(row)
  BY DEF BatchShaped
<1> HIDE DEF row
<1>3. /\ DOMAIN batch' = DOMAIN batch \cup {b} /\ batch'[b] = row
      /\ \A x \in DOMAIN batch : batch'[x] = batch[x]
  BY <1>1
<1>4. Structured'
  BY <1>1, <1>2, <1>3 DEF TruthInv, Structured
<1>5. PromisesKept'
  BY <1>1 DEF TruthInv, PromisesKept, Seen, Ever, Submitted, Entity
<1>6. ASSUME NEW x \in Batches, x \notin disturbed' PROVE Quiet(x)'
  <2>1. Quiet(x)
    BY <1>1, <1>6 DEF TruthInv
  <2>2. \A d \in Callers : Held(d, x) => x \in DOMAIN batch
    BY DEF TruthInv, Structured, Held
  <2>3. \A d \in Callers : Held(d, x)' <=> Held(d, x)
    BY <1>1 DEF Held
  <2> QED BY <1>1, <1>3, <2>1, <2>2, <2>3 DEF Quiet
<1> QED BY <1>4, <1>5, <1>6 DEF TruthInv

LEMMA InsertRowsKeepsTruth ==
  ASSUME TruthInv, NEW c \in Callers, InsertRows(c)
  PROVE  TruthInv'
<1> DEFINE b == call[c].id
           k == [call[c] EXCEPT !.stage = "save"]
<1>1. /\ call[c].stage = "insert" /\ call' = [call EXCEPT ![c] = k]
      /\ UNCHANGED <<batch, promised, disturbed>>
  BY DEF InsertRows
<1>2. DOMAIN call = Callers /\ CallShaped(call[c]) /\ b \in DOMAIN batch
  BY <1>1 DEF TruthInv, Structured
<1>3. /\ CallShaped(k) /\ k.stage = "save" /\ k.id = b
      /\ k.copy = call[c].copy /\ k.rows = call[c].rows /\ k.account = call[c].account
  BY <1>2 DEF CallShaped
<1>4. Table(b)
  BY InsertRowsOnTable DEF Table
<1>5. /\ Seen \subseteq Seen'
      /\ \A r \in booked' : Shaped(r) /\ (r.batch = b \/ \E q \in booked : q.batch = r.batch)
  BY <1>4, TableForgetsNothing DEF TruthInv, Structured
<1>6. Submitted(c) \subseteq Seen'
  BY InsertRowsSubmits
<1> HIDE DEF k
<1>7. DOMAIN call' = Callers /\ call'[c] = k /\ \A d \in Callers \ {c} : call'[d] = call[d]
  BY <1>1, <1>2
<1>8. Structured'
  BY <1>1, <1>3, <1>5, <1>7 DEF TruthInv, Structured
<1>9. PromisesKept'
  <2>1. \A d \in Callers : Submitted(d)' = Submitted(d)
    BY <1>3, <1>7 DEF Submitted, Entity, DedupeHash
  <2> QED BY <1>1, <1>5, <1>6, <1>7, <2>1 DEF TruthInv, PromisesKept
<1>10. ASSUME NEW x \in Batches, x \notin disturbed' PROVE Quiet(x)'
  <2>1. Quiet(x)
    BY <1>1, <1>10 DEF TruthInv
  <2>2. \A d \in Callers : Held(d, x)' <=> Held(d, x)
    BY <1>1, <1>3, <1>7 DEF Held
  <2>3. x = b => Held(c, x)'
    BY <1>3, <1>7 DEF Held
  <2>4. \A d \in Callers : call'[d].copy = call[d].copy /\ (call'[d].stage = "discard" => call[d].stage = "discard")
    BY <1>3, <1>7
  <2>5. \A d \in Callers : call[d].stage = "save" => call'[d].stage = "save"
    BY <1>1, <1>7
  <2>6. (\E r \in booked' : r.batch = x) => x = b \/ \E r \in booked : r.batch = x
    BY <1>5
  <2>7. (\E r \in booked' : r.batch = x) =>
          /\ x \in DOMAIN batch'
          /\ batch'[x].status = "committed" \/ \E d \in Callers : Held(d, x)' /\ call'[d].stage = "save"
    <3>1. CASE x = b
      BY <1>1, <1>2, <1>3, <1>7, <2>3, <3>1
    <3>2. CASE x # b
      BY <1>1, <2>1, <2>2, <2>5, <2>6, <3>2 DEF Quiet
    <3> QED BY <3>1, <3>2
  <2> QED BY <1>1, <2>1, <2>2, <2>4, <2>7 DEF Quiet
<1> QED BY <1>8, <1>9, <1>10 DEF TruthInv

LEMMA AbandonKeepsTruth ==
  ASSUME TruthInv, NEW c \in Callers, Abandon(c)
  PROVE  TruthInv'
<1>1. /\ call' = [call EXCEPT ![c] = NoCall] /\ UNCHANGED <<booked, forgotten, batch, calls, promised>>
      /\ disturbed' = IF call[c].stage = "save" THEN disturbed \cup {call[c].id} ELSE disturbed
      /\ DOMAIN call = Callers
  BY DEF Abandon, TruthInv, Structured
<1>2. /\ DOMAIN call' = Callers /\ call'[c].stage = "none"
      /\ \A d \in Callers \ {c} : call'[d] = call[d]
  BY <1>1 DEF NoCall
<1>3. Structured'
  BY <1>1, <1>2 DEF TruthInv, Structured
<1>4. PromisesKept'
  <2>1. \A d \in Callers \ {c} : Submitted(d)' = Submitted(d)
    BY <1>2 DEF Submitted, Entity
  <2> QED BY <1>1, <1>2, <2>1 DEF TruthInv, PromisesKept, Seen, Ever
<1>5. ASSUME NEW x \in Batches, x \notin disturbed' PROVE Quiet(x)'
  <2>1. Quiet(x) /\ x \notin disturbed
    BY <1>1, <1>5 DEF TruthInv
  <2>2. (\A d \in Callers \ {c} : Held(d, x)' <=> Held(d, x)) /\ ~Held(c, x)'
    BY <1>2 DEF Held
  <2>3. ~(Held(c, x) /\ call[c].stage = "save")
    BY <1>1, <1>5 DEF Held
  <2> QED BY <1>1, <1>2, <2>1, <2>2, <2>3 DEF Quiet
<1> QED BY <1>3, <1>4, <1>5 DEF TruthInv

LEMMA FieldShaped ==
  ASSUME NEW row, BatchShaped(row), NEW x
  PROVE  /\ BatchShaped([row EXCEPT !.status = x]) /\ [row EXCEPT !.status = x].status = x
         /\ BatchShaped([row EXCEPT !.account = x]) /\ [row EXCEPT !.account = x].status = row.status
         /\ BatchShaped([row EXCEPT !.file = x]) /\ [row EXCEPT !.file = x].status = row.status
         /\ BatchShaped([row EXCEPT !.draft = x]) /\ [row EXCEPT !.draft = x].status = row.status
<1>1. BatchShaped([row EXCEPT !.status = x]) /\ [row EXCEPT !.status = x].status = x
  BY DEF BatchShaped
<1>2. BatchShaped([row EXCEPT !.account = x]) /\ [row EXCEPT !.account = x].status = row.status
  BY DEF BatchShaped
<1>3. BatchShaped([row EXCEPT !.file = x]) /\ [row EXCEPT !.file = x].status = row.status
  BY DEF BatchShaped
<1>4. BatchShaped([row EXCEPT !.draft = x]) /\ [row EXCEPT !.draft = x].status = row.status
  BY DEF BatchShaped
<1> QED BY <1>1, <1>2, <1>3, <1>4

\* What the three ends write over their copy.
LEMMA CopiesShaped ==
  ASSUME NEW copy, BatchShaped(copy), NEW draft, NEW account
  PROVE  /\ BatchShaped([copy EXCEPT !.draft = draft])
         /\ [copy EXCEPT !.draft = draft].status = copy.status
         /\ BatchShaped([copy EXCEPT !.status = "committed", !.account = account, !.file = FALSE])
         /\ [copy EXCEPT !.status = "committed", !.account = account, !.file = FALSE].status = "committed"
         /\ BatchShaped([copy EXCEPT !.status = "discarded", !.file = FALSE, !.draft = {}])
<1>1. /\ BatchShaped([copy EXCEPT !.draft = draft])
      /\ [copy EXCEPT !.draft = draft].status = copy.status
  BY FieldShaped
<1>2. [copy EXCEPT !.status = "committed", !.account = account, !.file = FALSE] =
        [[[copy EXCEPT !.status = "committed"] EXCEPT !.account = account] EXCEPT !.file = FALSE]
  OBVIOUS
<1>3. [copy EXCEPT !.status = "discarded", !.file = FALSE, !.draft = {}] =
        [[[copy EXCEPT !.status = "discarded"] EXCEPT !.file = FALSE] EXCEPT !.draft = {}]
  OBVIOUS
<1>4. /\ BatchShaped([[copy EXCEPT !.status = "committed"] EXCEPT !.account = account])
      /\ [[copy EXCEPT !.status = "committed"] EXCEPT !.account = account].status = "committed"
  <2>1. /\ BatchShaped([copy EXCEPT !.status = "committed"])
        /\ [copy EXCEPT !.status = "committed"].status = "committed"
    BY FieldShaped
  <2> QED BY <2>1, FieldShaped
<1>5. BatchShaped([[copy EXCEPT !.status = "discarded"] EXCEPT !.file = FALSE])
  BY FieldShaped
<1>6. /\ BatchShaped([[[copy EXCEPT !.status = "committed"] EXCEPT !.account = account] EXCEPT !.file = FALSE])
      /\ [[[copy EXCEPT !.status = "committed"] EXCEPT !.account = account] EXCEPT !.file = FALSE].status = "committed"
  BY <1>4, FieldShaped
<1>7. BatchShaped([[[copy EXCEPT !.status = "discarded"] EXCEPT !.file = FALSE] EXCEPT !.draft = {}])
  BY <1>5, FieldShaped
<1> QED BY <1>1, <1>2, <1>3, <1>6, <1>7

LEMMA EndsKeepTruth ==
  ASSUME TruthInv, NEW c \in Callers, EndRemap(c) \/ SaveCommit(c) \/ EndDiscard(c)
  PROVE  TruthInv'
<1>1. /\ DOMAIN promised = Batches /\ \A b \in Batches : promised[b] \subseteq Seen
      /\ call[c].stage # "none" => BatchShaped(call[c].copy)
      /\ call[c].stage = "save" => Submitted(c) \subseteq Seen
  BY DEF TruthInv, Structured, PromisesKept
<1>2. CASE EndRemap(c)
  <2> DEFINE copy == call[c].copy
             row == [copy EXCEPT !.draft = BuildRows(copy.lines, copy.account, TRUE)]
  <2>1. call[c].stage = "remap" /\ Save(c, row) /\ UNCHANGED <<booked, forgotten, calls, promised, disturbed>>
    BY <1>2 DEF EndRemap
  <2>2. BatchShaped(row) /\ row.status = copy.status
    BY <1>1, <2>1, CopiesShaped
  <2> HIDE DEF row
  <2> QED BY <1>1, <2>1, <2>2, SaveKeepsTruth
<1>3. CASE SaveCommit(c)
  <2> DEFINE row == [call[c].copy EXCEPT !.status = "committed", !.account = call[c].account, !.file = FALSE]
  <2>1. /\ call[c].stage = "save" /\ Save(c, row) /\ UNCHANGED <<booked, forgotten, calls, disturbed>>
        /\ promised' = [promised EXCEPT ![call[c].id] = Submitted(c)]
    BY <1>3 DEF SaveCommit, Submitted
  <2>2. BatchShaped(row) /\ row.status = "committed"
    BY <1>1, <2>1, CopiesShaped
  <2>3. DOMAIN promised' = Batches /\ \A b \in Batches : promised'[b] \subseteq Seen
    BY <1>1, <2>1
  <2> HIDE DEF row
  <2> QED BY <2>1, <2>2, <2>3, SaveKeepsTruth
<1>4. CASE EndDiscard(c)
  <2> DEFINE row == [call[c].copy EXCEPT !.status = "discarded", !.file = FALSE, !.draft = {}]
  <2>1. call[c].stage = "discard" /\ Save(c, row) /\ UNCHANGED <<booked, forgotten, calls, promised, disturbed>>
    BY <1>4 DEF EndDiscard
  <2>2. BatchShaped(row)
    BY <1>1, <2>1, CopiesShaped
  <2> HIDE DEF row
  <2> QED BY <1>1, <2>1, <2>2, SaveKeepsTruth
<1> QED BY <1>2, <1>3, <1>4

LEMMA ImportKeepsTruth ==
  ASSUME TruthInv, ImportNext
  PROVE  TruthInv'
<1>1. CASE \E b \in Batches, s \in Statements, account \in BookAccounts \cup {NoAccount} : Analyze(b, s, account)
  BY <1>1, AnalyzeKeepsTruth
<1>2. CASE \E c \in Callers : ImportRequests(c)
  <2>1. PICK c \in Callers : ImportRequests(c)
    BY <1>2
  <2>2. ASSUME NEW b \in DOMAIN batch, BeginRemap(c, b) PROVE TruthInv'
    <3>1. Load(c, b, "remap", batch[b].account, {})
      BY <2>2 DEF BeginRemap
    <3> QED BY <3>1, LoadKeepsTruth
  <2>3. ASSUME NEW b \in DOMAIN batch, NEW account \in BookAccounts, NEW rows \in Submissions(b),
               BeginCommit(c, b, account, rows)
        PROVE  TruthInv'
    <3>1. Load(c, b, IF Importable(rows) = {} THEN "save" ELSE "insert", account, rows)
      BY <2>3 DEF BeginCommit
    <3>2. CASE Importable(rows) = {}
      <4>1. Load(c, b, "save", account, rows)
        BY <3>1, <3>2
      <4> QED BY <3>2, <4>1, LoadKeepsTruth
    <3>3. CASE Importable(rows) # {}
      <4>1. Load(c, b, "insert", account, rows)
        BY <3>1, <3>3
      <4> QED BY <4>1, LoadKeepsTruth
    <3> QED BY <3>2, <3>3
  <2>4. ASSUME NEW b \in DOMAIN batch, BeginDiscard(c, b) PROVE TruthInv'
    <3>1. batch[b].status # "committed" /\ Load(c, b, "discard", NoAccount, {})
      BY <2>4 DEF BeginDiscard
    <3> QED BY <3>1, LoadKeepsTruth
  <2>5. CASE EndRemap(c) \/ SaveCommit(c) \/ EndDiscard(c)
    BY <2>5, EndsKeepTruth
  <2>6. CASE InsertRows(c)
    BY <2>6, InsertRowsKeepsTruth
  <2>7. CASE Abandon(c)
    BY <2>7, AbandonKeepsTruth
  <2> QED BY <2>1, <2>2, <2>3, <2>4, <2>5, <2>6, <2>7 DEF ImportRequests
<1> QED BY <1>1, <1>2 DEF ImportNext

LEMMA TruthStep == TruthInv /\ [ArrivalsNext]_arrivalVars => TruthInv'
<1> SUFFICES ASSUME TruthInv, [ArrivalsNext]_arrivalVars PROVE TruthInv'
  OBVIOUS
<1>1. CASE SyncNext /\ UNCHANGED importVars
  BY <1>1, SyncOnTable, SyncKeepsTruth DEF Table
<1>2. CASE ImportNext
  BY <1>2, ImportKeepsTruth
<1>3. CASE UNCHANGED arrivalVars
  BY <1>3, SyncKeepsTruth DEF arrivalVars, Table
<1> QED BY <1>1, <1>2, <1>3 DEF ArrivalsNext

LEMMA TruthTold == TruthInv => BatchTellsTruth
<1> SUFFICES ASSUME TruthInv, NEW b \in DOMAIN batch
             PROVE  /\ batch[b].status = "committed" => promised[b] \subseteq Seen
                    /\ batch[b].status # "committed" /\ Holding(b) = {} /\ b \notin disturbed
                         => \A r \in booked : r.batch # b
  BY DEF BatchTellsTruth, Seen, Ever
<1>1. b \in Batches
  BY DEF TruthInv, Structured
<1>2. promised[b] \subseteq Seen
  BY <1>1 DEF TruthInv, PromisesKept
<1>3. b \notin disturbed => Quiet(b)
  BY <1>1 DEF TruthInv
<1>4. Holding(b) = {} => \A c \in Callers : ~Held(c, b)
  BY DEF Holding, Held
<1> QED BY <1>2, <1>3, <1>4 DEF Quiet

LEMMA TruthFirst ==
  ASSUME booked = {}, batch = [b \in {} |-> 0], call = [c \in Callers |-> NoCall],
         promised = [b \in Batches |-> {}]
  PROVE  TruthInv
<1>1. DOMAIN batch = {} /\ DOMAIN call = Callers /\ \A c \in Callers : call[c].stage = "none"
  BY DEF NoCall
<1> QED BY <1>1 DEF TruthInv, Structured, PromisesKept, Quiet, Held

(* What a batch says of itself can be believed: committed, its rows are in the *)
(* book or went with their account; anything else, it put none there, unless   *)
(* two requests held it at once or one failed between insert and save.         *)
THEOREM BatchesTellTheTruth == ArrivalsSpec => []BatchTellsTruth
<1>1. ArrivalsInit => TruthInv
  BY TruthFirst DEF ArrivalsInit, ImportInit
<1> QED BY <1>1, TruthStep, TruthTold, PTL DEF ArrivalsSpec

-----------------------------------------------------------------------------
(* What a synchronisation owes ends up in the book.                          *)

\* The synchronisations begin with a connection that was just made.
BrokersInit ==
  /\ ArrivalsInit
  /\ \E broker \in ConnectedBrokers, day \in StartDay .. EndDay : SyncInit(broker, day)

BrokersSpec == BrokersInit /\ [][ArrivalsNext]_arrivalVars

\* Of a record: its rows that have an amount are among the rows, or were seen in
\* the table of the account, they or what the indexes do not tell from them.
Registered(seen, g, row) ==
  \E t \in seen :
    /\ t.account = g
    /\ t.key \in StoredAs(row.key) \/ (row.ref # NoReference /\ t.ref = row.ref)
Brought(seen, g, rows, row) == row.priced => row \in rows \/ Registered(seen, g, row)
Whole(seen, g, rows, o) == \A leg \in Legs(o, o.shown) : Brought(seen, g, rows, Row(o, leg))

\* What a cursor stands for: a position closed as late as it allows for was brought
\* by the day it names, a trade up to the number it names; and the marks of the
\* other sources lie behind the history.
Covers(seen, now, left, g, broker, cursor, rows) ==
  /\ cursor \in SyncCursor
  /\ cursor.on # NoDay => cursor.on <= now
  /\ \A s \in {"convert", "fiat"} : cursor.covered[s] # NoDay => cursor.covered[s] <= now - History
  /\ broker \in {"etoro", "xtb"} /\ cursor.on # NoDay =>
       \A o \in Records \ left :
         /\ o.source = broker /\ o.shown <= cursor.on
         /\ o.shown - o.on <= Overlap /\ o.on > cursor.on - History
         => Whole(seen, g, rows, o)
  /\ broker = "binance" =>
       \A o \in Records :
         o.source = "trades" /\ o.number <= cursor.fromId[o.pair] => Whole(seen, g, rows, o)

BegunRun ==
  [stage : {"account", "fetch"}, g : Nat, sealed : BOOLEAN, broker : ConnectedBrokers, loaded : SyncCursor]
FetchedShape(r) ==
  r = [stage |-> r.stage, g |-> r.g, broker |-> r.broker, loaded |-> r.loaded, rows |-> r.rows,
       next |-> r.next, warned |-> r.warned, day |-> r.day, traded |-> r.traded]

\* A synchronisation in course: its cursors cover what they should, and what it
\* fetched holds what it owes.
Begun(seen, now, left, r) == r \in BegunRun /\ Covers(seen, now, left, r.g, r.broker, r.loaded, {})
FetchedWell(seen, now, left, r) ==
  /\ FetchedShape(r) /\ r.stage \in {"persist", "cursor", "finish"}
  /\ r.g \in Nat /\ r.broker \in ConnectedBrokers /\ r.day \in Int
  /\ r.stage # "persist" => r.rows = {}
  /\ Covers(seen, now, left, r.g, r.broker, r.next, r.rows)
  /\ ~r.warned => \A o \in Due(r) \ left : Whole(seen, r.g, r.rows, o)
Sound(seen, now, left, r) == r = Idle \/ Begun(seen, now, left, r) \/ FetchedWell(seen, now, left, r)

\* It belongs to the connection it names.
Belongs(r, c, last) ==
  r.stage # "idle" => r.g <= last /\ (c.exists /\ last = r.g => c.broker = r.broker)

\* A row with a connection was brought by it, to its account.
Labelled == \A r \in booked : Shaped(r) /\ (r.connection # NoSource => r.account = r.connection)

BrokerInv ==
  /\ SyncTypeOK /\ Labelled
  /\ conn.exists => Covers(Ever, today, lost, made, conn.broker, conn.cursor, {})
  /\ DOMAIN run = Runners
  /\ \A w \in Runners : Sound(Ever, today, lost, run[w]) /\ Belongs(run[w], conn, made)

\* A finite set of numbers has a greatest one: the elements above the number with
\* the fewest above it are none.
LEMMA MaxOfFinite ==
  ASSUME NEW S, S \subseteq Nat, S # {}, IsFiniteSet(S)
  PROVE  Max(S) \in S /\ \A y \in S : Max(S) >= y
<1> DEFINE Above(x) == {y \in S : y > x}
           Counts == {n \in Nat : \E x \in S : n = Cardinality(Above(x))}
           Less == {pair \in Nat \X Nat : pair[1] < pair[2]}
<1>1. \A x \in S : IsFiniteSet(Above(x)) /\ Cardinality(Above(x)) \in Nat
  <2>1. \A x \in S : Above(x) \in SUBSET S
    OBVIOUS
  <2> HIDE DEF Above
  <2> QED BY <2>1, FS_Subset, FS_CardinalityType
<1>2. Counts # {} /\ Counts \subseteq Nat
  BY <1>1
<1>3. IsWellFoundedOn(Less, Nat)
  <2>1. OpToRel(<, Nat) = Less
    BY DEF OpToRel
  <2> QED BY <2>1, NatLessThanWellFounded
<1>4. PICK n \in Counts : \A m \in Counts : ~(<<m, n>> \in Less)
  <2> HIDE DEF Counts, Less
  <2> QED BY <1>2, <1>3, WFMin, Zenon
<1>5. PICK x \in S : n = Cardinality(Above(x))
  OBVIOUS
<1>6. \A y \in S : x >= y
  <2> SUFFICES ASSUME NEW y \in S, y > x PROVE FALSE
    OBVIOUS
  <2>0. x \in Nat /\ y \in Nat /\ \A z \in S : z \in Nat /\ (z > y => z > x)
    OBVIOUS
  <2>1. Above(y) \subseteq Above(x) /\ y \in Above(x) /\ y \notin Above(y)
    <3>1. y \in Above(x)
      BY <2>0
    <3>2. y \notin Above(y)
      BY <2>0
    <3>3. \A z \in Above(y) : z \in Above(x)
      BY <2>0
    <3> QED BY <3>1, <3>2, <3>3
  <2>2. Cardinality(Above(y)) <= Cardinality(Above(x)) /\ Cardinality(Above(y)) # Cardinality(Above(x))
    <3>1. Above(y) \in SUBSET Above(x) /\ Above(x) # Above(y) /\ IsFiniteSet(Above(x))
      BY <1>1, <2>1
    <3> HIDE DEF Above
    <3> QED BY <3>1, FS_Subset
  <2>3. Cardinality(Above(y)) \in Counts /\ Cardinality(Above(y)) < n
    BY <1>1, <1>5, <2>2
  <2>4. <<Cardinality(Above(y)), n>> \in Less
    BY <2>3
  <2> QED BY <1>4, <2>3, <2>4
<1> QED BY <1>6, Zenon DEF Max

\* A record that is shown has all its legs.
LEMMA LegsOfShown ==
  ASSUME NEW o \in Records, NEW now \in Int, o.shown <= now
  PROVE  Legs(o, now) = Legs(o, o.shown)
<1>1. o.on \in Int /\ o.shown \in Int /\ o.on <= o.shown
  BY ConnectorsAssumption DEF BrokerRecord
<1>2. PositionLegs(o, now) = PositionLegs(o, o.shown)
  BY <1>1 DEF PositionLegs
<1> QED BY <1>2 DEF Legs

LEMMA FoundIsWhole ==
  ASSUME NEW now \in Int, NEW found, NEW o \in Records, o \in found, o.shown <= now, NEW seen, NEW g
  PROVE  Whole(seen, g, ToTransactions(found, now), o)
<1>1. \A leg \in Legs(o, now) : Row(o, leg) \in ToTransactions(found, now)
  BY DEF ToTransactions
<1> QED BY <1>1, LegsOfShown DEF Whole, Brought

LEMMA WholeGrows ==
  ASSUME NEW seen, NEW later, seen \subseteq later, NEW g, NEW rows, NEW o, Whole(seen, g, rows, o)
  PROVE  Whole(later, g, rows, o)
BY DEF Whole, Brought, Registered

LEMMA WholeAnyway ==
  ASSUME NEW seen, NEW g, NEW rows, NEW o, Whole(seen, g, {}, o)
  PROVE  Whole(seen, g, rows, o)
BY DEF Whole, Brought

\* The table only grows, days go by: what was covered stays covered.
LEMMA CoversStays ==
  ASSUME NEW seen, NEW later, seen \subseteq later, NEW now \in Int, NEW then \in Int, now <= then,
         NEW left, NEW cut, left \subseteq cut, NEW g, NEW broker, NEW cursor, NEW rows,
         Covers(seen, now, left, g, broker, cursor, rows)
  PROVE  Covers(later, then, cut, g, broker, cursor, rows)
<1>1. \A o : Whole(seen, g, rows, o) => Whole(later, g, rows, o)
  BY WholeGrows
<1>2. cursor \in SyncCursor
  BY DEF Covers
<1>3. cursor.on # NoDay => cursor.on \in Int
  BY <1>2 DEF SyncCursor, EmptyCursor
<1>4. \A s \in {"convert", "fiat"} : cursor.covered[s] # NoDay => cursor.covered[s] \in Int
  BY <1>2 DEF SyncCursor, EmptyCursor
<1>5. History \in Int
  BY ConnectorsAssumption
<1> QED BY <1>1, <1>2, <1>3, <1>4, <1>5 DEF Covers

LEMMA SoundStays ==
  ASSUME NEW seen, NEW later, seen \subseteq later, NEW now \in Int, NEW then \in Int, now <= then,
         NEW left, NEW cut, left \subseteq cut, NEW r, Sound(seen, now, left, r)
  PROVE  Sound(later, then, cut, r)
<1>1. \A g, broker, cursor, rows :
        Covers(seen, now, left, g, broker, cursor, rows) => Covers(later, then, cut, g, broker, cursor, rows)
  BY CoversStays
<1>2. \A g, rows, o : Whole(seen, g, rows, o) => Whole(later, g, rows, o)
  BY WholeGrows
<1> QED BY <1>1, <1>2 DEF Sound, Begun, FetchedWell

-----------------------------------------------------------------------------
(* What the connectors bring.                                                *)

RecordFields ==
  \A o \in Records :
    /\ o.on \in Int /\ o.shown \in Int /\ o.on <= o.shown /\ o.held \in Int /\ o.number \in Nat
    /\ o.source \in Sources

LEMMA RecordsTyped == RecordFields
BY ConnectorsAssumption DEF BrokerRecord, RecordFields

LEMMA CursorFields ==
  ASSUME NEW cursor \in SyncCursor
  PROVE  /\ cursor.on \in Int \cup {NoDay} /\ cursor.fromId \in [Pairs -> Nat]
         /\ cursor.covered \in [{"convert", "fiat"} -> Int \cup {NoDay}]
         /\ \A now \in 0 .. EndDay :
              LET next == [cursor EXCEPT !.on = now]
              IN  /\ next \in SyncCursor /\ next.on = now
                  /\ next.fromId = cursor.fromId /\ next.covered = cursor.covered
<1>1. CASE cursor = EmptyCursor
  <2>1. cursor = [on |-> NoDay, fromId |-> [p \in Pairs |-> 0], covered |-> [s \in {"convert", "fiat"} |-> NoDay]]
    BY <1>1 DEF EmptyCursor
  <2> QED BY <2>1 DEF SyncCursor
<1>2. CASE cursor \in [on : 0 .. EndDay, fromId : [Pairs -> Nat], covered : [{"convert", "fiat"} -> Int \cup {NoDay}]]
  BY <1>2 DEF SyncCursor
<1> QED BY <1>1, <1>2 DEF SyncCursor

\* Of what was shown by the day of a cursor, only what closed before the overlap is
\* not asked for again, and that was shown by then: it was brought already.
LEMMA OverlapSuffices ==
  ASSUME NEW seen, NEW now \in 0 .. EndDay, NEW left, NEW cut, NEW g, NEW broker \in {"etoro", "xtb"},
         NEW cursor, NEW rows, Covers(seen, now, left, g, broker, cursor, {}),
         \A o \in Records \ (left \cup cut) :
           /\ o.source = broker /\ o.shown <= now /\ o.on > now - History
           /\ cursor.on = NoDay \/ o.on >= cursor.on - Overlap
           => Whole(seen, g, rows, o)
  PROVE  /\ Covers(seen, now, left \cup cut, g, broker, [cursor EXCEPT !.on = now], rows)
         /\ \A o \in Records \ (left \cup cut) :
              /\ o.source = broker /\ o.shown <= now
              /\ o.shown - o.on <= Overlap /\ o.on > now - History
              => Whole(seen, g, rows, o)
<1> DEFINE next == [cursor EXCEPT !.on = now]
<1>1. cursor \in SyncCursor
  BY DEF Covers
<1>2. next \in SyncCursor /\ next.on = now /\ next.fromId = cursor.fromId /\ next.covered = cursor.covered
  BY <1>1, CursorFields
<1>3. cursor.on \in Int \cup {NoDay} /\ Overlap \in Nat /\ History \in Nat /\ now \in Int
  BY <1>1, CursorFields, ConnectorsAssumption
<1>4. ASSUME NEW o \in Records \ (left \cup cut), o.source = broker, o.shown <= now,
             o.shown - o.on <= Overlap, o.on > now - History
      PROVE  Whole(seen, g, rows, o)
  <2>0. o.on \in Int /\ o.shown \in Int
    BY RecordsTyped DEF RecordFields
  <2>1. CASE cursor.on = NoDay \/ o.on >= cursor.on - Overlap
    BY <1>4, <2>1
  <2>2. CASE cursor.on # NoDay /\ o.on < cursor.on - Overlap
    <3>1. cursor.on \in Int /\ cursor.on <= now
      BY <2>2, <1>3 DEF Covers
    <3>2. o.shown <= cursor.on /\ o.on > cursor.on - History
      BY <3>1, <2>0, <2>2, <1>3, <1>4
    <3>3. Whole(seen, g, {}, o)
      BY <3>2, <2>2, <1>4 DEF Covers
    <3> QED BY <3>3, WholeAnyway
  <2> QED BY <2>1, <2>2, <2>0, <1>3
<1>5. \A o \in Records \ (left \cup cut) :
        /\ o.source = broker /\ o.shown <= now /\ o.shown - o.on <= Overlap /\ o.on > now - History
        => Whole(seen, g, rows, o)
  BY <1>4
<1> HIDE DEF next
<1>6. Covers(seen, now, left \cup cut, g, broker, next, rows)
  BY <1>2, <1>5 DEF Covers
<1> QED BY <1>5, <1>6 DEF next

\* What a fetch leaves to be stored holds what it owes, and the cursor it hands on
\* covers what a cursor should.
Delivers(seen, now, left, g, broker, cursor, traded, result) ==
  /\ Covers(seen, now, left \cup result.cut, g, broker, result.cursor, result.rows)
  /\ result.cut \subseteq Records
  /\ \A r : r.broker = broker /\ r.loaded = cursor /\ r.day = now /\ r.traded = traded /\ ~result.warned =>
       \A o \in Due(r) \ (left \cup result.cut) : Whole(seen, g, result.rows, o)

FetchedFrom(seen, now, left, g, broker, cursor) ==
  now \in 0 .. EndDay /\ Covers(seen, now, left, g, broker, cursor, {})

LEMMA EtoroDelivers ==
  ASSUME NEW seen, NEW now, NEW left, NEW g, NEW cursor, NEW traded,
         FetchedFrom(seen, now, left, g, "etoro", cursor),
         NEW result \in FetchEtoro(cursor, now)
  PROVE  Delivers(seen, now, left, g, "etoro", cursor, traded, result)
<1> DEFINE found == {o \in Shown("etoro", now) : o.on >= EtoroMinDate(cursor, now)}
           next == [cursor EXCEPT !.on = now]
<1>0. now \in 0 .. EndDay /\ now \in Int /\ cursor \in SyncCursor /\ cursor.on \in Int \cup {NoDay}
      /\ History \in Nat /\ Overlap \in Nat
  BY CursorFields, ConnectorsAssumption DEF FetchedFrom, Covers
<1>1. ASSUME NEW o \in Records, o.source = "etoro", o.shown <= now, o.on > now - History,
             cursor.on = NoDay \/ o.on >= cursor.on - Overlap
      PROVE  o \in found
  <2>1. o.on \in Int
    BY RecordsTyped DEF RecordFields
  <2>2. o.on >= EtoroMinDate(cursor, now)
    BY <2>1, <1>0, <1>1 DEF EtoroMinDate, Later
  <2> QED BY <2>2, <1>1 DEF Shown
<1>2. PICK kept, cut, warned :
        /\ result = Fetched(ToTransactions(kept, now), next, warned, cut)
        /\ kept \subseteq found /\ cut = found \ kept
  <2>1. CASE Cardinality(found) < PageLimit
    <3>1. result = Fetched(ToTransactions(found, now), next, FALSE, {})
      BY <2>1 DEF FetchEtoro
    <3> HIDE DEF found, next
    <3> QED BY <3>1
  <2>2. CASE ~(Cardinality(found) < PageLimit)
    <3>1. \E kept \in kSubset(PageLimit, found) :
            result = Fetched(ToTransactions(kept, now), next, TRUE, found \ kept)
      BY <2>2 DEF FetchEtoro
    <3>2. PICK kept \in kSubset(PageLimit, found) :
            result = Fetched(ToTransactions(kept, now), next, TRUE, found \ kept)
      BY <3>1
    <3>3. kept \subseteq found
      BY DEF kSubset
    <3> HIDE DEF found, next
    <3> QED BY <3>2, <3>3
  <2> QED BY <2>1, <2>2
<1>3. /\ result.rows = ToTransactions(kept, now) /\ result.cursor = next /\ result.cut = cut
      /\ cut \subseteq Records
  <2>1. found \subseteq Records
    BY DEF Shown
  <2> HIDE DEF found, next
  <2> QED BY <1>2, <2>1 DEF Fetched
<1>4. \A o \in Records \ (left \cup cut) :
        /\ o.source = "etoro" /\ o.shown <= now /\ o.on > now - History
        /\ cursor.on = NoDay \/ o.on >= cursor.on - Overlap
        => Whole(seen, g, result.rows, o)
  <2> SUFFICES ASSUME NEW o \in Records \ (left \cup cut), o.source = "etoro", o.shown <= now,
                      o.on > now - History, cursor.on = NoDay \/ o.on >= cursor.on - Overlap
               PROVE  Whole(seen, g, result.rows, o)
    OBVIOUS
  <2>1. o \in kept
    BY <1>1, <1>2
  <2> QED BY <2>1, <1>0, <1>3, FoundIsWhole
<1>5. /\ Covers(seen, now, left \cup cut, g, "etoro", next, result.rows)
      /\ \A o \in Records \ (left \cup cut) :
           /\ o.source = "etoro" /\ o.shown <= now /\ o.shown - o.on <= Overlap /\ o.on > now - History
           => Whole(seen, g, result.rows, o)
  BY <1>0, <1>4, OverlapSuffices DEF FetchedFrom
<1> HIDE DEF next
<1> QED BY <1>3, <1>5 DEF Delivers, Due

LEMMA XtbDelivers ==
  ASSUME NEW seen, NEW now, NEW left, NEW g, NEW cursor, NEW traded,
         FetchedFrom(seen, now, left, g, "xtb", cursor),
         NEW result \in FetchXtb(cursor, now)
  PROVE  Delivers(seen, now, left, g, "xtb", cursor, traded, result)
<1> DEFINE start == IF cursor.on = NoDay THEN now - History ELSE cursor.on - Overlap
           closed == {o \in Shown("xtb", now) : o.on >= start}
           open == {o \in Records : o.source = "xtb" /\ o.opened <= now /\ now < o.on}
           rows == ToTransactions(closed \cup open, now)
           next == [cursor EXCEPT !.on = now]
<1>0. now \in 0 .. EndDay /\ now \in Int /\ cursor \in SyncCursor /\ cursor.on \in Int \cup {NoDay}
      /\ History \in Nat /\ Overlap \in Nat
  BY CursorFields, ConnectorsAssumption DEF FetchedFrom, Covers
<1>1. result.rows = rows /\ result.cursor = next /\ result.cut = {}
  BY DEF FetchXtb, Fetched
<1>2. \A o \in Records \ (left \cup {}) :
        /\ o.source = "xtb" /\ o.shown <= now /\ o.on > now - History
        /\ cursor.on = NoDay \/ o.on >= cursor.on - Overlap
        => Whole(seen, g, result.rows, o)
  <2> SUFFICES ASSUME NEW o \in Records, o.source = "xtb", o.shown <= now,
                      o.on > now - History, cursor.on = NoDay \/ o.on >= cursor.on - Overlap
               PROVE  Whole(seen, g, result.rows, o)
    OBVIOUS
  <2>1. o.on \in Int
    BY RecordsTyped DEF RecordFields
  <2>2. o \in closed
    BY <2>1, <1>0 DEF Shown
  <2>3. Whole(seen, g, ToTransactions(closed \cup open, now), o)
    BY <2>2, <1>0, FoundIsWhole
  <2> QED BY <2>3, <1>1
<1>3. /\ Covers(seen, now, left \cup {}, g, "xtb", next, result.rows)
      /\ \A o \in Records \ (left \cup {}) :
           /\ o.source = "xtb" /\ o.shown <= now /\ o.shown - o.on <= Overlap /\ o.on > now - History
           => Whole(seen, g, result.rows, o)
  BY <1>0, <1>2, OverlapSuffices DEF FetchedFrom
<1> HIDE DEF next, rows
<1> QED BY <1>1, <1>3 DEF Delivers, Due

\* Interactive Brokers is asked for all its history, whatever the cursor.
LEMMA InteractiveBrokersDelivers ==
  ASSUME NEW seen, NEW now, NEW left, NEW g, NEW cursor, NEW traded,
         FetchedFrom(seen, now, left, g, "interactive_brokers", cursor),
         NEW result \in FetchInteractiveBrokers(cursor, now)
  PROVE  Delivers(seen, now, left, g, "interactive_brokers", cursor, traded, result)
<1> DEFINE found == {o \in Shown("interactive_brokers", now) : o.on >= now - History + 1}
           next == [cursor EXCEPT !.on = now]
<1>0. now \in 0 .. EndDay /\ now \in Int /\ cursor \in SyncCursor /\ History \in Nat
  BY ConnectorsAssumption DEF FetchedFrom, Covers
<1>1. result.rows = ToTransactions(found, now) /\ result.cursor = next /\ result.cut = {}
  BY DEF FetchInteractiveBrokers, Fetched
<1>2. next \in SyncCursor /\ next.on = now /\ next.fromId = cursor.fromId /\ next.covered = cursor.covered
  BY <1>0, CursorFields
<1>3. ASSUME NEW o \in Records, o.source = "interactive_brokers", o.shown <= now, o.on > now - History
      PROVE  Whole(seen, g, result.rows, o)
  <2>1. o.on \in Int
    BY RecordsTyped DEF RecordFields
  <2>2. o \in found
    BY <2>1, <1>0, <1>3 DEF Shown
  <2> HIDE DEF found
  <2>3. Whole(seen, g, ToTransactions(found, now), o)
    BY <2>2, <1>0, <1>3, FoundIsWhole
  <2> QED BY <2>3, <1>1
<1> HIDE DEF found, next
<1>4. Covers(seen, now, left \cup {}, g, "interactive_brokers", next, result.rows)
  BY <1>0, <1>2 DEF Covers, FetchedFrom
<1> QED BY <1>1, <1>3, <1>4 DEF Delivers, Due

\* Of a nonempty set of numbers, the least.
LEMMA LeastNumber ==
  ASSUME NEW S, S \subseteq Nat, S # {}
  PROVE  \E x \in S : \A y \in S : x <= y
<1> DEFINE Less == {pair \in Nat \X Nat : pair[1] < pair[2]}
<1>1. IsWellFoundedOn(Less, Nat)
  <2>1. OpToRel(<, Nat) = Less
    BY DEF OpToRel
  <2> QED BY <2>1, NatLessThanWellFounded
<1>2. PICK x \in S : \A y \in S : ~(<<y, x>> \in Less)
  <2> HIDE DEF Less
  <2> QED BY <1>1, WFMin, Zenon
<1>3. \A y \in S : y < x => <<y, x>> \in Less
  OBVIOUS
<1>4. \A y \in S : ~(y < x)
  BY <1>2, <1>3, Zenon
<1> QED BY <1>4

\* The windows leave no day out, when there are enough of them.
LEMMA WindowsReach ==
  ASSUME NEW since \in Int, NEW width \in Nat, NEW now \in Int, NEW on \in Int,
         since + MaxWindows * width >= now, since < now, since <= on, on <= now
  PROVE  \E w \in Windows(since, width, now) : w.start <= on /\ on <= w.end
<1>0. MaxWindows \in Nat /\ MaxWindows > 0
  BY ConnectorsAssumption
<1> DEFINE T == {k \in Nat : on <= since + k * width}
           window(k) == [start |-> since + k * width, end |-> Earlier(since + (k + 1) * width, now)]
<1>1. MaxWindows \in T
  <2>1. MaxWindows * width \in Int
    BY <1>0
  <2> QED BY <1>0, <2>1
<1>2. PICK k \in T : \A j \in T : k <= j
  <2>1. T \subseteq Nat /\ T # {}
    BY <1>1
  <2> HIDE DEF T
  <2> QED BY <2>1, LeastNumber
<1>3. k <= MaxWindows /\ k \in Nat /\ k * width \in Int
  BY <1>1, <1>2
<1>4. CASE k = 0
  <2>1. on = since /\ 0 \in {j \in 0 .. MaxWindows - 1 : since + j * width < now}
    BY <1>0, <1>2, <1>4
  <2>2. window(0) \in Windows(since, width, now)
    BY <2>1 DEF Windows
  <2>3. window(0).start <= on /\ on <= window(0).end
    BY <2>1 DEF Earlier
  <2> QED BY <2>2, <2>3
<1>5. CASE k # 0
  <2> DEFINE j == k - 1
  <2>1. j \in Nat /\ j \in 0 .. MaxWindows - 1 /\ j + 1 = k /\ j * width \in Int
    BY <1>0, <1>3, <1>5
  <2>2. j \notin T
    BY <2>1, <1>2
  <2>3. since + j * width < on /\ on <= since + k * width
    BY <2>1, <2>2, <1>2
  <2>4. window(j) \in Windows(since, width, now)
    BY <2>1, <2>3 DEF Windows
  <2>5. window(j).start <= on /\ on <= window(j).end
    <3>1. since + (j + 1) * width = since + k * width
      BY <2>1
    <3>2. Earlier(since + (j + 1) * width, now) >= on
      BY <3>1, <2>3, <1>3 DEF Earlier
    <3> QED BY <3>2, <2>3, <2>1
  <2> QED BY <2>4, <2>5
<1> QED BY <1>4, <1>5

\* A source that is walked to the end is walked whole, as far as its windows reach.
LEMMA WalkFinds ==
  ASSUME NEW source \in {"convert", "fiat"}, NEW width \in Nat, NEW now \in Int, NEW cursor \in SyncCursor,
         cursor.covered[source] # NoDay => cursor.covered[source] <= now - History,
         Since(cursor, source, now) + MaxWindows * width >= now,
         NEW o \in Records, o.source = source, o.shown <= now, o.on > now - History
  PROVE  o \in Walk(source, width, cursor, now, NoDay)
<1> DEFINE since == Since(cursor, source, now)
<1>1. History \in Nat \ {0} /\ Overlap \in Nat \ {0}
  BY ConnectorsAssumption
<1>2. cursor.covered[source] \in Int \cup {NoDay}
  BY CursorFields
<1>3. since \in Int /\ since <= now - History
  BY <1>1, <1>2 DEF Since
<1>4. o.on \in Int /\ o.shown \in Int /\ o.on <= o.shown
  BY RecordsTyped DEF RecordFields
<1>5. since < now /\ since <= o.on /\ o.on <= now
  BY <1>1, <1>3, <1>4
<1>6. \E w \in Windows(since, width, now) : w.start <= o.on /\ o.on <= w.end
  <2> HIDE DEF since
  <2>1. since + MaxWindows * width >= now
    BY DEF since
  <2> QED BY <2>1, <1>3, <1>4, <1>5, WindowsReach
<1> QED BY <1>6 DEF Walk, Shown

\* Unless the pairs reach their limit, every pair that the cursor, the book or the
\* balance names is asked for.
LEMMA CandidatesComplete ==
  ASSUME NEW cursor \in SyncCursor, NEW traded, IsFiniteSet(traded), NEW now,
         NEW pairs \in CandidatePairs(cursor, traded, now), Cardinality(pairs) # MaxPairs,
         NEW p \in Pairs,
         \/ cursor.fromId[p] > 0 \/ p \in traded
         \/ \E o \in Shown("trades", now) : o.pair = p /\ o.held >= now
  PROVE  p \in pairs
<1> DEFINE previous == {q \in Pairs : cursor.fromId[q] > 0}
           owned == {q \in Pairs : \E o \in Shown("trades", now) : o.pair = q /\ o.held >= now}
           others == (owned \cup traded) \ previous
<1>1. previous \in SUBSET Pairs /\ owned \in SUBSET Pairs /\ IsFiniteSet(Pairs) /\ MaxPairs \in Nat
  BY ConnectorsAssumption
<1>2. p \in previous \/ p \in others
  OBVIOUS
<1>3. CASE Cardinality(previous) >= MaxPairs
  <2>1. pairs \in kSubset(MaxPairs, previous)
    BY <1>3 DEF CandidatePairs
  <2> QED BY <2>1 DEF kSubset
<1>4. CASE ~(Cardinality(previous) >= MaxPairs)
  <2>1. \E more \in kSubset(Earlier(Cardinality(others), MaxPairs - Cardinality(previous)), others) :
          pairs = previous \cup more
    BY <1>4 DEF CandidatePairs
  <2> HIDE DEF previous, owned, others
  <2>2. PICK more \in kSubset(Earlier(Cardinality(others), MaxPairs - Cardinality(previous)), others) :
          pairs = previous \cup more
    BY <2>1
  <2>3. /\ more \in SUBSET others
        /\ Cardinality(more) = Earlier(Cardinality(others), MaxPairs - Cardinality(previous))
    BY <2>2 DEF kSubset
  <2>4. IsFiniteSet(previous) /\ IsFiniteSet(owned)
    BY <1>1, FS_Subset
  <2>5. IsFiniteSet(others)
    <3>1. IsFiniteSet(owned \cup traded)
      BY <2>4, FS_Union
    <3>2. others \in SUBSET (owned \cup traded)
      BY DEF others
    <3> QED BY <3>1, <3>2, FS_Subset
  <2>6. IsFiniteSet(more)
    BY <2>3, <2>5, FS_Subset
  <2>7. Cardinality(previous) \in Nat /\ Cardinality(others) \in Nat /\ Cardinality(more) \in Nat
    BY <2>4, <2>5, <2>6, FS_CardinalityType
  <2>8. CASE Cardinality(others) <= MaxPairs - Cardinality(previous)
    <3>1. Cardinality(more) = Cardinality(others)
      BY <2>3, <2>7, <2>8, <1>1 DEF Earlier
    <3>2. more = others
      BY <3>1, <2>3, <2>5, FS_Subset
    <3> QED BY <3>2, <2>2, <1>2
  <2>9. CASE ~(Cardinality(others) <= MaxPairs - Cardinality(previous))
    <3>1. Cardinality(more) = MaxPairs - Cardinality(previous)
      BY <2>3, <2>7, <2>9, <1>1 DEF Earlier
    <3>2. previous \cap more = {} /\ Cardinality(previous \cap more) = 0
      <4>1. previous \cap more = {}
        BY <2>3 DEF others
      <4> QED BY <4>1, FS_EmptySet
    <3>3. Cardinality(pairs) = Cardinality(previous) + Cardinality(more) - 0
      BY <3>2, <2>2, <2>4, <2>6, FS_Union
    <3> QED BY <3>1, <3>3, <2>7, <1>1
  <2> QED BY <2>8, <2>9
<1> QED BY <1>3, <1>4

\* The pairs of finitely many records are finitely many, and so are their numbers.
LEMMA FiniteNames ==
  ASSUME NEW some, some \subseteq Records
  PROVE  IsFiniteSet({o.pair : o \in some}) /\ IsFiniteSet({o.number : o \in some})
<1>1. some \in SUBSET Records /\ IsFiniteSet(Records)
  BY ConnectorsAssumption
<1>2. IsFiniteSet(some)
  BY <1>1, FS_Subset
<1> DEFINE P == {o.pair : o \in some}
           N == {o.number : o \in some}
           f == [o \in some |-> o.pair]
           h == [o \in some |-> o.number]
<1>3. f \in Surjection(some, P) /\ h \in Surjection(some, N)
  BY DEF Surjection
<1> HIDE DEF P, N, f, h
<1>4. IsFiniteSet(P) /\ IsFiniteSet(N)
  BY <1>2, <1>3, FS_Surjection
<1> QED BY <1>4 DEF P, N

\* The numbers a cursor of Binance goes on from, and its marks.
LEMMA BinanceCursorFields ==
  ASSUME NEW cursor \in SyncCursor, NEW trades, trades \subseteq Records, NEW now \in 0 .. EndDay
  PROVE  LET next == BinanceCursor(cursor, trades, now)
         IN  /\ next \in SyncCursor /\ next.on = now
             /\ \A s \in {"convert", "fiat"} : next.covered[s] = Mark(s, cursor, now)
             /\ \A p \in Pairs :
                  /\ cursor.fromId[p] <= next.fromId[p]
                  /\ \/ next.fromId[p] = cursor.fromId[p]
                     \/ \E t \in trades : t.pair = p /\ t.number = next.fromId[p]
<1> DEFINE numbers(p) == {cursor.fromId[p]} \cup {o.number : o \in {t \in trades : t.pair = p}}
           ids == [p \in Pairs |-> Max(numbers(p))]
           marks == [s \in {"convert", "fiat"} |-> Mark(s, cursor, now)]
           next == [cursor EXCEPT !.on = now, !.fromId = ids, !.covered = marks]
<1>1. cursor.fromId \in [Pairs -> Nat] /\ cursor.covered \in [{"convert", "fiat"} -> Int \cup {NoDay}]
  BY CursorFields
<1>2. ASSUME NEW p \in Pairs
      PROVE  /\ Max(numbers(p)) \in Nat /\ cursor.fromId[p] <= Max(numbers(p))
             /\ \/ Max(numbers(p)) = cursor.fromId[p]
                \/ \E t \in trades : t.pair = p /\ t.number = Max(numbers(p))
  <2>1. numbers(p) \subseteq Nat /\ cursor.fromId[p] \in numbers(p)
    BY <1>1, RecordsTyped DEF RecordFields
  <2>2. IsFiniteSet(numbers(p))
    <3> DEFINE some == {t \in trades : t.pair = p}
    <3>1. IsFiniteSet({o.number : o \in some})
      BY FiniteNames
    <3> HIDE DEF some
    <3>2. IsFiniteSet({o.number : o \in some} \cup {cursor.fromId[p]})
      BY <3>1, FS_AddElement
    <3>3. numbers(p) = {o.number : o \in some} \cup {cursor.fromId[p]}
      BY DEF some
    <3> QED BY <3>2, <3>3
  <2>3. Max(numbers(p)) \in numbers(p) /\ \A y \in numbers(p) : Max(numbers(p)) >= y
    <3> HIDE DEF numbers
    <3> QED BY <2>1, <2>2, MaxOfFinite
  <2> DEFINE m == Max(numbers(p))
  <2>4. m \in numbers(p) /\ m >= cursor.fromId[p]
    BY <2>1, <2>3
  <2> HIDE DEF m
  <2>5. m \in Nat /\ cursor.fromId[p] <= m /\ (m = cursor.fromId[p] \/ \E t \in trades : t.pair = p /\ t.number = m)
    BY <2>1, <2>4
  <2> QED BY <2>5 DEF m
<1>3. \A s \in {"convert", "fiat"} : Mark(s, cursor, now) \in Int
  BY <1>1, ConnectorsAssumption DEF Mark, Since, Earlier
<1>4. DOMAIN cursor.covered = {"convert", "fiat"}
  BY <1>1
<1>5. BinanceCursor(cursor, trades, now) = next
  BY <1>4 DEF BinanceCursor
<1>6. ids \in [Pairs -> Nat] /\ \A p \in Pairs : ids[p] = Max(numbers(p))
  BY <1>2
<1>7. marks \in [{"convert", "fiat"} -> Int \cup {NoDay}] /\ \A s \in {"convert", "fiat"} : marks[s] = Mark(s, cursor, now)
  BY <1>3
<1>8. next \in SyncCursor /\ next.on = now /\ next.fromId = ids /\ next.covered = marks
  <2> HIDE DEF ids, marks
  <2> DEFINE Shape == [on : Int \cup {NoDay}, fromId : [Pairs -> Nat], covered : [{"convert", "fiat"} -> Int \cup {NoDay}]]
  <2>1. cursor \in Shape
    BY DEF SyncCursor, EmptyCursor
  <2> QED BY <2>1, <1>6, <1>7 DEF SyncCursor
<1> HIDE DEF next, ids, marks, numbers
<1>9. \A p \in Pairs :
        /\ cursor.fromId[p] <= next.fromId[p]
        /\ \/ next.fromId[p] = cursor.fromId[p]
           \/ \E t \in trades : t.pair = p /\ t.number = next.fromId[p]
  BY <1>2, <1>6, <1>8
<1> QED BY <1>5, <1>7, <1>8, <1>9

LEMMA BinanceDelivers ==
  ASSUME NEW seen, NEW now, NEW left, NEW g, NEW cursor, NEW traded, IsFiniteSet(traded),
         FetchedFrom(seen, now, left, g, "binance", cursor),
         NEW result \in FetchBinance(cursor, traded, now)
  PROVE  Delivers(seen, now, left, g, "binance", cursor, traded, result)
<1>0. now \in 0 .. EndDay /\ now \in Int /\ cursor \in SyncCursor /\ History \in Nat /\ Overlap \in Nat
      /\ Covers(seen, now, left, g, "binance", cursor, {})
  BY ConnectorsAssumption DEF FetchedFrom, Covers
<1>1. PICK pairs \in CandidatePairs(cursor, traded, now), fault \in BinanceFaults(Pairs, now) :
        result = AnswerOfBinance(pairs, fault, cursor, now)
  BY DEF FetchBinance
<1> DEFINE asked == IF fault[1] = "pair" THEN pairs \ {fault[2]} ELSE pairs
           trades == Trades(asked, cursor, now)
           moved == IF fault[1] = "capital" THEN {} ELSE Shown("capital", now)
           converted == Walk("convert", ConvertWindow, cursor, now, IF fault[1] = "convert" THEN fault[2] ELSE NoDay)
           paid == Walk("fiat", FiatWindow, cursor, now, IF fault[1] = "fiat" THEN fault[2] ELSE NoDay)
           found == trades \cup moved \cup converted \cup paid
           warned == fault[1] # "none" \/ Cardinality(pairs) \in {0, MaxPairs}
           next == BinanceCursor(cursor, trades, now)
<1>2. result = Fetched(ToTransactions(found, now), next, warned, {})
  BY <1>1 DEF AnswerOfBinance
<1>3. trades \subseteq Records /\ \A o \in trades : o.shown <= now /\ o.source = "trades"
  BY DEF Trades, Shown
<1>4. \A o \in Records : o \in found /\ o.shown <= now => Whole(seen, g, ToTransactions(found, now), o)
  <2> HIDE DEF found
  <2> QED BY <1>0, FoundIsWhole
<1>5. ~warned => /\ fault[1] = "none" /\ Cardinality(pairs) # MaxPairs
                 /\ asked = pairs /\ moved = Shown("capital", now)
                 /\ converted = Walk("convert", ConvertWindow, cursor, now, NoDay)
                 /\ paid = Walk("fiat", FiatWindow, cursor, now, NoDay)
  OBVIOUS
<1>6. \A o \in Records : o \in trades \/ o \in moved \/ o \in converted \/ o \in paid => o \in found
  OBVIOUS
<1>7. asked \subseteq pairs
  OBVIOUS
<1> HIDE DEF found, moved, converted, paid, asked, warned
<1>8. /\ next \in SyncCursor /\ next.on = now
      /\ \A s \in {"convert", "fiat"} : next.covered[s] = Mark(s, cursor, now)
      /\ \A p \in Pairs :
           /\ cursor.fromId[p] <= next.fromId[p]
           /\ \/ next.fromId[p] = cursor.fromId[p]
              \/ \E t \in trades : t.pair = p /\ t.number = next.fromId[p]
  <2> HIDE DEF trades
  <2> QED BY <1>0, <1>3, BinanceCursorFields
<1>9. /\ result.rows = ToTransactions(found, now) /\ result.cursor = next /\ result.cut = {}
      /\ ~result.warned => ~warned
  <2> HIDE DEF next
  <2>1. result.rows = ToTransactions(found, now) /\ result.cursor = next /\ result.cut = {} /\ result.warned = warned
    BY <1>2 DEF Fetched
  <2> QED BY <2>1
<1>10. \A s \in {"convert", "fiat"} :
         /\ cursor.covered[s] \in Int \cup {NoDay}
         /\ cursor.covered[s] # NoDay => cursor.covered[s] <= now - History
  BY <1>0, CursorFields DEF Covers
<1>11. \A s \in {"convert", "fiat"} : next.covered[s] <= now - History
  <2> HIDE DEF next
  <2> QED BY <1>0, <1>8, <1>10 DEF Mark, Since, Earlier
<1>12. \A o \in Records : o.source = "trades" =>
         o.pair \in Pairs /\ cursor.fromId[o.pair] \in Nat /\ o.number \in Nat
  BY <1>0, CursorFields, TradesAssumption, RecordsTyped DEF RecordFields
\* A trade up to the number the cursor goes on from was brought before, or now.
<1>13. ASSUME NEW o \in Records, o.source = "trades", o.number <= next.fromId[o.pair]
       PROVE  Whole(seen, g, ToTransactions(found, now), o)
  <2>1. CASE o.number <= cursor.fromId[o.pair]
    <3>1. Whole(seen, g, {}, o)
      BY <1>0, <1>13, <2>1 DEF Covers
    <3> QED BY <3>1, WholeAnyway
  <2>2. CASE o.number > cursor.fromId[o.pair]
    <3>1. PICK t \in trades : t.pair = o.pair /\ t.number = next.fromId[o.pair]
      <4>1. next.fromId[o.pair] # cursor.fromId[o.pair]
        BY <2>2, <1>12, <1>13
      <4> QED BY <4>1, <1>8, <1>12, <1>13
    <3>2. t \in Records /\ t.source = "trades" /\ t.shown <= now /\ o.pair \in asked
      BY <3>1, <1>3 DEF Trades
    <3>3. o.shown <= t.shown
      BY <3>1, <3>2, <1>13, TradesAssumption
    <3>4. o.shown <= now
      BY <3>2, <3>3, <1>0, RecordsTyped DEF RecordFields
    <3>5. o \in trades
      BY <3>2, <3>4, <2>2, <1>13 DEF Trades, Shown
    <3> QED BY <3>4, <3>5, <1>4, <1>6
  <2> QED BY <2>1, <2>2, <1>12, <1>13
<1>14. Covers(seen, now, left \cup {}, g, "binance", next, ToTransactions(found, now))
  <2> HIDE DEF next
  <2> QED BY <1>8, <1>11, <1>13, <1>0 DEF Covers
<1>15. ASSUME NEW r, r.broker = "binance", r.loaded = cursor, r.day = now, r.traded = traded, ~warned,
              NEW o \in Due(r)
       PROVE  Whole(seen, g, ToTransactions(found, now), o)
  <2>1. /\ o \in Records /\ o.shown <= now /\ o.on > now - History
        /\ \/ /\ o.source = "trades"
              /\ o.held >= now \/ o.pair \in traded \/ cursor.fromId[o.pair] > 0
           \/ o.source \in {"convert", "fiat"} /\ Reaches(cursor, o.source, now)
           \/ o.source = "capital"
    BY <1>15 DEF Due
  <2>2. CASE o.source = "trades"
    <3>1. o.held >= now \/ o.pair \in traded \/ cursor.fromId[o.pair] > 0
      BY <2>1, <2>2
    <3>2. o.pair \in Pairs /\ o \in Shown("trades", now)
      BY <2>1, <2>2, <1>12 DEF Shown
    <3>3. o.pair \in pairs
      BY <3>1, <3>2, <1>0, <1>5, <1>15, CandidatesComplete
    <3>4. CASE o.number > cursor.fromId[o.pair]
      <4>1. o \in trades
        BY <3>2, <3>3, <3>4, <1>5, <1>15 DEF Trades
      <4> QED BY <4>1, <2>1, <1>4, <1>6
    <3>5. CASE o.number <= cursor.fromId[o.pair]
      <4>1. Whole(seen, g, {}, o)
        BY <1>0, <2>1, <2>2, <3>5 DEF Covers
      <4> QED BY <4>1, WholeAnyway
    <3> QED BY <3>4, <3>5, <1>12, <2>1, <2>2
  <2>3. CASE o.source \in {"convert", "fiat"}
    <3>1. Reaches(cursor, o.source, now)
      BY <2>1, <2>3
    <3>2. ConvertWindow \in Nat /\ FiatWindow \in Nat
      BY ConnectorsAssumption
    <3>3. o.source = "convert" => o \in converted
      <4> SUFFICES ASSUME o.source = "convert" PROVE o \in converted
        OBVIOUS
      <4>1. Since(cursor, "convert", now) + MaxWindows * ConvertWindow >= now
        BY <3>1 DEF Reaches
      <4> QED BY <4>1, <3>2, <2>1, <1>0, <1>5, <1>10, <1>15, WalkFinds
    <3>4. o.source = "fiat" => o \in paid
      <4> SUFFICES ASSUME o.source = "fiat" PROVE o \in paid
        OBVIOUS
      <4>1. Since(cursor, "fiat", now) + MaxWindows * FiatWindow >= now
        BY <3>1 DEF Reaches
      <4> QED BY <4>1, <3>2, <2>1, <1>0, <1>5, <1>10, <1>15, WalkFinds
    <3> QED BY <3>3, <3>4, <2>1, <2>3, <1>4, <1>6
  <2>4. CASE o.source = "capital"
    <3>1. o \in moved
      BY <2>1, <2>4, <1>5, <1>15 DEF Shown
    <3> QED BY <3>1, <2>1, <1>4, <1>6
  <2> QED BY <2>1, <2>2, <2>3, <2>4
<1> HIDE DEF next, trades
<1> QED BY <1>9, <1>14, <1>15 DEF Delivers

\* What a connector brings, whichever it is.
LEMMA ConnectorDelivers ==
  ASSUME NEW seen, NEW now, NEW left, NEW g, NEW broker \in ConnectedBrokers, NEW cursor,
         NEW traded, IsFiniteSet(traded),
         FetchedFrom(seen, now, left, g, broker, cursor),
         NEW result \in FetchTransactions(broker, cursor, traded, now)
  PROVE  Delivers(seen, now, left, g, broker, cursor, traded, result)
<1>1. CASE broker = "binance"
  BY <1>1, BinanceDelivers DEF FetchTransactions
<1>2. CASE broker = "etoro"
  BY <1>2, EtoroDelivers DEF FetchTransactions
<1>3. CASE broker = "interactive_brokers"
  BY <1>3, InteractiveBrokersDelivers DEF FetchTransactions
<1>4. CASE broker = "xtb"
  BY <1>4, XtbDelivers DEF FetchTransactions
<1> QED BY <1>1, <1>2, <1>3, <1>4 DEF ConnectedBrokers

-----------------------------------------------------------------------------
(* What the steps of a synchronisation and of its connection keep.           *)

LEMMA EmptyCovers ==
  ASSUME NEW seen, NEW now, NEW left, NEW g, NEW broker
  PROVE  EmptyCursor \in SyncCursor /\ Covers(seen, now, left, g, broker, EmptyCursor, {})
<1>1. /\ EmptyCursor \in SyncCursor /\ EmptyCursor.on = NoDay
      /\ \A s \in {"convert", "fiat"} : EmptyCursor.covered[s] = NoDay
      /\ \A p \in Pairs : EmptyCursor.fromId[p] = 0
  BY DEF EmptyCursor, SyncCursor
<1>2. \A o \in Records : o.source = "trades" => ~(o.number <= EmptyCursor.fromId[o.pair])
  BY <1>1, TradesAssumption, RecordsTyped DEF RecordFields
<1> QED BY <1>1, <1>2 DEF Covers

\* The row of the connection, and the numbers beside it.
LEMMA ConnectionFields ==
  ASSUME SyncTypeOK
  PROVE  /\ today \in Int /\ today \in 0 .. EndDay /\ made \in Nat
         /\ NoConnection.exists = FALSE
         /\ conn.exists => /\ conn \in BrokerConnection /\ conn.broker \in ConnectedBrokers
                           /\ conn.cursor \in SyncCursor /\ conn.sealed \in BOOLEAN
<1>1. NoConnection.exists = FALSE
  BY DEF NoConnection
<1>2. conn.exists => conn # NoConnection
  BY <1>1, Zenon
<1>3. conn.exists => conn \in BrokerConnection
  BY <1>2 DEF SyncTypeOK
<1>4. conn \in BrokerConnection => /\ conn.broker \in ConnectedBrokers
                                  /\ conn.cursor \in SyncCursor /\ conn.sealed \in BOOLEAN
  BY DEF BrokerConnection
<1>5. today \in Int /\ today \in 0 .. EndDay /\ made \in Nat
  BY BrokerSyncAssumption DEF SyncTypeOK
<1> QED BY <1>1, <1>3, <1>4, <1>5

\* What is in course, and the cursor of the connection, stay sound while the
\* table and the days go on.
LEMMA InvStays ==
  ASSUME BrokerInv, Ever \subseteq Ever', today' \in Int, today <= today', lost \subseteq lost'
  PROVE  /\ \A w \in Runners : Sound(Ever', today', lost', run[w])
         /\ conn.exists => Covers(Ever', today', lost', made, conn.broker, conn.cursor, {})
<1>1. today \in Int
  BY ConnectionFields DEF BrokerInv
<1> DEFINE later == Ever'
           then == today'
           cut == lost'
<1>2. \A r : Sound(Ever, today, lost, r) => Sound(later, then, cut, r)
  <2>1. Ever \subseteq later /\ then \in Int /\ today <= then /\ lost \subseteq cut
    OBVIOUS
  <2> HIDE DEF later, then, cut
  <2> QED BY <1>1, <2>1, SoundStays
<1>3. \A g, broker, cursor : Covers(Ever, today, lost, g, broker, cursor, {}) => Covers(later, then, cut, g, broker, cursor, {})
  <2>1. Ever \subseteq later /\ then \in Int /\ today <= then /\ lost \subseteq cut
    OBVIOUS
  <2> HIDE DEF later, then, cut
  <2> QED BY <1>1, <2>1, CoversStays
<1> HIDE DEF later, then, cut
<1>4. /\ \A w \in Runners : Sound(later, then, cut, run[w])
      /\ conn.exists => Covers(later, then, cut, made, conn.broker, conn.cursor, {})
  BY <1>2, <1>3 DEF BrokerInv
<1> QED BY <1>4 DEF later, then, cut

\* A step that at most empties the cursor, ends the connection or ends a
\* synchronisation.
LEMMA ConnectionStep ==
  ASSUME BrokerInv, SyncTypeOK', Labelled', Ever \subseteq Ever', UNCHANGED <<today, made, lost>>,
         conn'.exists => conn.exists /\ conn'.broker = conn.broker /\ conn'.cursor \in {conn.cursor, EmptyCursor},
         DOMAIN run' = Runners, \A w \in Runners : run'[w] \in {run[w], Idle}
  PROVE  BrokerInv'
<1>1. today \in Int
  BY ConnectionFields DEF BrokerInv
<1>2. /\ \A w \in Runners : Sound(Ever', today', lost', run[w])
      /\ conn.exists => Covers(Ever', today', lost', made, conn.broker, conn.cursor, {})
  BY <1>1, InvStays
<1>3. conn'.exists => Covers(Ever', today', lost', made', conn'.broker, conn'.cursor, {})
  BY <1>2, EmptyCovers
<1>4. ASSUME NEW w \in Runners
      PROVE  Sound(Ever', today', lost', run'[w]) /\ Belongs(run'[w], conn', made')
  <2>1. CASE run'[w] = Idle
    BY <2>1 DEF Sound, Belongs, Idle
  <2>2. CASE run'[w] = run[w]
    <3>1. Sound(Ever', today', lost', run'[w])
      BY <2>2, <1>2
    <3>2. Belongs(run[w], conn, made)
      BY DEF BrokerInv
    <3> QED BY <3>1, <3>2, <2>2 DEF Belongs
  <2> QED BY <2>1, <2>2
<1> QED BY <1>3, <1>4 DEF BrokerInv

\* A step of one synchronisation that leaves the connection as it is.
LEMMA RunStep ==
  ASSUME BrokerInv, NEW w \in Runners, NEW r, run' = [run EXCEPT ![w] = r],
         UNCHANGED <<today, made, conn>>, SyncTypeOK', Labelled', Ever \subseteq Ever', lost \subseteq lost',
         Sound(Ever', today, lost', r), Belongs(r, conn, made)
  PROVE  BrokerInv'
<1>1. today \in Int
  BY ConnectionFields DEF BrokerInv
<1>2. /\ \A v \in Runners : Sound(Ever', today', lost', run[v])
      /\ conn.exists => Covers(Ever', today', lost', made, conn.broker, conn.cursor, {})
  BY <1>1, InvStays
<1>3. DOMAIN run' = Runners /\ run'[w] = r /\ \A v \in Runners \ {w} : run'[v] = run[v]
  BY DEF BrokerInv
<1>4. \A v \in Runners : Sound(Ever', today', lost', run'[v]) /\ Belongs(run'[v], conn', made')
  BY <1>2, <1>3 DEF BrokerInv
<1> QED BY <1>2, <1>3, <1>4 DEF BrokerInv

LEMMA BrokersInitially == BrokersInit => BrokerInv
<1> SUFFICES ASSUME BrokersInit PROVE BrokerInv
  OBVIOUS
<1>1. PICK broker \in ConnectedBrokers, day \in StartDay .. EndDay : SyncInit(broker, day)
  BY DEF BrokersInit
<1>2. booked = {} /\ forgotten = {} /\ Labelled
  BY DEF BrokersInit, ArrivalsInit, Labelled
<1>3. /\ conn \in BrokerConnection /\ conn.cursor = EmptyCursor /\ made = 1
  BY <1>1, EmptyCovers DEF SyncInit, BrokerConnection, ConnectionStatus
<1>4. SyncTypeOK
  BY <1>1, <1>2, <1>3, BrokerSyncAssumption DEF SyncTypeOK, SyncInit
<1>5. DOMAIN run = Runners /\ \A w \in Runners : run[w] = Idle
  BY <1>1 DEF SyncInit
<1>6. \A w \in Runners : Sound(Ever, today, lost, run[w]) /\ Belongs(run[w], conn, made)
  BY <1>5 DEF Sound, Belongs, Idle
<1> QED BY <1>2, <1>3, <1>4, <1>5, <1>6, EmptyCovers DEF BrokerInv

\* What the connection may become: another copy of its row, or none.
LEMMA TypesKept ==
  ASSUME SyncTypeOK, UNCHANGED <<today, made>>,
         conn' = NoConnection \/ conn' \in BrokerConnection,
         external' \subseteq external, lost' \subseteq Records,
         \A r \in booked' : r.connection # NoSource => conn'.exists /\ made = r.connection
  PROVE  SyncTypeOK'
BY DEF SyncTypeOK, Current

\* The actions that touch neither the table nor what is in course beyond ending it.
LEMMA ManagementKeeps ==
  ASSUME BrokerInv, StoreCredentials \/ VerifyConnection \/ CrashSync
                    \/ (\E autoSync \in BOOLEAN, copy \in Copies : conn.exists /\ UpdateConnection(autoSync, copy))
                    \/ (\E w \in Runners : FinishSync(w) \/ FailSync(w))
  PROVE  BrokerInv'
<1>1. /\ conn.exists => conn \in BrokerConnection
      /\ SyncTypeOK /\ Labelled /\ DOMAIN run = Runners
  BY ConnectionFields DEF BrokerInv
<1>2. UNCHANGED <<booked, forgotten, today, made, external, lost>>
  BY DEF StoreCredentials, VerifyConnection, CrashSync, UpdateConnection, FinishSync, FailSync
<1> DEFINE copies == {conn, [conn EXCEPT !.cursor = EmptyCursor]}
\* A row that is written back keeps its broker, and its cursor or none.
<1>3. conn' = conn \/ (conn.exists /\ conn' \in BrokerConnection /\ conn'.broker = conn.broker
                         /\ conn'.cursor \in {conn.cursor, EmptyCursor})
  <2>1. ASSUME NEW status \in ConnectionStatus, conn.exists
        PROVE  LET c == [conn EXCEPT !.status = status]
               IN  c \in BrokerConnection /\ c.broker = conn.broker /\ c.cursor = conn.cursor
    BY <2>1, <1>1 DEF BrokerConnection
  <2>2. CASE StoreCredentials
    BY <2>2, <1>1 DEF StoreCredentials, BrokerConnection
  <2>3. ASSUME NEW g, NEW status \in ConnectionStatus, conn' = SetStatus(g, status)
        PROVE  conn' = conn \/ (conn.exists /\ conn' \in BrokerConnection /\ conn'.broker = conn.broker
                                  /\ conn'.cursor = conn.cursor)
    BY <2>1, <2>3 DEF SetStatus, Current
  <2>4. CASE VerifyConnection
    <3>1. \E status \in ConnectionStatus : conn' = SetStatus(made, status)
      BY <2>4 DEF VerifyConnection, ConnectionStatus
    <3> QED BY <3>1, <2>3
  <2>5. CASE CrashSync
    BY <2>5 DEF CrashSync
  <2>6. CASE \E w \in Runners : FinishSync(w) \/ FailSync(w)
    <3>1. \E status \in ConnectionStatus : \E g : conn' = SetStatus(g, status)
      BY <2>6 DEF FinishSync, FailSync, ConnectionStatus
    <3> QED BY <3>1, <2>3
  <2>7. CASE \E autoSync \in BOOLEAN, copy \in Copies : conn.exists /\ UpdateConnection(autoSync, copy)
    <3>1. PICK autoSync \in BOOLEAN, copy \in Copies : conn.exists /\ conn' = [copy EXCEPT !.autoSync = autoSync]
      BY <2>7 DEF UpdateConnection
    <3>2. copy \in BrokerConnection /\ copy.broker = conn.broker /\ copy.cursor \in {conn.cursor, EmptyCursor}
      BY <3>1, <1>1, EmptyCovers DEF Copies, BrokerConnection, ConnectionStatus
    <3>3. /\ [copy EXCEPT !.autoSync = autoSync] \in BrokerConnection
          /\ [copy EXCEPT !.autoSync = autoSync].broker = copy.broker
          /\ [copy EXCEPT !.autoSync = autoSync].cursor = copy.cursor
      BY <3>2 DEF BrokerConnection
    <3> QED BY <3>1, <3>2, <3>3
  <2> QED BY <2>2, <2>4, <2>5, <2>6, <2>7
<1>4. conn'.exists = conn.exists
  <2>1. \A c \in BrokerConnection : c.exists = TRUE
    BY DEF BrokerConnection
  <2> QED BY <2>1, <1>1, <1>3
<1>5. SyncTypeOK'
  <2>1. conn' = NoConnection \/ conn' \in BrokerConnection
    BY <1>1, <1>3 DEF SyncTypeOK
  <2>2. lost' \subseteq Records /\ external' \subseteq external
    BY <1>1, <1>2 DEF SyncTypeOK
  <2>3. \A r \in booked' : r.connection # NoSource => conn'.exists /\ made = r.connection
    BY <1>1, <1>2, <1>4 DEF SyncTypeOK, Current
  <2> QED BY <2>1, <2>2, <2>3, <1>1, <1>2, TypesKept
<1>6. Labelled' /\ Ever \subseteq Ever'
  BY <1>1, <1>2 DEF Labelled, Ever
<1>7. DOMAIN run' = Runners /\ \A w \in Runners : run'[w] \in {run[w], Idle}
  <2>1. CASE UNCHANGED run
    BY <2>1, <1>1
  <2>2. CASE run' = [w \in Runners |-> Idle]
    BY <2>2
  <2>3. ASSUME NEW w \in Runners, run' = [run EXCEPT ![w] = Idle]
        PROVE  DOMAIN run' = Runners /\ \A v \in Runners : run'[v] \in {run[v], Idle}
    BY <2>3, <1>1
  <2> QED BY <2>1, <2>2, <2>3
        DEF StoreCredentials, VerifyConnection, CrashSync, UpdateConnection, FinishSync, FailSync
<1> QED BY <1>2, <1>3, <1>4, <1>5, <1>6, <1>7, ConnectionStep

LEMMA RemovalKeeps ==
  ASSUME BrokerInv, RemoveConnection \/ (\E g \in external : RemoveExternalAccount(g))
  PROVE  BrokerInv'
<1>1. SyncTypeOK /\ Labelled /\ DOMAIN run = Runners
  BY DEF BrokerInv
<1>2. UNCHANGED <<today, made, lost, run>>
  BY DEF RemoveConnection, RemoveExternalAccount
<1>3. CASE RemoveConnection
  <2>1. conn' = NoConnection /\ ~NoConnection.exists /\ external' = external
    BY <1>3 DEF RemoveConnection, NoConnection
  <2>2. Unlinks
    BY <1>3 DEF RemoveConnection, Unlinks
  <2>3. \A q \in booked : LET r == [q EXCEPT !.connection = NoSource] IN
          Shaped(r) /\ r.connection = NoSource
    <3>1. \A q \in booked : Shaped(q)
      BY <1>1 DEF Labelled
    <3> QED BY <3>1 DEF Shaped
  <2>4. \A r \in booked' : Shaped(r) /\ r.connection = NoSource
    BY <2>2, <2>3 DEF Unlinks
  <2>5. Ever \subseteq Ever'
    BY <2>2, <1>1, TableForgetsNothing DEF Table, Labelled
  <2>6. SyncTypeOK'
    BY <2>1, <2>4, <1>1, <1>2, TypesKept DEF SyncTypeOK
  <2>7. Labelled'
    BY <2>4 DEF Labelled
  <2> QED BY <2>1, <2>5, <2>6, <2>7, <1>1, <1>2, ConnectionStep
<1>4. CASE \E g \in external : RemoveExternalAccount(g)
  <2>1. booked' \subseteq booked /\ external' \subseteq external /\ conn' = conn
    BY <1>4 DEF RemoveExternalAccount
  <2>2. Drops
    BY <1>4 DEF RemoveExternalAccount, Drops
  <2>3. Ever \subseteq Ever'
    BY <2>2, <1>1, TableForgetsNothing DEF Table, Labelled
  <2>4. SyncTypeOK' /\ Labelled'
    BY <2>1, <1>1, <1>2 DEF SyncTypeOK, Labelled, Current
  <2> QED BY <2>1, <2>3, <2>4, <1>1, <1>2, ConnectionStep
<1> QED BY <1>3, <1>4

LEMMA CreationKeeps ==
  ASSUME BrokerInv, NEW broker \in ConnectedBrokers, CreateConnection(broker)
  PROVE  BrokerInv'
<1> DEFINE c == [exists |-> TRUE, broker |-> broker, status |-> "active", autoSync |-> TRUE,
                 sealed |-> FALSE, cursor |-> EmptyCursor]
<1>1. /\ ~conn.exists /\ made' = made + 1 /\ made < MaxConnections /\ conn' = c
      /\ UNCHANGED <<booked, forgotten, today, external, run, lost>>
  BY DEF CreateConnection
<1>2. SyncTypeOK /\ Labelled /\ DOMAIN run = Runners /\ made \in Nat
  BY ConnectionFields DEF BrokerInv
<1>3. c \in BrokerConnection /\ c.broker = broker /\ c.cursor = EmptyCursor
  BY EmptyCovers DEF BrokerConnection, ConnectionStatus
<1> HIDE DEF c
<1>4. \A r \in booked : r.connection = NoSource
  BY <1>1, <1>2 DEF SyncTypeOK, Current
<1>5. SyncTypeOK'
  BY <1>1, <1>2, <1>3, <1>4, BrokerSyncAssumption DEF SyncTypeOK
<1>6. \A w \in Runners : Belongs(run[w], conn', made')
  <2> SUFFICES ASSUME NEW w \in Runners, run[w].stage # "idle"
               PROVE  run[w].g <= made' /\ made' # run[w].g
    BY DEF Belongs
  <2>1. run[w].g <= made /\ (run[w].g \in Nat)
    BY DEF BrokerInv, Belongs, Sound, Begun, BegunRun, FetchedWell, Idle
  <2> QED BY <2>1, <1>1, <1>2
<1>7. \A w \in Runners : Sound(Ever', today', lost', run'[w])
  BY <1>1 DEF BrokerInv, Ever
<1> QED BY <1>1, <1>2, <1>3, <1>5, <1>6, <1>7, EmptyCovers DEF BrokerInv, Labelled

LEMMA NextDayKeeps == BrokerInv /\ NextDay => BrokerInv'
<1> SUFFICES ASSUME BrokerInv, NextDay PROVE BrokerInv'
  OBVIOUS
<1>1. /\ today' = today + 1 /\ today < EndDay /\ today \in Int
      /\ UNCHANGED <<booked, forgotten, conn, made, external, run, lost>>
  BY ConnectionFields DEF BrokerInv, NextDay
<1>2. Ever' = Ever
  BY <1>1 DEF Ever
<1>3. /\ \A w \in Runners : Sound(Ever', today', lost', run[w])
      /\ conn.exists => Covers(Ever', today', lost', made, conn.broker, conn.cursor, {})
  BY <1>1, <1>2, InvStays
<1>4. SyncTypeOK' /\ Labelled'
  BY <1>1, BrokerSyncAssumption DEF BrokerInv, SyncTypeOK, Labelled, Current
<1> QED BY <1>1, <1>3, <1>4 DEF BrokerInv

-----------------------------------------------------------------------------
(* The steps of a synchronisation.                                           *)

\* What a synchronisation in course carries.
LEMMA InCourseFields ==
  ASSUME BrokerInv, NEW w \in Runners, run[w].stage # "idle"
  PROVE  /\ run[w].g \in Nat /\ run[w].broker \in ConnectedBrokers /\ Belongs(run[w], conn, made)
         /\ run[w].stage \in {"account", "fetch"} =>
              run[w] \in BegunRun /\ Covers(Ever, today, lost, run[w].g, run[w].broker, run[w].loaded, {})
         /\ run[w].stage \notin {"account", "fetch"} => FetchedWell(Ever, today, lost, run[w])
<1>1. Begun(Ever, today, lost, run[w]) \/ FetchedWell(Ever, today, lost, run[w])
  BY DEF BrokerInv, Sound, Idle
<1>2. Begun(Ever, today, lost, run[w]) => run[w].stage \in {"account", "fetch"}
  BY DEF Begun, BegunRun
<1>3. FetchedWell(Ever, today, lost, run[w]) => run[w].stage \notin {"account", "fetch"}
  BY DEF FetchedWell
<1>4. Belongs(run[w], conn, made)
  BY DEF BrokerInv
<1>5. run[w].g \in Nat /\ run[w].broker \in ConnectedBrokers
  BY <1>1 DEF Begun, BegunRun, FetchedWell
<1> QED BY <1>1, <1>2, <1>3, <1>4, <1>5 DEF Begun

LEMMA StartKeeps ==
  ASSUME BrokerInv, NEW w \in Runners, StartSync(w)
  PROVE  BrokerInv'
<1> DEFINE r == [stage |-> "account", g |-> made, sealed |-> conn.sealed,
                 broker |-> conn.broker, loaded |-> conn.cursor]
<1>1. conn.exists /\ run' = [run EXCEPT ![w] = r]
      /\ UNCHANGED <<booked, forgotten, today, conn, made, external, lost>>
  BY DEF StartSync
<1>2. /\ r \in BegunRun /\ r.g = made /\ r.broker = conn.broker /\ r.loaded = conn.cursor
  BY <1>1, ConnectionFields DEF BrokerInv, BegunRun
<1> HIDE DEF r
<1>3. Ever' = Ever /\ SyncTypeOK' /\ Labelled'
  BY <1>1 DEF BrokerInv, Ever, SyncTypeOK, Labelled, Current
<1>4. Sound(Ever', today, lost', r) /\ Belongs(r, conn, made)
  BY <1>1, <1>2, <1>3, ConnectionFields DEF BrokerInv, Sound, Begun, Belongs
<1> QED BY <1>1, <1>3, <1>4, RunStep

LEMMA EnsureAccountKeeps ==
  ASSUME BrokerInv, NEW w \in Runners, EnsureAccount(w)
  PROVE  BrokerInv'
<1> DEFINE r == [run[w] EXCEPT !.stage = "fetch"]
<1>1. /\ run[w].stage = "account" /\ Current(run[w].g) /\ external' = external \cup {run[w].g}
      /\ run' = [run EXCEPT ![w] = r] /\ UNCHANGED <<booked, forgotten, today, conn, made, lost>>
  BY DEF EnsureAccount
<1>2. run[w] \in BegunRun /\ Covers(Ever, today, lost, run[w].g, run[w].broker, run[w].loaded, {})
      /\ Belongs(run[w], conn, made)
  BY <1>1, InCourseFields
<1>3. r \in BegunRun /\ r.g = run[w].g /\ r.broker = run[w].broker /\ r.loaded = run[w].loaded
  BY <1>2 DEF BegunRun
<1> HIDE DEF r
<1>4. made \in 1 .. made
  BY <1>1, <1>2, ConnectionFields DEF BrokerInv, SyncTypeOK, Current
<1>5. Ever' = Ever /\ Labelled'
  BY <1>1 DEF BrokerInv, Ever, Labelled
<1>6. SyncTypeOK'
  BY <1>1, <1>4 DEF BrokerInv, SyncTypeOK, Current
<1>7. Sound(Ever', today, lost', r) /\ Belongs(r, conn, made)
  BY <1>1, <1>2, <1>3, <1>5 DEF Sound, Begun, Belongs
<1> QED BY <1>1, <1>5, <1>6, <1>7, RunStep

LEMMA FetchKeeps ==
  ASSUME BrokerInv, NEW w \in Runners, Fetch(w)
  PROVE  BrokerInv'
<1> DEFINE q == run[w]
           traded == TradedSymbols(q.g)
<1>1. q.stage = "fetch" /\ UNCHANGED <<booked, forgotten, today, conn, made, external>>
  BY DEF Fetch
<1>2. PICK result \in FetchTransactions(q.broker, q.loaded, traded, today) :
        /\ run' = [run EXCEPT ![w] = [stage |-> "persist", g |-> q.g, broker |-> q.broker,
                     loaded |-> q.loaded, rows |-> result.rows, next |-> result.cursor,
                     warned |-> result.warned, day |-> today, traded |-> traded]]
        /\ lost' = lost \cup result.cut
  BY DEF Fetch
<1>3. /\ q.g \in Nat /\ q.broker \in ConnectedBrokers /\ Belongs(q, conn, made)
      /\ Covers(Ever, today, lost, q.g, q.broker, q.loaded, {})
  BY <1>1, InCourseFields
<1>4. IsFiniteSet(traded)
  <2> DEFINE some == {o \in Records : o.source = "convert" /\
                        \E leg \in ConvertLegs(o), r \in booked :
                          r.account = q.g /\ r.key \in StoredAs(Row(o, leg).key)}
  <2>1. traded = {o.pair : o \in some}
    BY DEF TradedSymbols
  <2>2. some \subseteq Records
    OBVIOUS
  <2> HIDE DEF some, traded
  <2> QED BY <2>1, <2>2, FiniteNames
<1>5. Delivers(Ever, today, lost, q.g, q.broker, q.loaded, traded, result)
  <2>1. FetchedFrom(Ever, today, lost, q.g, q.broker, q.loaded)
    BY <1>3, ConnectionFields DEF FetchedFrom, BrokerInv
  <2> HIDE DEF q, traded
  <2> QED BY <2>1, <1>2, <1>3, <1>4, ConnectorDelivers
<1> DEFINE r == [stage |-> "persist", g |-> q.g, broker |-> q.broker,
                 loaded |-> q.loaded, rows |-> result.rows, next |-> result.cursor,
                 warned |-> result.warned, day |-> today, traded |-> traded]
<1>6. /\ r.stage = "persist" /\ r.g = q.g /\ r.broker = q.broker /\ r.loaded = q.loaded /\ r.rows = result.rows
      /\ r.next = result.cursor /\ (r.warned <=> result.warned) /\ r.day = today /\ r.traded = traded /\ FetchedShape(r)
  <2> HIDE DEF q, traded
  <2> QED BY DEF FetchedShape
<1>7. run' = [run EXCEPT ![w] = r]
  BY <1>2
<1> HIDE DEF q, traded, r
<1>8. Ever' = Ever /\ Labelled'
  BY <1>1 DEF BrokerInv, Ever, Labelled
<1>9. SyncTypeOK' /\ lost \subseteq lost'
  BY <1>1, <1>2, <1>5 DEF BrokerInv, SyncTypeOK, Current, Delivers
<1>10. FetchedWell(Ever, today, lost', r)
  <2>1. ~r.warned => \A o \in Due(r) \ lost' : Whole(Ever, r.g, r.rows, o)
    BY <1>2, <1>5, <1>6 DEF Delivers
  <2>2. today \in Int
    BY ConnectionFields DEF BrokerInv
  <2> QED BY <2>1, <2>2, <1>2, <1>3, <1>5, <1>6 DEF FetchedWell, Delivers
<1>11. Belongs(r, conn, made)
  BY <1>1, <1>3, <1>6 DEF Belongs
<1> QED BY <1>1, <1>7, <1>8, <1>9, <1>10, <1>11, RunStep DEF Sound

\* What is sent to the index: the rows with an amount, each under a key that its
\* own may become.
LEMMA EntitiesFromRows ==
  ASSUME NEW g, NEW rows, NEW entities \in ToEntities(g, rows)
  PROVE  /\ \A e \in entities :
              /\ Shaped(e) /\ e.connection = g /\ e.account = g /\ e.batch = NoSource
              /\ \E row \in Priced(rows) : e.ref = row.ref /\ e.key \in StoredAs(row.key)
         /\ \A row \in Priced(rows) : \E e \in entities : e.ref = row.ref /\ e.key \in StoredAs(row.key)
<1>1. PICK stored \in Converted(Priced(rows)) : entities = {SyncedRow(g, r, stored[r]) : r \in Priced(rows)}
  BY DEF ToEntities
<1>2. \A r \in Priced(rows) : stored[r] \in StoredAs(r.key)
  BY <1>1 DEF Converted
<1>3. \A r \in Priced(rows) : LET e == SyncedRow(g, r, stored[r]) IN
        /\ Shaped(e) /\ e.connection = g /\ e.account = g /\ e.batch = NoSource
        /\ e.ref = r.ref /\ e.key = stored[r]
  BY DEF SyncedRow, Shaped
<1> QED BY <1>1, <1>2, <1>3

\* What was sent to the index is in the table, or collides with what is there: a
\* row of its hash, or one of its reference, which is of its connection.
LEMMA PersistBrings ==
  ASSUME BrokerInv, NEW w \in Runners, Persist(w)
  PROVE  /\ \A row \in run[w].rows : row.priced => Registered(Ever', run[w].g, row)
         /\ Ever \subseteq Ever' /\ Labelled' /\ SyncTypeOK'
<1> DEFINE g == run[w].g
           rows == run[w].rows
<1>0. SyncTypeOK /\ Labelled /\ UNCHANGED <<forgotten, today, conn, made, external, lost>>
  BY DEF BrokerInv, Persist
<1>1. PICK E \in ToEntities(g, rows) : \E new \in InsertOrIgnore(E) : booked' = booked \cup new
  BY DEF Persist
<1>2. PICK new \in InsertOrIgnore(E) : booked' = booked \cup new
  BY <1>1
<1>3. /\ new \subseteq E
      /\ \A r \in E \ new : \E s \in new \cup booked : Collide(r, s)
  BY <1>2 DEF InsertOrIgnore
<1>4. Priced(rows) = {} \/ Current(g)
  BY DEF Persist, Writable
<1> HIDE DEF g, rows
<1>5. \A e \in E : Shaped(e) /\ e.connection = g /\ e.account = g
  BY <1>1, EntitiesFromRows
<1>6. Ever \subseteq Ever' /\ \A s \in booked' : Trace(s) \in Ever'
  BY <1>0, <1>2 DEF Ever
<1>7. Labelled'
  BY <1>0, <1>2, <1>3, <1>5 DEF Labelled
<1>8. ASSUME NEW e \in E
      PROVE  \E s \in booked' : s.account = g /\ (s.key = e.key \/ (e.ref # NoReference /\ s.ref = e.ref))
  <2>1. e.account = g /\ e.connection = g
    BY <1>5
  <2>2. CASE e \in new
    BY <2>1, <2>2, <1>2
  <2>3. CASE e \notin new
    <3>1. PICK s \in new \cup booked : Collide(e, s)
      BY <2>3, <1>3
    <3>2. s \in booked'
      BY <1>2
    <3>3. CASE DedupeHash(e) = DedupeHash(s)
      BY <3>2, <3>3, <2>1 DEF DedupeHash
    <3>4. CASE SameReference(e, s)
      <4>1. s.connection # NoSource /\ e.ref # NoReference /\ e.ref = s.ref /\ e.connection = s.connection
        BY <3>4 DEF SameReference
      <4>2. s.account = s.connection
        BY <4>1, <3>2, <1>7 DEF Labelled
      <4> QED BY <4>1, <4>2, <3>2, <2>1
    <3> QED BY <3>1, <3>3, <3>4 DEF Collide
  <2> QED BY <2>2, <2>3
<1>9. ASSUME NEW row \in rows, row.priced PROVE Registered(Ever', g, row)
  <2>1. row \in Priced(rows)
    BY <1>9 DEF Priced
  <2>2. PICK e \in E : e.ref = row.ref /\ e.key \in StoredAs(row.key)
    BY <2>1, <1>1, EntitiesFromRows
  <2>3. PICK s \in booked' : s.account = g /\ (s.key = e.key \/ (e.ref # NoReference /\ s.ref = e.ref))
    BY <1>8
  <2>4. Trace(s) \in Ever' /\ Trace(s).account = s.account /\ Trace(s).key = s.key /\ Trace(s).ref = s.ref
    BY <1>6 DEF Trace
  <2> QED BY <2>2, <2>3, <2>4 DEF Registered
<1>10. SyncTypeOK'
  <2>1. E = {} \/ Current(g)
    BY <1>1, <1>4, EntitiesFromRows
  <2>2. \A r \in booked' : r.connection # NoSource => Current(r.connection)
    BY <1>0, <1>2, <1>3, <1>5, <2>1 DEF SyncTypeOK
  <2> QED BY <2>2, <1>0 DEF SyncTypeOK, Current
<1> QED BY <1>6, <1>7, <1>9, <1>10 DEF g, rows

\* What is left to be stored may be dropped once it was stored.
LEMMA StoredCovers ==
  ASSUME NEW seen, NEW later, seen \subseteq later, NEW now, NEW left, NEW g, NEW broker, NEW cursor, NEW rows,
         \A row \in rows : row.priced => Registered(later, g, row)
  PROVE  /\ \A o : Whole(seen, g, rows, o) => Whole(later, g, {}, o)
         /\ Covers(seen, now, left, g, broker, cursor, rows) => Covers(later, now, left, g, broker, cursor, {})
<1>1. \A o : Whole(seen, g, rows, o) => Whole(later, g, {}, o)
  BY DEF Whole, Brought, Registered
<1> QED BY <1>1 DEF Covers

\* Of a synchronisation that fetched, what a step writes over.
LEMMA FetchedMoves ==
  ASSUME NEW q, FetchedShape(q), NEW stage, NEW rows, NEW next, NEW r,
         r = [stage |-> stage, g |-> q.g, broker |-> q.broker, loaded |-> q.loaded, rows |-> rows,
              next |-> next, warned |-> q.warned, day |-> q.day, traded |-> q.traded]
  PROVE  /\ FetchedShape(r) /\ r.stage = stage /\ r.rows = rows /\ r.next = next
         /\ r.g = q.g /\ r.broker = q.broker /\ r.loaded = q.loaded /\ r.day = q.day /\ r.traded = q.traded
         /\ r.warned = q.warned /\ Due(r) = Due(q)
<1>1. /\ r.stage = stage /\ r.rows = rows /\ r.next = next
      /\ r.g = q.g /\ r.broker = q.broker /\ r.loaded = q.loaded /\ r.day = q.day /\ r.traded = q.traded
      /\ r.warned = q.warned
  OBVIOUS
<1>2. FetchedShape(r)
  BY <1>1 DEF FetchedShape
<1> QED BY <1>1, <1>2 DEF Due

LEMMA StoredMove ==
  ASSUME NEW q, FetchedShape(q), NEW stage, NEW rows, NEW r, r = [q EXCEPT !.stage = stage, !.rows = rows]
  PROVE  r = [stage |-> stage, g |-> q.g, broker |-> q.broker, loaded |-> q.loaded, rows |-> rows,
              next |-> q.next, warned |-> q.warned, day |-> q.day, traded |-> q.traded]
BY DEF FetchedShape

LEMMA CursorMove ==
  ASSUME NEW q, FetchedShape(q), NEW stage, NEW next, NEW r, r = [q EXCEPT !.stage = stage, !.next = next]
  PROVE  r = [stage |-> stage, g |-> q.g, broker |-> q.broker, loaded |-> q.loaded, rows |-> q.rows,
              next |-> next, warned |-> q.warned, day |-> q.day, traded |-> q.traded]
BY DEF FetchedShape

LEMMA PersistKeeps ==
  ASSUME BrokerInv, NEW w \in Runners, Persist(w)
  PROVE  BrokerInv'
<1> DEFINE q == run[w]
           r == [q EXCEPT !.stage = "cursor", !.rows = {}]
           later == Ever'
<1>1. /\ q.stage = "persist" /\ run' = [run EXCEPT ![w] = r]
      /\ UNCHANGED <<forgotten, today, conn, made, external, lost>>
  BY DEF Persist
<1>2. /\ q.g \in Nat /\ q.broker \in ConnectedBrokers /\ Belongs(q, conn, made)
      /\ FetchedWell(Ever, today, lost, q)
  BY <1>1, InCourseFields
<1>3. /\ \A row \in q.rows : row.priced => Registered(later, q.g, row)
      /\ Ever \subseteq later /\ Labelled' /\ SyncTypeOK'
  BY PersistBrings
<1>4. /\ FetchedShape(r) /\ r.stage = "cursor" /\ r.rows = {} /\ r.next = q.next
      /\ r.g = q.g /\ r.broker = q.broker /\ r.day = q.day /\ r.warned = q.warned /\ Due(r) = Due(q)
  <2>1. FetchedShape(q)
    BY <1>2 DEF FetchedWell
  <2> HIDE DEF q
  <2>2. r = [stage |-> "cursor", g |-> q.g, broker |-> q.broker, loaded |-> q.loaded, rows |-> {},
           next |-> q.next, warned |-> q.warned, day |-> q.day, traded |-> q.traded]
    BY <2>1, StoredMove
  <2> HIDE DEF r
  <2> QED BY <2>1, <2>2, FetchedMoves
<1> HIDE DEF q, r, later
<1>5. /\ \A o : Whole(Ever, q.g, q.rows, o) => Whole(later, q.g, {}, o)
      /\ Covers(Ever, today, lost, q.g, q.broker, q.next, q.rows) => Covers(later, today, lost, q.g, q.broker, q.next, {})
  BY <1>3, StoredCovers
<1>6. FetchedWell(later, today, lost', r)
  BY <1>1, <1>2, <1>4, <1>5 DEF FetchedWell
<1>7. Belongs(r, conn, made)
  BY <1>1, <1>2, <1>4 DEF Belongs
<1> QED BY <1>1, <1>3, <1>6, <1>7, RunStep DEF Sound, later

LEMMA SetCursorKeeps ==
  ASSUME BrokerInv, NEW w \in Runners, SetCursor(w)
  PROVE  BrokerInv'
<1> DEFINE q == run[w]
           r == [q EXCEPT !.stage = "finish", !.next = EmptyCursor]
           c == [conn EXCEPT !.cursor = q.next]
<1>1. /\ q.stage = "cursor" /\ run' = [run EXCEPT ![w] = r]
      /\ conn' = IF Current(q.g) THEN c ELSE conn
      /\ UNCHANGED <<booked, forgotten, today, made, external, lost>>
  BY DEF SetCursor
<1>2. /\ q.g \in Nat /\ q.broker \in ConnectedBrokers /\ Belongs(q, conn, made)
      /\ FetchedWell(Ever, today, lost, q)
  BY <1>1, InCourseFields
<1>3. /\ q.rows = {} /\ Covers(Ever, today, lost, q.g, q.broker, q.next, {}) /\ q.next \in SyncCursor
      /\ FetchedShape(q)
  BY <1>1, <1>2 DEF FetchedWell, Covers
<1>4. /\ FetchedShape(r) /\ r.stage = "finish" /\ r.rows = {} /\ r.next = EmptyCursor
      /\ r.g = q.g /\ r.broker = q.broker /\ r.day = q.day /\ r.warned = q.warned /\ Due(r) = Due(q)
  <2> HIDE DEF q
  <2>1. r = [stage |-> "finish", g |-> q.g, broker |-> q.broker, loaded |-> q.loaded, rows |-> q.rows,
           next |-> EmptyCursor, warned |-> q.warned, day |-> q.day, traded |-> q.traded]
    BY <1>3, CursorMove
  <2> HIDE DEF r
  <2> QED BY <2>1, <1>3, FetchedMoves
<1>5. Current(q.g) => /\ conn.exists /\ made = q.g /\ conn.broker = q.broker
                      /\ c \in BrokerConnection /\ c.broker = conn.broker /\ c.cursor = q.next /\ c.exists = TRUE
  <2>1. Current(q.g) => conn.exists /\ made = q.g /\ conn.broker = q.broker
    BY <1>1, <1>2 DEF Current, Belongs
  <2>2. conn.exists => conn \in BrokerConnection
    BY ConnectionFields DEF BrokerInv
  <2>3. conn \in BrokerConnection => c \in BrokerConnection /\ c.broker = conn.broker /\ c.cursor = q.next /\ c.exists = TRUE
    <3> HIDE DEF q
    <3> QED BY <1>3 DEF BrokerConnection
  <2> QED BY <2>1, <2>2, <2>3
<1> HIDE DEF q, r, c
<1>6. Ever' = Ever /\ Labelled' /\ today \in Int
  BY <1>1, ConnectionFields DEF BrokerInv, Ever, Labelled
<1>7. conn'.exists => conn.exists /\ conn'.broker = conn.broker
  BY <1>1, <1>5
<1>8. conn'.exists => Covers(Ever, today, lost, made, conn'.broker, conn'.cursor, {})
  <2>1. CASE Current(q.g)
    BY <2>1, <1>1, <1>3, <1>5
  <2>2. CASE ~Current(q.g)
    BY <2>2, <1>1 DEF BrokerInv
  <2> QED BY <2>1, <2>2
<1>9. SyncTypeOK'
  <2>1. CASE Current(q.g)
    BY <2>1, <1>1, <1>5 DEF BrokerInv, SyncTypeOK, Current
  <2>2. CASE ~Current(q.g)
    BY <2>2, <1>1 DEF BrokerInv, SyncTypeOK, Current
  <2> QED BY <2>1, <2>2
<1>10. FetchedWell(Ever, today, lost, r)
  BY <1>2, <1>3, <1>4, EmptyCovers DEF FetchedWell
<1>11. \A v \in Runners : Sound(Ever, today, lost, run'[v]) /\ Belongs(run'[v], conn', made)
  <2>1. DOMAIN run = Runners /\ run'[w] = r /\ \A v \in Runners \ {w} : run'[v] = run[v]
    BY <1>1 DEF BrokerInv
  <2>2. Belongs(r, conn', made)
    BY <1>2, <1>4, <1>7, <1>1 DEF Belongs
  <2>3. \A v \in Runners : Belongs(run[v], conn', made)
    BY <1>7 DEF BrokerInv, Belongs
  <2> QED BY <2>1, <2>2, <2>3, <1>10 DEF BrokerInv, Sound
<1>12. DOMAIN run' = Runners
  BY <1>1 DEF BrokerInv
<1> QED BY <1>1, <1>6, <1>8, <1>9, <1>11, <1>12 DEF BrokerInv

\* An import inserts rows of its own, without a connection.
LEMMA ImportsKeepBrokers ==
  ASSUME BrokerInv, ImportNext, UNCHANGED syncVars
  PROVE  BrokerInv'
<1>1. SyncTypeOK /\ Labelled /\ DOMAIN run = Runners
  BY DEF BrokerInv
<1>2. UNCHANGED <<today, conn, made, external, run, lost>>
  BY DEF syncVars
<1>3. Ever \subseteq Ever' /\ \A r \in booked' : r \in booked \/ (Shaped(r) /\ r.connection = NoSource)
  <2>1. CASE \E c \in Callers : InsertRows(c)
    <3>1. PICK c \in Callers : InsertRows(c)
      BY <2>1
    <3>2. PICK new \in InsertOrIgnore(EntitiesOf(c)) : booked' = booked \cup new /\ forgotten' = forgotten
      BY <3>1 DEF InsertRows, EntitiesOf
    <3>3. new \subseteq EntitiesOf(c)
      BY <3>2 DEF InsertOrIgnore
    <3> QED BY <3>2, <3>3, EntitiesShaped DEF Ever
  <2>2. CASE ~\E c \in Callers : InsertRows(c)
    BY <2>2, OtherImportsOnTable DEF Ever
  <2> QED BY <2>1, <2>2
<1>4. SyncTypeOK' /\ Labelled'
  BY <1>1, <1>2, <1>3 DEF SyncTypeOK, Labelled, Current
<1> QED BY <1>1, <1>2, <1>3, <1>4, ConnectionStep

LEMMA BrokersStep == BrokerInv /\ [ArrivalsNext]_arrivalVars => BrokerInv'
<1> SUFFICES ASSUME BrokerInv, [ArrivalsNext]_arrivalVars PROVE BrokerInv'
  OBVIOUS
<1>1. CASE ImportNext /\ UNCHANGED syncVars
  BY <1>1, ImportsKeepBrokers
<1>2. CASE Manage
  BY <1>2, ManagementKeeps, RemovalKeeps, CreationKeeps DEF Manage
<1>3. CASE Synchronise
  BY <1>3, ManagementKeeps, NextDayKeeps, StartKeeps, EnsureAccountKeeps, FetchKeeps, PersistKeeps, SetCursorKeeps
     DEF Synchronise
<1>4. CASE UNCHANGED arrivalVars
  <2>1. UNCHANGED <<booked, forgotten, today, conn, made, external, run, lost>>
    BY <1>4 DEF arrivalVars, syncVars
  <2> QED BY <2>1 DEF BrokerInv, SyncTypeOK, Labelled, Ever, Current
<1> QED BY <1>1, <1>2, <1>3, <1>4 DEF ArrivalsNext, SyncNext

(* The connection, its cursor and the account it made keep their types, and a   *)
(* row of the book never names a connection that is gone.                       *)
THEOREM BrokerTypeCorrect == BrokersSpec => []SyncTypeOK
<1>1. BrokerInv => SyncTypeOK
  BY DEF BrokerInv
<1> QED BY <1>1, BrokersInitially, BrokersStep, PTL DEF BrokersSpec

LEMMA InvCatches == BrokerInv => BrokerCaught
<1> SUFFICES ASSUME BrokerInv, NEW w \in Runners, run[w].stage = "finish", ~run[w].warned,
                    NEW row \in ToTransactions(Owed(run[w]), run[w].day), row.priced
             PROVE  InBook(run[w].g, row)
  BY DEF BrokerCaught, EndsWell
<1> DEFINE q == run[w]
<1>1. FetchedWell(Ever, today, lost, q)
  BY InCourseFields
<1>7. PICK o \in Owed(q) : \E leg \in Legs(o, q.day) : row = Row(o, leg)
  BY DEF ToTransactions
<1>2. PICK leg \in Legs(o, q.day) : row = Row(o, leg)
  BY <1>7
<1> HIDE DEF q
<1>3. o \in Due(q) \ lost /\ o \in Records /\ o.shown <= q.day
  BY <1>2 DEF Owed, Due
<1>4. Whole(Ever, q.g, {}, o)
  BY <1>1, <1>3 DEF FetchedWell, q
<1>8. q.day \in Int
  BY <1>1 DEF FetchedWell
<1>5. leg \in Legs(o, o.shown)
  BY <1>2, <1>3, <1>8, LegsOfShown
<1>6. Registered(Ever, q.g, row)
  BY <1>2, <1>4, <1>5 DEF Whole, Brought
<1> QED BY <1>6 DEF InBook, Registered, q

(* A synchronisation that ends well, without warnings, leaves in the book of its *)
(* account every operation with an amount it owed or one equal to it, unless it  *)
(* was deleted with it: whatever failed, crashed or ran beside it, imports of    *)
(* statements too, however long the cursor was carried and whatever the rates    *)
(* were, on any set of records, equal ones among them.                           *)
THEOREM SynchronisationCatchesAll == BrokersSpec => []BrokerCaught
BY InvCatches, BrokersInitially, BrokersStep, PTL DEF BrokersSpec

LEMMA InvNotAhead == BrokerInv => CursorNotAhead
<1> SUFFICES ASSUME BrokerInv, conn.exists, NEW o \in Behind(conn.broker, conn.cursor),
                    NEW row \in ToTransactions({o}, o.shown), row.priced
             PROVE  InBook(made, row)
  BY DEF CursorNotAhead
<1>1. Covers(Ever, today, lost, made, conn.broker, conn.cursor, {})
  BY DEF BrokerInv
<1>2. Whole(Ever, made, {}, o)
  BY <1>1 DEF Covers, Behind
<1>3. PICK leg \in Legs(o, o.shown) : row = Row(o, leg)
  BY DEF ToTransactions
<1>4. Registered(Ever, made, row)
  BY <1>2, <1>3 DEF Whole, Brought
<1> QED BY <1>4 DEF InBook, Registered

(* The cursor of a connection never passes what is not in the book, though it is *)
(* stored apart from the rows: not after a crash between the two, a call that    *)
(* failed, a synchronisation that overtakes another, or an old copy of the       *)
(* connection that is saved; for any records, pairs, days and rates.             *)
THEOREM CursorNeverAhead == BrokersSpec => []CursorNotAhead
BY InvNotAhead, BrokersInitially, BrokersStep, PTL DEF BrokersSpec

-----------------------------------------------------------------------------
(* The types of the table, of the batches and of the drafts.                  *)

IsNamed(row) == row.key \in NaturalKeys /\ row.ref \in References \cup {NoReference}

CallTyped(k) ==
  k.stage # "none" =>
    /\ k = [stage |-> k.stage, id |-> k.id, copy |-> k.copy, account |-> k.account, rows |-> k.rows]
    /\ k.id \in Batches /\ k.copy \in BatchRow /\ k.rows \subseteq DraftRow
    /\ k.stage \in {"insert", "save"} => k.account \in BookAccounts

ImportsTyped ==
  /\ ImportTypeOK
  /\ DOMAIN call = Callers /\ \A c \in Callers : CallTyped(call[c])
  /\ \A w \in Runners : run[w].stage = "persist" => \A row \in run[w].rows : IsNamed(row)

LEMMA RecordsNamed ==
  ASSUME NEW found, found \subseteq Records, NEW now \in 0 .. EndDay
  PROVE  \A row \in ToTransactions(found, now) : IsNamed(row)
<1> SUFFICES ASSUME NEW row \in ToTransactions(found, now) PROVE IsNamed(row)
  OBVIOUS
<1>1. PICK o \in found : row \in {Row(o, leg) : leg \in Legs(o, now)}
  BY DEF ToTransactions
<1>2. PICK leg \in Legs(o, now) : row = Row(o, leg)
  BY <1>1
<1>3. o \in Records
  OBVIOUS
<1> QED BY <1>2, <1>3, BrokerSyncAssumption DEF IsNamed

\* Whatever a connector brings, it made of records.
LEMMA FetchedNamed ==
  ASSUME NEW broker \in ConnectedBrokers, NEW cursor, NEW traded, NEW now \in 0 .. EndDay,
         NEW result \in FetchTransactions(broker, cursor, traded, now)
  PROVE  \A row \in result.rows : IsNamed(row)
<1>1. SUFFICES \E found \in SUBSET Records : result.rows = ToTransactions(found, now)
  BY RecordsNamed
<1>2. CASE broker = "binance"
  <2>1. PICK pairs \in CandidatePairs(cursor, traded, now), fault \in BinanceFaults(Pairs, now) :
          result = AnswerOfBinance(pairs, fault, cursor, now)
    BY <1>2 DEF FetchTransactions, FetchBinance
  <2> DEFINE trades == Trades(IF fault[1] = "pair" THEN pairs \ {fault[2]} ELSE pairs, cursor, now)
             moved == IF fault[1] = "capital" THEN {} ELSE Shown("capital", now)
             converted == Walk("convert", ConvertWindow, cursor, now, IF fault[1] = "convert" THEN fault[2] ELSE NoDay)
             paid == Walk("fiat", FiatWindow, cursor, now, IF fault[1] = "fiat" THEN fault[2] ELSE NoDay)
             found == trades \cup moved \cup converted \cup paid
  <2>2. result.rows = ToTransactions(found, now)
    BY <2>1 DEF AnswerOfBinance, Fetched
  <2>3. found \subseteq Records
    BY DEF Trades, Walk, Shown
  <2> HIDE DEF found
  <2> QED BY <2>2, <2>3
<1>3. CASE broker = "etoro"
  <2> DEFINE found == {o \in Shown("etoro", now) : o.on >= EtoroMinDate(cursor, now)}
  <2>1. \A kept \in kSubset(PageLimit, found) : kept \subseteq found
    BY DEF kSubset
  <2>2. found \subseteq Records
    BY DEF Shown
  <2>3. \E kept : kept \subseteq found /\ result.rows = ToTransactions(kept, now)
    <3>1. CASE Cardinality(found) < PageLimit
      <4>1. result.rows = ToTransactions(found, now)
        BY <1>3, <3>1 DEF FetchTransactions, FetchEtoro, Fetched
      <4> HIDE DEF found
      <4> QED BY <4>1
    <3>2. CASE ~(Cardinality(found) < PageLimit)
      <4>1. \E kept \in kSubset(PageLimit, found) : result.rows = ToTransactions(kept, now)
        BY <1>3, <3>2 DEF FetchTransactions, FetchEtoro, Fetched
      <4> HIDE DEF found
      <4> QED BY <2>1, <4>1
    <3> QED BY <3>1, <3>2
  <2> HIDE DEF found
  <2> QED BY <2>2, <2>3
<1>4. CASE broker = "interactive_brokers"
  <2> DEFINE found == {o \in Shown("interactive_brokers", now) : o.on >= now - History + 1}
  <2>1. result.rows = ToTransactions(found, now)
    BY <1>4 DEF FetchTransactions, FetchInteractiveBrokers, Fetched
  <2>2. found \subseteq Records
    BY DEF Shown
  <2> HIDE DEF found
  <2> QED BY <2>1, <2>2
<1>5. CASE broker = "xtb"
  <2> DEFINE start == IF cursor.on = NoDay THEN now - History ELSE cursor.on - Overlap
             found == {o \in Shown("xtb", now) : o.on >= start}
                        \cup {o \in Records : o.source = "xtb" /\ o.opened <= now /\ now < o.on}
  <2>1. result.rows = ToTransactions(found, now)
    BY <1>5 DEF FetchTransactions, FetchXtb, Fetched
  <2>2. found \subseteq Records
    BY DEF Shown
  <2> HIDE DEF found
  <2> QED BY <2>1, <2>2
<1> QED BY <1>2, <1>3, <1>4, <1>5 DEF ConnectedBrokers

LEMMA DraftTyped ==
  ASSUME NEW lines, lines \subseteq Line, NEW account, NEW corrected \in BOOLEAN
  PROVE  BuildRows(lines, account, corrected) \subseteq DraftRow
<1>1. ASSUME NEW l \in Line PROVE BuildRow(l, account, corrected) \in DraftRow
  BY <1>1 DEF BuildRow, Line, DraftRow
<1>2. ASSUME NEW r \in DraftRow PROVE [r EXCEPT !.isDuplicate = TRUE] \in DraftRow
  BY <1>2 DEF DraftRow
<1>3. \A row \in BuildRows(lines, account, corrected) :
        \E r \in {BuildRow(l, account, corrected) : l \in lines} :
          row = r \/ row = [r EXCEPT !.isDuplicate = TRUE]
  BY DEF BuildRows
<1> QED BY <1>1, <1>2, <1>3

(* A request of an import. *)

LEMMA LoadTyped ==
  ASSUME ImportsTyped, NEW c \in Callers, NEW b, NEW stage, NEW account, NEW rows,
         rows \subseteq DraftRow, stage \in {"insert", "save"} => account \in BookAccounts,
         Load(c, b, stage, account, rows), UNCHANGED run
  PROVE  ImportsTyped'
<1> DEFINE k == [stage |-> stage, id |-> b, copy |-> batch[b], account |-> account, rows |-> rows]
<1>1. /\ b \in DOMAIN batch /\ calls < MaxCalls /\ calls' = calls + 1 /\ call' = [call EXCEPT ![c] = k]
      /\ booked' = booked /\ batch' = batch /\ Disturb(b)
  BY DEF Load
<1>2. b \in Batches /\ batch[b] \in BatchRow
  BY <1>1 DEF ImportsTyped, ImportTypeOK
<1>3. CallTyped(k)
  BY <1>2 DEF CallTyped
<1> HIDE DEF k
<1>4. calls' \in 0 .. MaxCalls
  BY <1>1, ImportAssumption DEF ImportsTyped, ImportTypeOK
<1>5. disturbed' \subseteq Batches
  BY <1>1, <1>2 DEF ImportsTyped, ImportTypeOK, Disturb
<1>6. DOMAIN call' = Callers /\ \A d \in Callers : CallTyped(call'[d])
  BY <1>1, <1>3 DEF ImportsTyped
<1> QED BY <1>1, <1>4, <1>5, <1>6 DEF ImportsTyped, ImportTypeOK

LEMMA SaveTyped ==
  ASSUME ImportsTyped, NEW c \in Callers, call[c].stage # "none", NEW row \in BatchRow, Save(c, row),
         UNCHANGED <<booked, calls, disturbed, run>>
  PROVE  ImportsTyped'
<1>1. call[c].id \in Batches
  BY DEF ImportsTyped, CallTyped
<1>2. DOMAIN batch' = DOMAIN batch /\ \A b \in DOMAIN batch : batch'[b] \in {batch[b], row}
  BY DEF Save
<1>3. CallTyped(NoCall)
  BY DEF CallTyped, NoCall
<1>4. DOMAIN call' = Callers /\ \A d \in Callers : CallTyped(call'[d])
  BY <1>3 DEF ImportsTyped, Save
<1>5. \A b \in DOMAIN batch' : b \in Batches /\ batch'[b] \in BatchRow
  BY <1>2 DEF ImportsTyped, ImportTypeOK
<1> QED BY <1>4, <1>5 DEF ImportsTyped, ImportTypeOK

\* What the three ends write is a row of import_batches.
LEMMA BatchFields ==
  ASSUME NEW row \in BatchRow
  PROVE  /\ row.lines \subseteq Line
         /\ \A draft \in SUBSET DraftRow : [row EXCEPT !.draft = draft] \in BatchRow
         /\ \A account \in BookAccounts :
              [row EXCEPT !.status = "committed", !.account = account, !.file = FALSE] \in BatchRow
         /\ [row EXCEPT !.status = "discarded", !.file = FALSE, !.draft = {}] \in BatchRow
<1>1. row.lines \subseteq Line
  BY DEF BatchRow
<1>2. ASSUME NEW draft \in SUBSET DraftRow PROVE [row EXCEPT !.draft = draft] \in BatchRow
  BY DEF BatchRow
<1>3. ASSUME NEW account \in BookAccounts
      PROVE  [row EXCEPT !.status = "committed", !.account = account, !.file = FALSE] \in BatchRow
  BY DEF BatchRow, ImportStatus
<1>4. [row EXCEPT !.status = "discarded", !.file = FALSE, !.draft = {}] \in BatchRow
  BY DEF BatchRow, ImportStatus
<1> QED BY <1>1, <1>2, <1>3, <1>4

LEMMA EndsTyped ==
  ASSUME ImportsTyped, NEW c \in Callers, EndRemap(c) \/ SaveCommit(c) \/ EndDiscard(c), UNCHANGED run
  PROVE  ImportsTyped'
<1> DEFINE k == call[c]
<1>1. /\ k.stage # "none" => k.copy \in BatchRow /\ k.copy.lines \subseteq Line
      /\ k.stage = "save" => k.account \in BookAccounts
  BY BatchFields DEF ImportsTyped, CallTyped
<1>2. CASE EndRemap(c)
  <2>1. /\ k.stage = "remap" /\ UNCHANGED <<booked, calls, disturbed>>
        /\ Save(c, [k.copy EXCEPT !.draft = BuildRows(k.copy.lines, k.copy.account, TRUE)])
    BY <1>2 DEF EndRemap
  <2>2. [k.copy EXCEPT !.draft = BuildRows(k.copy.lines, k.copy.account, TRUE)] \in BatchRow
    BY <1>1, <2>1, BatchFields, DraftTyped
  <2> QED BY <2>1, <2>2, SaveTyped
<1>3. CASE SaveCommit(c)
  <2>1. /\ k.stage = "save" /\ UNCHANGED <<booked, calls, disturbed>>
        /\ Save(c, [k.copy EXCEPT !.status = "committed", !.account = k.account, !.file = FALSE])
    BY <1>3 DEF SaveCommit
  <2>2. [k.copy EXCEPT !.status = "committed", !.account = k.account, !.file = FALSE] \in BatchRow
    BY <1>1, <2>1, BatchFields
  <2> QED BY <2>1, <2>2, SaveTyped
<1>4. CASE EndDiscard(c)
  <2>1. /\ k.stage = "discard" /\ UNCHANGED <<booked, calls, disturbed>>
        /\ Save(c, [k.copy EXCEPT !.status = "discarded", !.file = FALSE, !.draft = {}])
    BY <1>4 DEF EndDiscard
  <2>2. [k.copy EXCEPT !.status = "discarded", !.file = FALSE, !.draft = {}] \in BatchRow
    BY <1>1, <2>1, BatchFields
  <2> QED BY <2>1, <2>2, SaveTyped
<1> QED BY <1>2, <1>3, <1>4

LEMMA AnalyzeTyped ==
  ASSUME ImportsTyped, NEW b \in Batches, NEW s \in Statements, NEW account \in BookAccounts \cup {NoAccount},
         Analyze(b, s, account), UNCHANGED run
  PROVE  ImportsTyped'
<1> DEFINE row == [status |-> "parsed", account |-> account, file |-> s.kind = "table",
                   lines |-> s.lines, draft |-> BuildRows(s.lines, account, FALSE)]
<1>1. s.lines \subseteq Line
  BY ImportAssumption
<1>2. row \in BatchRow
  BY <1>1, DraftTyped DEF BatchRow, ImportStatus
<1>3. batch' = [x \in DOMAIN batch \cup {b} |-> IF x = b THEN row ELSE batch[x]]
  BY DEF Analyze
<1> HIDE DEF row
<1>4. \A x \in DOMAIN batch' : x \in Batches /\ batch'[x] \in BatchRow
  BY <1>2, <1>3 DEF ImportsTyped, ImportTypeOK
<1> QED BY <1>4 DEF ImportsTyped, ImportTypeOK, Analyze

LEMMA InsertRowsTyped ==
  ASSUME ImportsTyped, NEW c \in Callers, InsertRows(c), UNCHANGED run
  PROVE  ImportsTyped'
<1> DEFINE k == call[c]
<1>1. k.stage = "insert" /\ UNCHANGED <<batch, calls, disturbed>> /\ call' = [call EXCEPT ![c].stage = "save"]
  BY DEF InsertRows
<1>2. /\ k.id \in Batches /\ k.account \in BookAccounts /\ k.rows \subseteq DraftRow
      /\ k = [stage |-> k.stage, id |-> k.id, copy |-> k.copy, account |-> k.account, rows |-> k.rows]
      /\ k.copy \in BatchRow
  BY <1>1 DEF ImportsTyped, CallTyped
<1>3. PICK new \in InsertOrIgnore({Entity(c, r) : r \in Importable(k.rows)}) : booked' = booked \cup new
  BY DEF InsertRows
<1>4. new \subseteq {Entity(c, r) : r \in Importable(k.rows)}
  BY DEF InsertOrIgnore
<1>5. ASSUME NEW r \in DraftRow PROVE Entity(c, r) \in OperationRow
  <2>1. k.id \in STRING
    BY <1>2, ImportAssumption
  <2>2. r.key \in NaturalKeys /\ r.ref \in References \cup {NoReference}
    BY DEF DraftRow
  <2> QED BY <1>2, <2>1, <2>2 DEF Entity, OperationRow
<1>6. booked' \subseteq OperationRow
  BY <1>2, <1>3, <1>4, <1>5 DEF Importable, ImportsTyped, ImportTypeOK
<1> DEFINE u == [k EXCEPT !.stage = "save"]
<1>7. call' = [call EXCEPT ![c] = u] /\ CallTyped(u)
  BY <1>1, <1>2 DEF CallTyped, ImportsTyped
<1> HIDE DEF u
<1>8. DOMAIN call' = Callers /\ \A d \in Callers : CallTyped(call'[d])
  BY <1>7 DEF ImportsTyped
<1> QED BY <1>1, <1>6, <1>8 DEF ImportsTyped, ImportTypeOK

LEMMA AbandonTyped ==
  ASSUME ImportsTyped, NEW c \in Callers, Abandon(c), UNCHANGED run
  PROVE  ImportsTyped'
<1>1. call[c].stage # "none" /\ call' = [call EXCEPT ![c] = NoCall] /\ UNCHANGED <<booked, batch, calls>>
  BY DEF Abandon
<1>2. disturbed' \subseteq Batches
  BY <1>1 DEF Abandon, ImportsTyped, CallTyped, ImportTypeOK
<1>3. CallTyped(NoCall)
  BY DEF CallTyped, NoCall
<1>4. DOMAIN call' = Callers /\ \A d \in Callers : CallTyped(call'[d])
  BY <1>1, <1>3 DEF ImportsTyped
<1> QED BY <1>1, <1>2, <1>4 DEF ImportsTyped, ImportTypeOK

LEMMA ImportsStayTyped ==
  ASSUME ImportsTyped, ImportNext, UNCHANGED syncVars
  PROVE  ImportsTyped'
<1>1. UNCHANGED run
  BY DEF syncVars
<1>2. CASE \E b \in Batches, s \in Statements, account \in BookAccounts \cup {NoAccount} : Analyze(b, s, account)
  BY <1>1, <1>2, AnalyzeTyped
<1>3. ASSUME NEW c \in Callers, NEW b \in DOMAIN batch, BeginRemap(c, b) \/ BeginDiscard(c, b)
      PROVE  ImportsTyped'
  <2>1. \E stage \in {"remap", "discard"} : \E account : Load(c, b, stage, account, {})
    BY <1>3 DEF BeginRemap, BeginDiscard
  <2> QED BY <1>1, <2>1, LoadTyped
<1>4. ASSUME NEW c \in Callers, NEW b \in DOMAIN batch, NEW account \in BookAccounts,
             NEW rows \in Submissions(b), BeginCommit(c, b, account, rows)
      PROVE  ImportsTyped'
  <2>1. batch[b].draft \subseteq DraftRow
    BY DEF ImportsTyped, ImportTypeOK, BatchRow
  <2>2. \A r \in DraftRow : [r EXCEPT !.isDuplicate = FALSE] \in DraftRow
    BY DEF DraftRow
  <2>3. rows \subseteq DraftRow
    BY <2>1, <2>2 DEF Submissions
  <2>4. \E stage : Load(c, b, stage, account, rows)
    BY <1>4 DEF BeginCommit
  <2> QED BY <1>1, <2>3, <2>4, LoadTyped
<1>5. ASSUME NEW c \in Callers,
             EndRemap(c) \/ InsertRows(c) \/ SaveCommit(c) \/ EndDiscard(c) \/ Abandon(c)
      PROVE  ImportsTyped'
  BY <1>1, <1>5, EndsTyped, InsertRowsTyped, AbandonTyped
<1> QED BY <1>2, <1>3, <1>4, <1>5 DEF ImportNext, ImportRequests

(* A step of a synchronisation. *)

LEMMA PersistTyped ==
  ASSUME ImportsTyped, BrokerInv, NEW w \in Runners, Persist(w), UNCHANGED importVars
  PROVE  ImportsTyped'
<1> DEFINE q == run[w]
<1>1. PICK entities \in ToEntities(q.g, q.rows) :
        \E new \in InsertOrIgnore(entities) : booked' = booked \cup new
  BY DEF Persist
<1>2. booked' \subseteq booked \cup entities
  BY <1>1 DEF InsertOrIgnore
<1>3. Priced(q.rows) = {} \/ q.g \in 1 .. MaxConnections
  <2>1. Writable(q)
    BY DEF Persist
  <2>2. external \subseteq 1 .. made /\ made \in 1 .. MaxConnections
    BY DEF BrokerInv, SyncTypeOK
  <2>3. 1 .. made \subseteq 1 .. MaxConnections
    BY <2>2, BrokerSyncAssumption
  <2> HIDE DEF q
  <2> QED BY <2>1, <2>2, <2>3, Zenon DEF Writable
<1>4. \A row \in q.rows : IsNamed(row)
  BY DEF ImportsTyped, Persist
<1>5. entities \subseteq OperationRow
  <2> HIDE DEF q
  <2> SUFFICES ASSUME NEW e \in entities PROVE e \in OperationRow
    OBVIOUS
  <2>1. /\ Shaped(e) /\ e.connection = q.g /\ e.account = q.g /\ e.batch = NoSource
        /\ \E row \in Priced(q.rows) : e.ref = row.ref /\ e.key \in StoredAs(row.key)
    BY <1>1, EntitiesFromRows
  <2>2. PICK row \in Priced(q.rows) : e.ref = row.ref /\ e.key \in StoredAs(row.key)
    BY <2>1
  <2>3. IsNamed(row)
    BY <1>4 DEF Priced
  <2>4. StoredAs(row.key) \subseteq NaturalKeys
    BY <2>3, ConversionsAssumption DEF StoredAs, IsNamed
  <2>5. q.g \in BookAccounts /\ q.g \in Nat
    BY <1>3, <2>2, BrokerSyncAssumption
  <2> QED BY <2>1, <2>2, <2>3, <2>4, <2>5 DEF OperationRow, IsNamed, Shaped
<1>6. booked' \subseteq OperationRow
  BY <1>1, <1>2, <1>5 DEF ImportsTyped, ImportTypeOK
<1>7. \A v \in Runners : run'[v].stage = "persist" => run'[v] = run[v]
  <2>1. run' = [run EXCEPT ![w] = [q EXCEPT !.stage = "cursor", !.rows = {}]]
    BY DEF Persist
  <2>2. FetchedShape(q)
    BY InCourseFields DEF Persist, FetchedWell
  <2>3. [q EXCEPT !.stage = "cursor", !.rows = {}].stage # "persist"
    BY <2>2 DEF FetchedShape
  <2> HIDE DEF q
  <2> QED BY <2>1, <2>3 DEF BrokerInv
<1> QED BY <1>6, <1>7 DEF ImportsTyped, ImportTypeOK, importVars

LEMMA FetchTyped ==
  ASSUME ImportsTyped, BrokerInv, NEW w \in Runners, Fetch(w), UNCHANGED importVars
  PROVE  ImportsTyped'
<1> DEFINE q == run[w]
           traded == TradedSymbols(q.g)
<1>1. PICK result \in FetchTransactions(q.broker, q.loaded, traded, today) :
        run' = [run EXCEPT ![w] = [stage |-> "persist", g |-> q.g, broker |-> q.broker,
                  loaded |-> q.loaded, rows |-> result.rows, next |-> result.cursor,
                  warned |-> result.warned, day |-> today, traded |-> traded]]
  BY DEF Fetch
<1>2. q.broker \in ConnectedBrokers /\ today \in 0 .. EndDay
  BY InCourseFields, ConnectionFields DEF Fetch, BrokerInv
<1>3. \A row \in result.rows : IsNamed(row)
  <2> HIDE DEF q, traded
  <2> QED BY <1>1, <1>2, FetchedNamed
<1> HIDE DEF q, traded
<1>4. \A v \in Runners : run'[v].stage = "persist" => run'[v] = run[v] \/ run'[v].rows = result.rows
  BY <1>1 DEF BrokerInv
<1> QED BY <1>3, <1>4 DEF ImportsTyped, ImportTypeOK, importVars, Fetch

LEMMA SyncStaysTyped ==
  ASSUME ImportsTyped, BrokerInv, SyncNext, UNCHANGED importVars
  PROVE  ImportsTyped'
<1>1. ASSUME NEW w \in Runners, Persist(w) \/ Fetch(w) PROVE ImportsTyped'
  BY <1>1, PersistTyped, FetchTyped
<1>2. ASSUME booked' \subseteq OperationRow,
             \A w \in Runners : run'[w].stage = "persist" => run'[w] = run[w]
      PROVE  ImportsTyped'
  BY <1>2 DEF ImportsTyped, ImportTypeOK, importVars
<1>3. booked \subseteq OperationRow /\ DOMAIN run = Runners
  BY DEF ImportsTyped, ImportTypeOK, BrokerInv
<1>4. CASE Manage
  <2>1. UNCHANGED run
    BY <1>4 DEF Manage, CreateConnection, RemoveConnection, VerifyConnection, UpdateConnection,
       RemoveExternalAccount
  <2>2. \A r \in OperationRow : [r EXCEPT !.connection = NoSource] \in OperationRow
    BY DEF OperationRow
  <2>3. booked' \subseteq OperationRow
    BY <1>3, <1>4, <2>2 DEF Manage, CreateConnection, RemoveConnection, VerifyConnection, UpdateConnection,
       RemoveExternalAccount
  <2> QED BY <1>2, <2>1, <2>3
<1>5. CASE StoreCredentials \/ CrashSync \/ NextDay
  BY <1>2, <1>3, <1>5 DEF StoreCredentials, CrashSync, NextDay, Idle
<1>6. ASSUME NEW w \in Runners,
             StartSync(w) \/ EnsureAccount(w) \/ SetCursor(w) \/ FinishSync(w) \/ FailSync(w)
      PROVE  ImportsTyped'
  <2>1. booked' = booked
    BY <1>6 DEF StartSync, EnsureAccount, SetCursor, FinishSync, FailSync
  <2>2. \E r : run' = [run EXCEPT ![w] = r] /\ r.stage # "persist"
    <3>1. CASE StartSync(w)
      <4> DEFINE r == [stage |-> "account", g |-> made, sealed |-> conn.sealed,
                       broker |-> conn.broker, loaded |-> conn.cursor]
      <4>1. run' = [run EXCEPT ![w] = r]
        BY <3>1 DEF StartSync
      <4>2. r.stage = "account"
        OBVIOUS
      <4> HIDE DEF r
      <4> QED BY <4>1, <4>2
    <3>2. CASE EnsureAccount(w)
      <4>1. run[w] \in BegunRun
        BY <3>2, InCourseFields DEF EnsureAccount, Begun
      <4>2. [run[w] EXCEPT !.stage = "fetch"].stage = "fetch"
        BY <4>1 DEF BegunRun
      <4>3. run' = [run EXCEPT ![w] = [run[w] EXCEPT !.stage = "fetch"]]
        BY <3>2 DEF EnsureAccount
      <4> QED BY <4>2, <4>3
    <3>3. CASE SetCursor(w)
      <4>1. FetchedShape(run[w])
        BY <3>3, InCourseFields DEF SetCursor, FetchedWell
      <4>2. [run[w] EXCEPT !.stage = "finish", !.next = EmptyCursor].stage = "finish"
        BY <4>1 DEF FetchedShape
      <4>3. run' = [run EXCEPT ![w] = [run[w] EXCEPT !.stage = "finish", !.next = EmptyCursor]]
        BY <3>3 DEF SetCursor
      <4> QED BY <4>2, <4>3
    <3>4. CASE FinishSync(w) \/ FailSync(w)
      <4>1. run' = [run EXCEPT ![w] = Idle]
        BY <3>4 DEF FinishSync, FailSync
      <4>2. Idle.stage = "idle"
        BY DEF Idle
      <4> QED BY <4>1, <4>2
    <3> QED BY <1>6, <3>1, <3>2, <3>3, <3>4
  <2> QED BY <1>2, <1>3, <2>1, <2>2
<1> QED BY <1>1, <1>4, <1>5, <1>6 DEF SyncNext, Synchronise
-----------------------------------------------------------------------------
(* The specification the run checks is one of these, with the modes apart.    *)

ModesInv == BrokerInv /\ ImportsTyped /\ TruthInv

LEMMA ModesInitially == Init => ModesInv
<1> SUFFICES ASSUME Init PROVE ModesInv
  OBVIOUS
<1>1. /\ booked = {} /\ forgotten = {} /\ batch = [b \in {} |-> 0] /\ call = [c \in Callers |-> NoCall]
      /\ promised = [b \in Batches |-> {}] /\ disturbed = {}
      /\ calls = IF exercised = "imports" THEN 0 ELSE MaxCalls - 1
  BY DEF Init
<1>2. TruthInv
  BY <1>1, TruthFirst
<1>3. Labelled
  BY <1>1 DEF Labelled
<1>4. ASSUME exercised = "imports" PROVE BrokerInv
  <2>1. /\ today = EndDay /\ made = MaxConnections /\ conn = NoConnection /\ external = {} /\ lost = {}
        /\ run = [w \in Runners |-> Idle]
    BY <1>4 DEF Init
  <2>2. today \in StartDay .. EndDay /\ made \in 1 .. MaxConnections
    BY <2>1, ArrivalsAssumption, BrokerSyncAssumption
  <2>3. SyncTypeOK /\ ~conn.exists
    BY <1>1, <2>1, <2>2 DEF SyncTypeOK, NoConnection
  <2>4. DOMAIN run = Runners /\ \A w \in Runners : run[w] = Idle
    BY <2>1
  <2>5. \A w \in Runners : Sound(Ever, today, lost, run[w]) /\ Belongs(run[w], conn, made)
    BY <2>4 DEF Sound, Belongs, Idle
  <2> QED BY <1>3, <2>3, <2>4, <2>5 DEF BrokerInv
<1>5. ASSUME exercised # "imports" PROVE BrokerInv
  <2>1. exercised \in ConnectedBrokers
    BY <1>5, ArrivalsAssumption DEF Init
  <2>2. PICK day \in {EndDay - 1, StartDay} : SyncInit(exercised, day)
    BY <1>5 DEF Init
  <2>3. day \in StartDay .. EndDay
    BY <2>2, ArrivalsAssumption, BrokerSyncAssumption
  <2>4. conn \in BrokerConnection /\ conn.cursor = EmptyCursor /\ made = 1
    BY <2>1, <2>2, EmptyCovers DEF SyncInit, BrokerConnection, ConnectionStatus
  <2>5. SyncTypeOK
    BY <1>1, <2>2, <2>3, <2>4, BrokerSyncAssumption DEF SyncTypeOK, SyncInit
  <2>6. DOMAIN run = Runners /\ \A w \in Runners : run[w] = Idle
    BY <2>2 DEF SyncInit
  <2>7. \A w \in Runners : Sound(Ever, today, lost, run[w]) /\ Belongs(run[w], conn, made)
    BY <2>6 DEF Sound, Belongs, Idle
  <2> QED BY <1>3, <2>4, <2>5, <2>6, <2>7, EmptyCovers DEF BrokerInv
<1>6. BrokerInv
  BY <1>4, <1>5
<1>7. ImportsTyped
  <2>1. calls \in 0 .. MaxCalls
    BY <1>1, ArrivalsAssumption, ImportAssumption
  <2>2. DOMAIN batch = {} /\ DOMAIN call = Callers /\ \A c \in Callers : call[c].stage = "none"
    BY <1>1 DEF NoCall
  <2>3. \A w \in Runners : run[w].stage = "idle"
    BY DEF Init, SyncInit, Idle
  <2> QED BY <1>1, <2>1, <2>2, <2>3 DEF ImportsTyped, ImportTypeOK, CallTyped
<1> QED BY <1>2, <1>6, <1>7 DEF ModesInv

\* What a mode allows is a step of the imports or of the synchronisations.
LEMMA ModesStep == [Next]_vars => [ArrivalsNext]_arrivalVars
<1> SUFFICES ASSUME [Next]_vars PROVE [ArrivalsNext]_arrivalVars
  OBVIOUS
<1>1. ASSUME ImportBeside PROVE ImportNext
  <2>1. 1 \in BookAccounts /\ b1 \in Batches
    <3>1. 1 \in 1 .. MaxConnections
      BY BrokerSyncAssumption
    <3> QED BY <3>1, ArrivalsAssumption, BrokerSyncAssumption
  <2>2. ASSUME NEW s \in Statements, Analyze(b1, s, 1) PROVE ImportNext
    BY <2>1, <2>2 DEF ImportNext
  <2>3. ASSUME NEW c \in Callers, b1 \in DOMAIN batch, BeginCommit(c, b1, 1, batch[b1].draft)
        PROVE  ImportNext
    <3>1. batch[b1].draft \in Submissions(b1)
      BY DEF Submissions
    <3>2. ImportRequests(c)
      BY <2>1, <2>3, <3>1 DEF ImportRequests
    <3> QED BY <3>2 DEF ImportNext
  <2>4. ASSUME NEW c \in Callers, InsertRows(c) \/ SaveCommit(c) PROVE ImportNext
    BY <2>4 DEF ImportNext, ImportRequests
  <2> QED BY <1>1, <2>2, <2>3, <2>4 DEF ImportBeside
<1>2. CASE Next
  BY <1>1, <1>2 DEF Next, ArrivalsNext, SyncNext
<1>3. CASE UNCHANGED vars
  BY <1>3 DEF vars, arrivalVars
<1> QED BY <1>2, <1>3

LEMMA TypesStep == ImportsTyped /\ BrokerInv /\ [ArrivalsNext]_arrivalVars => ImportsTyped'
<1> SUFFICES ASSUME ImportsTyped, BrokerInv, [ArrivalsNext]_arrivalVars PROVE ImportsTyped'
  OBVIOUS
<1>1. CASE UNCHANGED arrivalVars
  <2>1. UNCHANGED <<booked, batch, call, calls, disturbed, run>>
    BY <1>1 DEF arrivalVars, importVars, syncVars
  <2> QED BY <2>1 DEF ImportsTyped, ImportTypeOK
<1> QED BY <1>1, ImportsStayTyped, SyncStaysTyped DEF ArrivalsNext

LEMMA ModesKeep == ModesInv /\ [Next]_vars => ModesInv'
BY ModesStep, BrokersStep, TypesStep, TruthStep DEF ModesInv

(* In whichever mode, the rows of the book, the batches with their drafts and     *)
(* the connection with its cursor and its account keep their types: what a        *)
(* request or a synchronisation carries between its steps is never something      *)
(* else than a row of what it loaded.                                             *)
THEOREM ArrivalsTypeCorrect == Spec => []TypeOK
<1>1. ModesInv => TypeOK
  BY DEF ModesInv, BrokerInv, ImportsTyped, TypeOK
<1> QED BY <1>1, ModesInitially, ModesKeep, PTL DEF Spec

(* The three promises together hold of the specification the run checks, where    *)
(* a statement is imported beside a synchronisation that is in course.            *)
THEOREM ArrivalsKeepTheBook == Spec => [](BatchTellsTruth /\ BrokerCaught /\ CursorNotAhead)
<1>1. ModesInv => BatchTellsTruth /\ BrokerCaught /\ CursorNotAhead
  BY TruthTold, InvCatches, InvNotAhead DEF ModesInv
<1> QED BY <1>1, ModesInitially, ModesKeep, PTL DEF Spec
=============================================================================
