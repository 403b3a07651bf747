-------------------------- MODULE StatementImport --------------------------
(***************************************************************************)
(* Statements imported from a file (import/import.service.ts): analyze     *)
(* stores a draft in a batch, remap parses the archived file again, commit *)
(* inserts the importable rows and then saves the batch, discard drops it. *)
(* Each request loads the batch, works on its copy and saves the whole     *)
(* entity; only the insert and the rebuild are in a transaction.           *)
(***************************************************************************)
EXTENDS OperationIndex

CONSTANTS
  Batches,       \* ids of the batches
  Statements,    \* the files: [lines |-> set of Line, kind |-> "table" or "pdf"]
  Callers,       \* requests that may be in course
  NoAccount,     \* analyze was given no account
  MaxCalls       \* bound: requests after the analyses

VARIABLES
  batch,      \* import_batches: id |-> row
  call,       \* the request each caller has in course
  calls,      \* requests so far
  promised,   \* history: batch |-> what its saved confirmations submitted
  disturbed   \* history: batches two requests held at once, or that a failure
              \* caught between the insert and the save

importVars == <<batch, call, calls, promised, disturbed>>

ImportStatus == {"parsed", "committed", "failed", "discarded"}

\* A line of a file: its key, the reference it brings, whether the profile that
\* was detected reads it, and whether its instrument is known.
Line == [key : NaturalKeys, ref : References \cup {NoReference},
         read : BOOLEAN, known : BOOLEAN]

\* InvestmentTransactionDraft, for what commit looks at.
DraftRow == [key : NaturalKeys, ref : References \cup {NoReference}, errors : BOOLEAN,
             isDuplicate : BOOLEAN, needsInstrument : BOOLEAN]

BatchRow == [status : ImportStatus, account : BookAccounts \cup {NoAccount},
             file : BOOLEAN, lines : SUBSET Line, draft : SUBSET DraftRow]

ASSUME ImportAssumption ==
  /\ MaxCalls \in Nat /\ NoAccount \notin BookAccounts /\ NoSource \notin Batches
  /\ NoReference \notin References /\ Batches \subseteq STRING
  /\ \A s \in Statements : s.lines \subseteq Line /\ s.kind \in {"table", "pdf"}

NoCall == [stage |-> "none"]
Holding(b) == {c \in Callers : call[c].stage # "none" /\ call[c].id = b}

ImportInit ==
  /\ batch = [b \in {} |-> 0]
  /\ call = [c \in Callers |-> NoCall]
  /\ calls = 0
  /\ promised = [b \in Batches |-> {}]
  /\ disturbed = {}

-----------------------------------------------------------------------------
(* The draft *)

\* markDuplicates needs the account: the hash is computed with it.
Known(account, key) ==
  account # NoAccount /\ \E r \in booked : DedupeHash(r) = DedupeHash([account |-> account, key |-> key, ref |-> r.ref])

\* buildRow: a mapping the user corrects may read lines the profile did not.
BuildRow(line, account, corrected) ==
  LET bad == ~(line.read \/ corrected)
  IN [key |-> line.key, ref |-> line.ref, errors |-> bad,
      isDuplicate |-> ~bad /\ Known(account, line.key),
      needsInstrument |-> ~line.known]

\* In a bucket of rows with one hash the first enters and the others are
\* duplicates; here the lines of a file that share a key bring several references.
Bucket(rows, row) == {r \in rows : r.key = row.key /\ ~r.errors}
BuildRows(lines, account, corrected) ==
  LET rows == {BuildRow(l, account, corrected) : l \in lines}
      first(row) == row = CHOOSE r \in Bucket(rows, row) : TRUE
  IN {IF row.errors \/ account = NoAccount \/ first(row) THEN row
      ELSE [row EXCEPT !.isDuplicate = TRUE] : row \in rows}

\* A PDF is not archived: there are no columns to map again.
Analyze(b, statement, account) ==
  /\ b \notin DOMAIN batch
  /\ batch' = [x \in DOMAIN batch \cup {b} |->
       IF x = b
       THEN [status |-> "parsed", account |-> account, file |-> statement.kind = "table",
             lines |-> statement.lines, draft |-> BuildRows(statement.lines, account, FALSE)]
       ELSE batch[x]]
  /\ UNCHANGED <<booked, forgotten, call, calls, promised, disturbed>>

-----------------------------------------------------------------------------
(* The requests on a batch *)

Importable(rows) == {r \in rows : ~r.errors /\ ~r.isDuplicate /\ ~r.needsInstrument}

Disturb(b) == disturbed' = IF Holding(b) # {} THEN disturbed \cup {b} ELSE disturbed

\* findBatch: the copy the request works on.
Load(c, b, stage, account, rows) ==
  /\ call[c].stage = "none" /\ calls < MaxCalls /\ b \in DOMAIN batch
  /\ call' = [call EXCEPT ![c] = [stage |-> stage, id |-> b, copy |-> batch[b],
                                  account |-> account, rows |-> rows]]
  /\ calls' = calls + 1
  /\ Disturb(b)
  /\ UNCHANGED <<booked, forgotten, batch, promised>>

Save(c, row) ==
  /\ batch' = [batch EXCEPT ![call[c].id] = row]
  /\ call' = [call EXCEPT ![c] = NoCall]

\* The status of the batch is not looked at; the archived file is.
BeginRemap(c, b) == batch[b].file /\ Load(c, b, "remap", batch[b].account, {})

EndRemap(c) ==
  /\ call[c].stage = "remap"
  /\ LET copy == call[c].copy
     IN Save(c, [copy EXCEPT !.draft = BuildRows(copy.lines, copy.account, TRUE)])
  /\ UNCHANGED <<booked, forgotten, calls, promised, disturbed>>

\* The rows to confirm: the stored draft, or the one the user edited, with the
\* duplicates unmarked.
Submissions(b) ==
  {batch[b].draft, {[r EXCEPT !.isDuplicate = FALSE] : r \in batch[b].draft}}

\* A committed batch answers with its figures, a discarded one with an error.
\* A confirmation with nothing importable inserts nothing.
BeginCommit(c, b, account, rows) ==
  /\ batch[b].status \notin {"committed", "discarded"}
  /\ Load(c, b, IF Importable(rows) = {} THEN "save" ELSE "insert", account, rows)

Entity(c, row) == [account |-> call[c].account, key |-> row.key, ref |-> row.ref,
                   connection |-> NoSource, batch |-> call[c].id]

\* The transaction: the insert and the rebuild of the positions.
InsertRows(c) ==
  /\ call[c].stage = "insert"
  /\ \E new \in InsertOrIgnore({Entity(c, r) : r \in Importable(call[c].rows)}) :
       booked' = booked \cup new
  /\ call' = [call EXCEPT ![c].stage = "save"]
  /\ UNCHANGED <<forgotten, batch, calls, promised, disturbed>>

SaveCommit(c) ==
  /\ call[c].stage = "save"
  /\ Save(c, [call[c].copy EXCEPT !.status = "committed", !.account = call[c].account,
                                  !.file = FALSE])
  /\ promised' = [promised EXCEPT ![call[c].id] =
                    {DedupeHash(Entity(c, r)) : r \in Importable(call[c].rows)}]
  /\ UNCHANGED <<booked, forgotten, calls, disturbed>>

\* Mutant of BeginDiscard: the status is not looked at.
BeginDiscard_AnyStatus(c, b) == Load(c, b, "discard", NoAccount, {})

BeginDiscard(c, b) ==
  /\ batch[b].status # "committed"
  /\ Load(c, b, "discard", NoAccount, {})

EndDiscard(c) ==
  /\ call[c].stage = "discard"
  /\ Save(c, [call[c].copy EXCEPT !.status = "discarded", !.file = FALSE, !.draft = {}])
  /\ UNCHANGED <<booked, forgotten, calls, promised, disturbed>>

\* A crash, the replay of the positions failing, a failed statement or a failed
\* request for prices after the insert: the caller gets an error and may retry.
Abandon(c) ==
  /\ call[c].stage \in {"remap", "insert", "save", "discard"}
  /\ call' = [call EXCEPT ![c] = NoCall]
  /\ disturbed' = IF call[c].stage = "save" THEN disturbed \cup {call[c].id} ELSE disturbed
  /\ UNCHANGED <<booked, forgotten, batch, calls, promised>>

ImportRequests(c) ==
  \/ \E b \in DOMAIN batch :
       \/ BeginRemap(c, b)
       \/ \E account \in BookAccounts, rows \in Submissions(b) : BeginCommit(c, b, account, rows)
       \/ BeginDiscard(c, b)
  \/ EndRemap(c) \/ InsertRows(c) \/ SaveCommit(c) \/ EndDiscard(c) \/ Abandon(c)

ImportNext ==
  \/ \E b \in Batches, s \in Statements, account \in BookAccounts \cup {NoAccount} : Analyze(b, s, account)
  \/ \E c \in Callers : ImportRequests(c)

-----------------------------------------------------------------------------
ImportTypeOK ==
  /\ booked \subseteq OperationRow
  /\ \A b \in DOMAIN batch : b \in Batches /\ batch[b] \in BatchRow
  /\ calls \in 0 .. MaxCalls /\ disturbed \subseteq Batches

\* What a batch says of itself can be believed.  Committed: every row its
\* confirmation submitted is in the book, its account permitting.  Anything else: it put nothing there,
\* unless two requests had it at once or one failed between insert and save,
\* which is what lets remap or discard write over a confirmation.
BatchTellsTruth ==
  \A b \in DOMAIN batch :
    /\ batch[b].status = "committed" => promised[b] \subseteq {DedupeHash(t) : t \in Ever}
    /\ batch[b].status # "committed" /\ Holding(b) = {} /\ b \notin disturbed
         => \A r \in booked : r.batch # b
=============================================================================
