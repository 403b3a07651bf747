--------------------------- MODULE MailIngestion ---------------------------
(***************************************************************************)
(* MailIngestionService: from a mail with an electronic invoice to an       *)
(* expense.  The push, the hourly job, the reading of old mails and the     *)
(* user's retry run it concurrently.  Every step of a worker is one         *)
(* statement on the database (or one call to Gmail) of ingest, retry or     *)
(* process; there is no transaction around them.                            *)
(***************************************************************************)
EXTENDS Naturals, FiniteSets

CONSTANTS
  Messages,   \* mails of one mailbox, from configured senders
  Cufes,      \* invoices
  Carries,    \* the invoice a mail carries, or NoInvoice
  Workers,    \* executions of ingest or retry that can overlap
  Expenses,   \* expense ids the database may hand out
  Faults,     \* what may go wrong, besides a call that fails (see AllFaults)
  None, NoInvoice, Unused, Removed

(* crash              the process dies between two statements, except in the  *)
(*                    window between the expense and the link                 *)
(* crashBeforeLink    it dies in that window                                  *)
(* errorAfterCommit   ExpensesService.create commits and then throws (it      *)
(*                    reads the expense back after its transaction)           *)
(* errorBeforeLink    the update that links the reservation fails             *)
(* errorInFinish      the update that writes the final status fails           *)
(* errorOutside       a statement of ingest or retry outside process fails    *)
(* overlappingRetry   the user retries a mail another worker is processing    *)
(* disconnect         the user disconnects the mailbox, with no worker busy   *)
(* disconnectInFlight and also while one is                                   *)
AllFaults ==
  {"crash", "crashBeforeLink", "errorAfterCommit", "errorBeforeLink",
   "errorInFinish", "errorOutside", "overlappingRetry", "disconnect",
   "disconnectInFlight"}

Statuses == {"absent", "processing", "registered", "duplicate", "noInvoice", "failed"}
RETRYABLE == {"failed", "processing"}
Steps == {"idle", "releaseStale", "mark", "fetch", "reserve", "register", "release",
          "link", "finish"}

Reservation == [by : Workers, message : Messages \cup {None},
                expense : Expenses \cup {None}]

ASSUME MailIngestionAssumption ==
  /\ Carries \in [Messages -> Cufes \cup {NoInvoice}]
  /\ Faults \subseteq AllFaults
  /\ NoInvoice \notin Cufes /\ Unused \notin Cufes /\ Removed \notin Cufes
  /\ Unused # Removed
  /\ None \notin Messages /\ None \notin Expenses /\ None \notin Reservation

VARIABLES
  status,     \* mail_messages.status; "absent" when there is no row
  link,       \* mail_messages.expense_id
  reserved,   \* mail_invoices by CUFE: who reserved it, for which mail, its expense
  expenseOf,  \* expenses: Unused, Removed, or the invoice it registers
  worker      \* where each execution stands

vars == <<status, link, reserved, expenseOf, worker>>

WorkerState == [step : Steps, message : Messages \cup {None},
                expense : Expenses \cup {None}, outcome : Statuses, row : BOOLEAN]

Idle == [step |-> "idle", message |-> None, expense |-> None,
         outcome |-> "absent", row |-> FALSE]

At(w, s) == worker[w].step = s
Busy(m) == \E w \in Workers : ~At(w, "idle") /\ worker[w].row /\ worker[w].message = m
Invoice(w) == Carries[worker[w].message]
Registered(c) == \E e \in Expenses : expenseOf[e] = c

GoTo(w, s) == worker' = [worker EXCEPT ![w].step = s]
Finish(w, o) == worker' = [worker EXCEPT ![w].step = "finish", ![w].outcome = o]
Rest(w) == worker' = [worker EXCEPT ![w] = Idle]

-----------------------------------------------------------------------------
(* INSERT ... ON CONFLICT DO NOTHING on (connection_id, gmail_message_id):   *)
(* only who inserts the row goes on to process the mail                      *)
Ingest(w, m) ==
  /\ At(w, "idle")
  /\ status[m] = "absent"
  /\ status' = [status EXCEPT ![m] = "processing"]
  /\ link' = [link EXCEPT ![m] = None]
  /\ \/ worker' = [worker EXCEPT ![w] = [Idle EXCEPT !.step = "fetch", !.message = m,
                                                     !.row = TRUE]]
     \/ "errorOutside" \in Faults /\ UNCHANGED worker  \* findOneByOrFail
  /\ UNCHANGED <<reserved, expenseOf>>

BeginRetry(w, m) ==
  /\ At(w, "idle")
  /\ status[m] \in RETRYABLE
  /\ "overlappingRetry" \in Faults \/ ~Busy(m)
  /\ worker' = [worker EXCEPT ![w] = [Idle EXCEPT !.step = "releaseStale", !.message = m,
                                                  !.row = TRUE]]
  /\ UNCHANGED <<status, link, reserved, expenseOf>>

Stale_WithExpense(w, c) ==  \* mutant: the expense need not be NULL
  /\ reserved[c] # None
  /\ worker[w].row /\ reserved[c].message = worker[w].message

Stale(w, c) ==
  /\ reserved[c] # None
  /\ worker[w].row /\ reserved[c].message = worker[w].message
  /\ reserved[c].expense = None

(* a crash leaves the invoice reserved without an expense: it is released *)
ReleaseStale(w) ==
  /\ At(w, "releaseStale")
  /\ \/ /\ reserved' = [c \in Cufes |-> IF Stale(w, c) THEN None ELSE reserved[c]]
        /\ GoTo(w, "mark")
     \/ "errorOutside" \in Faults /\ Rest(w) /\ UNCHANGED reserved
  /\ UNCHANGED <<status, link, expenseOf>>

Mark(w) ==
  /\ At(w, "mark")
  /\ \/ /\ status' = IF worker[w].row
                     THEN [status EXCEPT ![worker[w].message] = "processing"]
                     ELSE status
        /\ GoTo(w, "fetch")
     \/ "errorOutside" \in Faults /\ Rest(w) /\ UNCHANGED status
  /\ UNCHANGED <<link, reserved, expenseOf>>

Fetch_Uncaught(w) ==  \* mutant: an exception of the parser ends the worker
  /\ At(w, "fetch")
  /\ \/ Invoice(w) # NoInvoice /\ GoTo(w, "reserve")
     \/ Invoice(w) = NoInvoice /\ Finish(w, "noInvoice")
     \/ Rest(w)
  /\ UNCHANGED <<status, link, reserved, expenseOf>>

(* attachments, XML, parser: an invoice, none, or an exception *)
Fetch(w) ==
  /\ At(w, "fetch")
  /\ \/ Invoice(w) # NoInvoice /\ GoTo(w, "reserve")
     \/ Invoice(w) = NoInvoice /\ Finish(w, "noInvoice")
     \/ Finish(w, "failed")
  /\ UNCHANGED <<status, link, reserved, expenseOf>>

CanReserve_NoConflict(w) == worker[w].row  \* mutant: no unique (user_id, cufe)

CanReserve(w) ==
  /\ reserved[Invoice(w)] = None
  /\ worker[w].row  \* the foreign key to mail_messages

ReserveFails_AsDuplicate(w) == Finish(w, "duplicate")  \* mutant: read as a conflict

(* what happens when the INSERT itself fails *)
ReserveFails(w) == Finish(w, "failed")

(* INSERT ... ON CONFLICT DO NOTHING on (user_id, cufe) *)
Reserve(w) ==
  /\ At(w, "reserve")
  /\ \/ /\ CanReserve(w)
        /\ reserved' = [reserved EXCEPT ![Invoice(w)] =
                          [by |-> w, message |-> worker[w].message, expense |-> None]]
        /\ GoTo(w, "register")
     \/ reserved[Invoice(w)] # None /\ Finish(w, "duplicate") /\ UNCHANGED reserved
     \/ ReserveFails(w) /\ UNCHANGED reserved
  /\ UNCHANGED <<status, link, expenseOf>>

Register_NoExpense(w) ==  \* mutant: a refused expense goes on to the link
  /\ At(w, "register")
  /\ \/ \E e \in Expenses :
          /\ expenseOf[e] = Unused
          /\ expenseOf' = [expenseOf EXCEPT ![e] = Invoice(w)]
          /\ worker' = [worker EXCEPT ![w].step = "link", ![w].expense = e]
     \/ GoTo(w, "link") /\ UNCHANGED expenseOf
  /\ UNCHANGED <<status, link, reserved>>

(* registerExpense: the expense is created, or refused (no credit, no account) *)
Register(w) ==
  /\ At(w, "register")
  /\ \/ \E e \in Expenses :
          /\ expenseOf[e] = Unused
          /\ expenseOf' = [expenseOf EXCEPT ![e] = Invoice(w)]
          /\ \/ worker' = [worker EXCEPT ![w].step = "link", ![w].expense = e]
             \/ "errorAfterCommit" \in Faults /\ GoTo(w, "release")
     \/ GoTo(w, "release") /\ UNCHANGED expenseOf
  /\ UNCHANGED <<status, link, reserved>>

(* the reservation a worker inserted may have been deleted under it: its     *)
(* statements name the id of the row, and then touch nothing                 *)
Holds(w) == reserved[Invoice(w)] # None /\ reserved[Invoice(w)].by = w

(* the reservation is deleted (or that fails) so that a retry can register it *)
Release(w) ==
  /\ At(w, "release")
  /\ \/ Holds(w) /\ reserved' = [reserved EXCEPT ![Invoice(w)] = None]
     \/ UNCHANGED reserved
  /\ Finish(w, "failed")
  /\ UNCHANGED <<status, link, expenseOf>>

(* the reservation is given its expense; the foreign key refuses one that    *)
(* the user has removed meanwhile                                            *)
Link(w) ==
  LET e == worker[w].expense IN
  /\ At(w, "link")
  /\ \/ /\ expenseOf[e] # Removed
        /\ reserved' = IF Holds(w) THEN [reserved EXCEPT ![Invoice(w)].expense = e]
                       ELSE reserved
        /\ Finish(w, "registered")
     \/ /\ expenseOf[e] = Removed \/ "errorBeforeLink" \in Faults
        /\ Finish(w, "failed")
        /\ UNCHANGED reserved
  /\ UNCHANGED <<status, link, expenseOf>>

(* the update of the final status; a registered mail names its expense *)
FinishStep(w) ==
  LET m == worker[w].message
      e == IF worker[w].outcome = "registered" THEN worker[w].expense ELSE None
      dangling == e # None /\ expenseOf[e] = Removed
      fails == dangling \/ "errorInFinish" \in Faults
  IN
  /\ At(w, "finish")
  /\ \/ /\ ~dangling
        /\ status' = IF worker[w].row THEN [status EXCEPT ![m] = worker[w].outcome]
                     ELSE status
        /\ link' = IF worker[w].row THEN [link EXCEPT ![m] = e] ELSE link
        /\ Rest(w)
     \/ /\ fails /\ worker[w].outcome = "registered"
        /\ Finish(w, "failed")  \* caught by process
        /\ UNCHANGED <<status, link>>
     \/ /\ fails /\ worker[w].outcome # "registered"
        /\ Rest(w)  \* nobody catches it
        /\ UNCHANGED <<status, link>>
  /\ UNCHANGED <<reserved, expenseOf>>

-----------------------------------------------------------------------------
RemoveExpense_KeepLink(e) ==  \* mutant: mail_messages.expense_id is left alone
  /\ expenseOf[e] \in Cufes
  /\ expenseOf' = [expenseOf EXCEPT ![e] = Removed]
  /\ reserved' = [c \in Cufes |->
       IF reserved[c] # None /\ reserved[c].expense = e
       THEN [reserved[c] EXCEPT !.expense = None] ELSE reserved[c]]
  /\ UNCHANGED <<status, link, worker>>

(* The user deletes the expense: both references to it are set to NULL *)
RemoveExpense(e) ==
  /\ expenseOf[e] \in Cufes
  /\ expenseOf' = [expenseOf EXCEPT ![e] = Removed]
  /\ link' = [m \in Messages |-> IF link[m] = e THEN None ELSE link[m]]
  /\ reserved' = [c \in Cufes |->
       IF reserved[c] # None /\ reserved[c].expense = e
       THEN [reserved[c] EXCEPT !.expense = None] ELSE reserved[c]]
  /\ UNCHANGED <<status, worker>>

(* The mailbox is disconnected: its mails go (CASCADE), the invoices stay    *)
(* with no mail (SET NULL) and whoever was busy works on a row that is gone  *)
Disconnect ==
  /\ \/ "disconnect" \in Faults /\ \A w \in Workers : At(w, "idle")
     \/ "disconnectInFlight" \in Faults
  /\ status' = [m \in Messages |-> "absent"]
  /\ link' = [m \in Messages |-> None]
  /\ reserved' = [c \in Cufes |-> IF reserved[c] = None THEN None
                                  ELSE [reserved[c] EXCEPT !.message = None]]
  /\ worker' = [w \in Workers |-> [worker[w] EXCEPT !.row = FALSE]]
  /\ UNCHANGED expenseOf

(* the process dies: what was in memory is gone, the tables stay *)
Crash ==
  /\ \/ "crash" \in Faults /\ \A w \in Workers : ~At(w, "link")
     \/ "crashBeforeLink" \in Faults
  /\ worker' = [w \in Workers |-> Idle]
  /\ UNCHANGED <<status, link, reserved, expenseOf>>

-----------------------------------------------------------------------------
Init ==
  /\ status = [m \in Messages |-> "absent"]
  /\ link = [m \in Messages |-> None]
  /\ reserved = [c \in Cufes |-> None]
  /\ expenseOf = [e \in Expenses |-> Unused]
  /\ worker = [w \in Workers |-> Idle]

Step(w) ==
  \/ ReleaseStale(w) \/ Mark(w) \/ Fetch(w) \/ Reserve(w) \/ Register(w)
  \/ Release(w) \/ Link(w) \/ FinishStep(w)

Next ==
  \/ \E w \in Workers : Step(w) \/ \E m \in Messages : Ingest(w, m) \/ BeginRetry(w, m)
  \/ \E e \in Expenses : RemoveExpense(e)
  \/ Disconnect
  \/ Crash

Spec == Init /\ [][Next]_vars

(* every awaited call settles, so a worker that has begun goes on *)
FairSpec == Spec /\ \A w \in Workers : WF_vars(Step(w))

-----------------------------------------------------------------------------
(* a worker has in hand what its next statement uses *)
Equipped(s) ==
  /\ s.step # "idle" => s.message \in Messages
  /\ s.step \in {"reserve", "register", "release", "link"} => Carries[s.message] \in Cufes
  /\ s.step = "link" => s.expense \in Expenses
  /\ s.step = "finish" => s.outcome \in Statuses \ {"absent", "processing"}
  /\ s.step = "finish" /\ s.outcome = "registered" => s.expense \in Expenses

(* The tables hold what their columns allow, and every worker has in hand    *)
(* what its next statement uses.                                             *)
TypeOK ==
  /\ status \in [Messages -> Statuses]
  /\ link \in [Messages -> Expenses \cup {None}]
  /\ reserved \in [Cufes -> Reservation \cup {None}]
  /\ expenseOf \in [Expenses -> Cufes \cup {Unused, Removed}]
  /\ worker \in [Workers -> WorkerState]
  /\ \A w \in Workers : Equipped(worker[w])

(* "La misma factura en dos correos distintos se registra una sola vez": no  *)
(* two expenses of the books register the same invoice.                      *)
AtMostOneExpense ==
  \A e, f \in Expenses : expenseOf[e] \in Cufes /\ expenseOf[e] = expenseOf[f] => e = f

(* A mail has one worker at a time, and its row (unless it was deleted).      *)
OneWorkerPerMail ==
  \A w \in Workers : ~At(w, "idle") /\ worker[w].row =>
    /\ status[worker[w].message] # "absent"
    /\ \A v \in Workers : /\ ~At(v, "idle") /\ worker[v].row
                         /\ worker[v].message = worker[w].message
                         => v = w

(* From the reservation to the link, the reservation is still the worker's.   *)
ReservationKept ==
  \A w \in Workers : worker[w].step \in {"register", "release", "link"} =>
    /\ Holds(w)
    /\ reserved[Invoice(w)].expense = None
    /\ reserved[Invoice(w)].message = IF worker[w].row THEN worker[w].message ELSE None

(* An expense of the books is the one its invoice names, or is about to be.   *)
ExpenseHeld ==
  \A e \in Expenses : expenseOf[e] \in Cufes =>
    /\ reserved[expenseOf[e]] # None
    /\ \/ reserved[expenseOf[e]].expense = e
       \/ \E w \in Workers : /\ At(w, "link") /\ worker[w].expense = e
                            /\ Invoice(w) = expenseOf[e]

(* An invoice is in safe hands: no statement of another worker, no crash and  *)
(* no disconnection ever deletes the reservation under a worker or under an   *)
(* expense of the books.                                                      *)
Custody == OneWorkerPerMail /\ ReservationKept /\ ExpenseHeld

(* Whatever fails, an expense that a mail or an invoice names is in the books *)
(* and registers that very invoice: no dangling and no crossed reference.     *)
LinksSound ==
  /\ \A m \in Messages : link[m] # None => expenseOf[link[m]] = Carries[m]
  /\ \A c \in Cufes : reserved[c] # None /\ reserved[c].expense # None =>
       expenseOf[reserved[c].expense] = c

(* The log names the expense the books hold: the expense of a mail registers *)
(* the invoice that mail carries, and it is the one the invoice is linked to.*)
LogMatchesBooks ==
  \A m \in Messages : link[m] # None =>
    /\ status[m] \in {"registered", "processing"}
    /\ expenseOf[link[m]] = Carries[m]
    /\ reserved[Carries[m]] # None /\ reserved[Carries[m]].expense = link[m]

(* Whatever name of an expense a table keeps, it names the right one.         *)
LogAndLinksSound == LogMatchesBooks /\ LinksSound

(* "La factura ... ya estaba registrada": while the mailbox stays connected,  *)
(* a mail given up as a duplicate does not lose its invoice.  It is in the    *)
(* books, or the user has deleted it from them, or a worker or a later        *)
(* attempt can still register it.                                             *)
DuplicateJustified ==
  \A m \in Messages : status[m] = "duplicate" =>
    \/ Registered(Carries[m])
    \/ \E e \in Expenses : expenseOf[e] = Removed
    \/ \E n \in Messages : Carries[n] = Carries[m] /\ (status[n] \in RETRYABLE \/ Busy(n))

(* A mail does not stay in processing for ever. *)
MailSettles ==
  \A m \in Messages : status[m] = "processing" ~> status[m] # "processing"

Registry == INSTANCE InvoiceRegistry WITH
  Cufes <- Cufes, Expenses <- Expenses, Unused <- Unused, Removed <- Removed,
  expenseOf <- expenseOf
(* The books the service keeps are those of the registry it promises. *)
ImplementsRegistry == Registry!Spec
=============================================================================
