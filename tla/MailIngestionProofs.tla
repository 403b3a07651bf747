------------------------ MODULE MailIngestionProofs ------------------------
(***************************************************************************)
(* Why an invoice is in the books once, for any number of mails, invoices   *)
(* and workers.                                                             *)
(***************************************************************************)
EXTENDS MailIngestion, MailSync, TLAPS

-----------------------------------------------------------------------------
(* Typing *)

WorkersOK == worker \in [Workers -> WorkerState] /\ \A w \in Workers : Equipped(worker[w])

(* A step of one worker that leaves it equipped leaves them all so. *)
LEMMA OneWorkerMoves ==
  ASSUME WorkersOK, NEW w \in Workers, NEW STATE s, s \in WorkerState, Equipped(s),
         worker' = [worker EXCEPT ![w] = s]
  PROVE  WorkersOK'
  BY DEF WorkersOK

LEMMA IdleIsEquipped == Idle \in WorkerState /\ Equipped(Idle)
  BY DEF Idle, WorkerState, Steps, Statuses, Equipped

LEMMA WorkerAttributes ==
  ASSUME WorkersOK, NEW w \in Workers
  PROVE  /\ worker[w] \in WorkerState /\ Equipped(worker[w])
         /\ worker[w].step \in Steps /\ worker[w].row \in BOOLEAN
         /\ worker[w].message \in Messages \cup {None}
         /\ worker[w].expense \in Expenses \cup {None}
         /\ worker[w].outcome \in Statuses
  BY DEF WorkersOK, WorkerState

LEMMA RestKeepsWorkersOK ==
  ASSUME WorkersOK, NEW w \in Workers, Rest(w)
  PROVE  WorkersOK'
  BY IdleIsEquipped, OneWorkerMoves DEF Rest

LEMMA FinishKeepsWorkersOK ==
  ASSUME WorkersOK, NEW w \in Workers, ~At(w, "idle"),
         NEW o \in Statuses \ {"absent", "processing"},
         o = "registered" => worker[w].expense \in Expenses, Finish(w, o)
  PROVE  WorkersOK'
<1> DEFINE s == [worker[w] EXCEPT !.step = "finish", !.outcome = o]
<1>1. s \in WorkerState
  BY WorkerAttributes DEF WorkerState, Steps
<1>2. Equipped(s)
  BY WorkerAttributes DEF Equipped, At, WorkerState
<1>3. worker' = [worker EXCEPT ![w] = s]
  BY DEF Finish
<1> HIDE DEF s
<1> QED BY <1>1, <1>2, <1>3, OneWorkerMoves

LEMMA GoToKeepsWorkersOK ==
  ASSUME WorkersOK, NEW w \in Workers, ~At(w, "idle"),
         NEW t \in Steps \ {"link", "finish"},
         t \in {"reserve", "register", "release"} => Invoice(w) \in Cufes, GoTo(w, t)
  PROVE  WorkersOK'
<1> DEFINE s == [worker[w] EXCEPT !.step = t]
<1>1. s \in WorkerState
  BY WorkerAttributes DEF WorkerState
<1>2. Equipped(s)
  BY WorkerAttributes DEF Equipped, At, Invoice, WorkerState
<1>3. worker' = [worker EXCEPT ![w] = s]
  BY DEF GoTo
<1> HIDE DEF s
<1> QED BY <1>1, <1>2, <1>3, OneWorkerMoves

LEMMA InitTypeOK == Init => TypeOK
  BY IdleIsEquipped DEF Init, TypeOK, Statuses

LEMMA TypeOKWorkers == TypeOK => WorkersOK
  BY DEF TypeOK, WorkersOK

LEMMA StepTypeOK ==
  ASSUME TypeOK, NEW w \in Workers, Step(w)
  PROVE  TypeOK'
<1>1. WorkersOK
  BY TypeOKWorkers
<1>2. CASE ReleaseStale(w)
  <2>1. WorkersOK'
    BY <1>1, <1>2, GoToKeepsWorkersOK, RestKeepsWorkersOK DEF ReleaseStale, At, Steps
  <2>2. reserved' \in [Cufes -> Reservation \cup {None}]
    BY <1>2 DEF ReleaseStale, TypeOK
  <2> QED BY <1>2, <2>1, <2>2 DEF ReleaseStale, TypeOK, WorkersOK
<1>3. CASE Mark(w)
  <2>1. WorkersOK'
    BY <1>1, <1>3, GoToKeepsWorkersOK, RestKeepsWorkersOK DEF Mark, At, Steps
  <2>2. status' \in [Messages -> Statuses]
    BY <1>3 DEF Mark, TypeOK, Statuses
  <2> QED BY <1>3, <2>1, <2>2 DEF Mark, TypeOK, WorkersOK
<1>4. CASE Fetch(w)
  <2>1. Invoice(w) \in Cufes \cup {NoInvoice}
    BY <1>1, <1>4, WorkerAttributes, MailIngestionAssumption DEF Fetch, At, Invoice, Equipped
  <2>2. ASSUME GoTo(w, "reserve") /\ Invoice(w) # NoInvoice PROVE WorkersOK'
    BY <1>1, <1>4, <2>1, <2>2, GoToKeepsWorkersOK DEF Fetch, At, Steps
  <2>3. ASSUME Finish(w, "noInvoice") \/ Finish(w, "failed") PROVE WorkersOK'
    BY <1>1, <1>4, <2>3, FinishKeepsWorkersOK DEF Fetch, At, Statuses
  <2>4. WorkersOK'
    BY <1>4, <2>2, <2>3 DEF Fetch
  <2> QED BY <1>4, <2>4 DEF Fetch, TypeOK, WorkersOK
<1>5. CASE Reserve(w)
  <2>1. Invoice(w) \in Cufes /\ worker[w].message \in Messages
    BY <1>1, <1>5, WorkerAttributes DEF Reserve, At, Invoice, Equipped
  <2>2. ASSUME GoTo(w, "register") PROVE WorkersOK'
    BY <1>1, <1>5, <2>1, <2>2, GoToKeepsWorkersOK DEF Reserve, At, Steps
  <2>3. ASSUME Finish(w, "duplicate") \/ Finish(w, "failed") PROVE WorkersOK'
    BY <1>1, <1>5, <2>3, FinishKeepsWorkersOK DEF Reserve, At, Statuses
  <2>4. WorkersOK'
    BY <1>5, <2>2, <2>3 DEF Reserve, ReserveFails
  <2>5. [by |-> w, message |-> worker[w].message, expense |-> None] \in Reservation
    BY <2>1 DEF Reservation
  <2>6. reserved' \in [Cufes -> Reservation \cup {None}]
    BY <1>5, <2>1, <2>5 DEF Reserve, TypeOK
  <2> QED BY <1>5, <2>4, <2>6 DEF Reserve, TypeOK, WorkersOK
<1>6. CASE Register(w)
  <2>1. Invoice(w) \in Cufes /\ worker[w].message \in Messages
    BY <1>1, <1>6, WorkerAttributes DEF Register, At, Invoice, Equipped
  <2>2. ASSUME GoTo(w, "release") PROVE WorkersOK'
    BY <1>1, <1>6, <2>1, <2>2, GoToKeepsWorkersOK DEF Register, At, Steps
  <2>3. ASSUME NEW e \in Expenses,
               worker' = [worker EXCEPT ![w].step = "link", ![w].expense = e]
        PROVE  WorkersOK'
    <3> DEFINE s == [worker[w] EXCEPT !.step = "link", !.expense = e]
    <3>1. s \in WorkerState
      BY <1>1, WorkerAttributes DEF WorkerState, Steps
    <3>2. Equipped(s)
      BY <1>1, <2>1, WorkerAttributes DEF Equipped, Invoice, WorkerState
    <3>3. worker' = [worker EXCEPT ![w] = s]
      BY <2>3
    <3> HIDE DEF s
    <3> QED BY <1>1, <3>1, <3>2, <3>3, OneWorkerMoves
  <2>4. WorkersOK'
    BY <1>6, <2>2, <2>3 DEF Register
  <2>5. expenseOf' \in [Expenses -> Cufes \cup {Unused, Removed}]
    BY <1>6, <2>1 DEF Register, TypeOK
  <2> QED BY <1>6, <2>4, <2>5 DEF Register, TypeOK, WorkersOK
<1>7. CASE Release(w)
  <2>1. WorkersOK'
    BY <1>1, <1>7, FinishKeepsWorkersOK DEF Release, At, Statuses
  <2>2. reserved' \in [Cufes -> Reservation \cup {None}]
    BY <1>7 DEF Release, TypeOK
  <2> QED BY <1>7, <2>1, <2>2 DEF Release, TypeOK, WorkersOK
<1>8. CASE Link(w)
  <2>1. worker[w].expense \in Expenses /\ Invoice(w) \in Cufes
    BY <1>1, <1>8, WorkerAttributes DEF Link, At, Equipped, Invoice
  <2>2. WorkersOK'
    BY <1>1, <1>8, <2>1, FinishKeepsWorkersOK DEF Link, At, Statuses
  <2>3. Holds(w) => [reserved[Invoice(w)] EXCEPT !.expense = worker[w].expense] \in Reservation
    BY <2>1 DEF Holds, TypeOK, Reservation
  <2>4. reserved' \in [Cufes -> Reservation \cup {None}]
    BY <1>8, <2>1, <2>3 DEF Link, TypeOK
  <2> QED BY <1>8, <2>2, <2>4 DEF Link, TypeOK, WorkersOK
<1>9. CASE FinishStep(w)
  <2>1. /\ worker[w].message \in Messages /\ worker[w].outcome \in Statuses
        /\ worker[w].outcome = "registered" => worker[w].expense \in Expenses
    BY <1>1, <1>9, WorkerAttributes DEF FinishStep, At, Equipped
  <2>2. WorkersOK'
    BY <1>1, <1>9, FinishKeepsWorkersOK, RestKeepsWorkersOK DEF FinishStep, At, Statuses
  <2>3. status' \in [Messages -> Statuses]
    BY <1>9, <2>1 DEF FinishStep, TypeOK
  <2>4. link' \in [Messages -> Expenses \cup {None}]
    BY <1>9, <2>1 DEF FinishStep, TypeOK
  <2> QED BY <1>9, <2>2, <2>3, <2>4 DEF FinishStep, TypeOK, WorkersOK
<1> QED BY <1>2, <1>3, <1>4, <1>5, <1>6, <1>7, <1>8, <1>9 DEF Step

LEMMA BeginTypeOK ==
  ASSUME TypeOK, NEW w \in Workers, NEW m \in Messages, Ingest(w, m) \/ BeginRetry(w, m)
  PROVE  TypeOK'
<1> DEFINE s(t) == [Idle EXCEPT !.step = t, !.message = m, !.row = TRUE]
<1>1. WorkersOK
  BY TypeOKWorkers
<1>2. ASSUME NEW t \in {"fetch", "releaseStale"}
      PROVE  s(t) \in WorkerState /\ Equipped(s(t))
  BY DEF Idle, WorkerState, Steps, Statuses, Equipped
<1>3. CASE Ingest(w, m)
  <2>1. UNCHANGED worker \/ worker' = [worker EXCEPT ![w] = s("fetch")]
    BY <1>3 DEF Ingest
  <2> HIDE DEF s
  <2>2. WorkersOK'
    BY <1>1, <1>2, <2>1, OneWorkerMoves DEF WorkersOK
  <2> QED BY <1>3, <2>2 DEF Ingest, TypeOK, WorkersOK, Statuses
<1>4. CASE BeginRetry(w, m)
  <2>1. worker' = [worker EXCEPT ![w] = s("releaseStale")]
    BY <1>4 DEF BeginRetry
  <2> HIDE DEF s
  <2>2. WorkersOK'
    BY <1>1, <1>2, <2>1, OneWorkerMoves
  <2> QED BY <1>4, <2>2 DEF BeginRetry, TypeOK, WorkersOK
<1> QED BY <1>3, <1>4

LEMMA OtherTypeOK ==
  ASSUME TypeOK, Disconnect \/ Crash \/ \E e \in Expenses : RemoveExpense(e)
  PROVE  TypeOK'
<1>1. ASSUME NEW e \in Expenses, RemoveExpense(e) PROVE TypeOK'
  <2>1. \A c \in Cufes : reserved[c] # None =>
          [reserved[c] EXCEPT !.expense = None] \in Reservation
    BY DEF TypeOK, Reservation
  <2>2. reserved' \in [Cufes -> Reservation \cup {None}]
    BY <1>1, <2>1 DEF RemoveExpense, TypeOK
  <2>3. link' \in [Messages -> Expenses \cup {None}]
    BY <1>1 DEF RemoveExpense, TypeOK
  <2> QED BY <1>1, <2>2, <2>3 DEF RemoveExpense, TypeOK
<1>2. CASE Disconnect
  <2>1. \A c \in Cufes : reserved[c] # None =>
          [reserved[c] EXCEPT !.message = None] \in Reservation
    BY DEF TypeOK, Reservation
  <2>2. reserved' \in [Cufes -> Reservation \cup {None}]
    BY <1>2, <2>1 DEF Disconnect, TypeOK
  <2>3. \A w \in Workers : LET s == [worker[w] EXCEPT !.row = FALSE]
                           IN  s \in WorkerState /\ Equipped(s)
    BY DEF TypeOK, WorkerState, Equipped
  <2>4. WorkersOK'
    BY <1>2, <2>3 DEF Disconnect, WorkersOK
  <2> QED BY <1>2, <2>2, <2>4 DEF Disconnect, TypeOK, WorkersOK, Statuses
<1>3. CASE Crash
  BY <1>3, IdleIsEquipped DEF Crash, TypeOK
<1> QED BY <1>1, <1>2, <1>3

LEMMA NextTypeOK == TypeOK /\ [Next]_vars => TypeOK'
<1>1. TypeOK /\ UNCHANGED vars => TypeOK'
  BY DEF TypeOK, vars
<1> QED BY <1>1, StepTypeOK, BeginTypeOK, OtherTypeOK DEF Next

(* Whatever fails, the tables and the workers keep their types. *)
THEOREM IngestionTypeOK == Spec => []TypeOK
  BY InitTypeOK, NextTypeOK, PTL DEF Spec

-----------------------------------------------------------------------------
(* Custody of an invoice.  It is lost if the process dies or a statement     *)
(* fails between the expense and the link, or if two workers share a mail:   *)
(* those are the runs that find an invoice registered twice.                 *)

SafeFaults ==
  Faults \cap {"crashBeforeLink", "errorAfterCommit", "errorBeforeLink",
               "overlappingRetry"} = {}

Holding == {"register", "release", "link"}

(* Two workers never hold the same invoice. *)
LEMMA OneHolder ==
  ASSUME ReservationKept, NEW w \in Workers, NEW v \in Workers,
         worker[w].step \in Holding, worker[v].step \in Holding, Invoice(w) = Invoice(v)
  PROVE  w = v
  BY DEF ReservationKept, Holding, Holds

(* Whoever is about to register an invoice, or to give it back, knows that   *)
(* the books do not have it.                                                 *)
LEMMA HolderFindsNone ==
  ASSUME TypeOK, Custody, NEW w \in Workers, worker[w].step \in {"register", "release"}
  PROVE  ~Registered(Invoice(w))
<1> SUFFICES ASSUME NEW e \in Expenses, expenseOf[e] = Invoice(w) PROVE FALSE
  BY DEF Registered
<1>1. Invoice(w) \in Cufes
  BY DEF TypeOK, Equipped, Invoice
<1>2. reserved[Invoice(w)].expense = None
  BY DEF Custody, ReservationKept
<1>3. reserved[Invoice(w)].expense # e
  BY <1>2, MailIngestionAssumption
<1>4. PICK v \in Workers : At(v, "link") /\ Invoice(v) = Invoice(w)
  BY <1>1, <1>3 DEF Custody, ExpenseHeld
<1>5. v = w
  BY <1>4, OneHolder DEF Custody, Holding, At
<1> QED BY <1>4, <1>5 DEF At

(* Whoever is about to link an invoice registered its only expense. *)
LEMMA HolderKnowsExpense ==
  ASSUME TypeOK, Custody, NEW w \in Workers, At(w, "link"),
         NEW e \in Expenses, expenseOf[e] = Invoice(w)
  PROVE  e = worker[w].expense
<1>1. Invoice(w) \in Cufes
  BY DEF TypeOK, Equipped, Invoice, At
<1>2. reserved[Invoice(w)].expense = None
  BY DEF Custody, ReservationKept, At
<1>3. reserved[Invoice(w)].expense # e
  BY <1>2, MailIngestionAssumption
<1>4. PICK v \in Workers : At(v, "link") /\ Invoice(v) = Invoice(w) /\ worker[v].expense = e
  BY <1>1, <1>3 DEF Custody, ExpenseHeld
<1>5. v = w
  BY <1>4, OneHolder DEF Custody, Holding, At
<1> QED BY <1>4, <1>5

THEOREM CustodyMeansOnce == TypeOK /\ Custody => AtMostOneExpense
<1> SUFFICES ASSUME TypeOK, Custody, NEW e \in Expenses, NEW f \in Expenses,
                    expenseOf[e] \in Cufes, expenseOf[e] = expenseOf[f]
             PROVE  e = f
  BY DEF AtMostOneExpense
<1> DEFINE c == expenseOf[e]
<1>1. CASE \E w \in Workers : At(w, "link") /\ Invoice(w) = c
  BY <1>1, HolderKnowsExpense
<1>2. CASE ~\E w \in Workers : At(w, "link") /\ Invoice(w) = c
  BY <1>2 DEF Custody, ExpenseHeld
<1> QED BY <1>1, <1>2

(* What a step of a worker does to the workers. *)
Others(w) == \A v \in Workers : v # w => worker'[v] = worker[v]

LEMMA GoToMoves ==
  ASSUME WorkersOK, NEW w \in Workers, NEW t \in Steps, GoTo(w, t)
  PROVE  /\ Others(w) /\ worker'[w].step = t
         /\ worker'[w].message = worker[w].message /\ worker'[w].row = worker[w].row
         /\ worker'[w].expense = worker[w].expense
  BY DEF GoTo, Others, WorkersOK, WorkerState

LEMMA FinishMoves ==
  ASSUME WorkersOK, NEW w \in Workers, NEW o \in Statuses, Finish(w, o)
  PROVE  /\ Others(w) /\ worker'[w].step = "finish"
         /\ worker'[w].message = worker[w].message /\ worker'[w].row = worker[w].row
         /\ worker'[w].expense = worker[w].expense /\ worker'[w].outcome = o
  BY DEF Finish, Others, WorkersOK, WorkerState

LEMMA RestMoves ==
  ASSUME WorkersOK, NEW w \in Workers, Rest(w)
  PROVE  Others(w) /\ worker'[w].step = "idle"
  BY DEF Rest, Others, WorkersOK, Idle

(* A worker that goes on with its mail, or rests, shares it with nobody. *)
LEMMA OneWorkerPerMailKept ==
  ASSUME TypeOK, OneWorkerPerMail, NEW w \in Workers, ~At(w, "idle"), Others(w),
         \/ worker'[w].step = "idle"
         \/ worker'[w].message = worker[w].message /\ worker'[w].row = worker[w].row,
         \A m \in Messages : status[m] # "absent" => status'[m] # "absent"
  PROVE  OneWorkerPerMail'
  BY DEF OneWorkerPerMail, Others, At, TypeOK, Equipped

(* A step that leaves the reservations alone, and takes its worker to a      *)
(* statement that needs none.                                                *)
LEMMA ReservationKeptByOthers ==
  ASSUME ReservationKept, NEW w \in Workers, Others(w), worker'[w].step \notin Holding,
         UNCHANGED reserved
  PROVE  ReservationKept'
  BY DEF ReservationKept, Others, Holding, Holds, Invoice

LEMMA ExpenseHeldByOthers ==
  ASSUME ExpenseHeld, NEW w \in Workers, ~At(w, "link"), Others(w),
         UNCHANGED <<reserved, expenseOf>>
  PROVE  ExpenseHeld'
<1> SUFFICES ASSUME NEW e \in Expenses, expenseOf[e] \in Cufes,
                    reserved[expenseOf[e]].expense # e
             PROVE  \E v \in Workers : /\ At(v, "link")' /\ worker'[v].expense = e
                                     /\ Invoice(v)' = expenseOf[e]
  BY DEF ExpenseHeld
<1>1. PICK v \in Workers : At(v, "link") /\ worker[v].expense = e /\ Invoice(v) = expenseOf[e]
  BY DEF ExpenseHeld
<1>2. worker'[v] = worker[v]
  BY <1>1 DEF Others
<1> QED BY <1>1, <1>2 DEF At, Invoice

LEMMA InitCustody == Init => Custody
  BY MailIngestionAssumption
     DEF Init, Custody, OneWorkerPerMail, ReservationKept, ExpenseHeld, At, Idle

LEMMA BeginKeepsCustody ==
  ASSUME SafeFaults, TypeOK, Custody, NEW w \in Workers, NEW m \in Messages,
         Ingest(w, m) \/ BeginRetry(w, m)
  PROVE  Custody'
<1> DEFINE s(t) == [Idle EXCEPT !.step = t, !.message = m, !.row = TRUE]
<1>1. PICK t \in {"fetch", "releaseStale"} :
        UNCHANGED worker \/ worker' = [worker EXCEPT ![w] = s(t)]
  BY DEF Ingest, BeginRetry
<1>2. At(w, "idle") /\ UNCHANGED <<reserved, expenseOf>>
  BY DEF Ingest, BeginRetry
<1>3. \A n \in Messages : status[n] # "absent" \/ (n = m /\ Ingest(w, m))
                         <=> status'[n] # "absent"
  BY DEF Ingest, BeginRetry, TypeOK
<1>4. /\ s(t).step = t /\ s(t).message = m /\ s(t).row = TRUE
      /\ t \notin Holding \cup {"idle"}
  BY DEF Idle, Holding
<1>5. ~Busy(m)
  <2>1. CASE Ingest(w, m)
    BY <2>1 DEF Ingest, Busy, Custody, OneWorkerPerMail
  <2>2. CASE BeginRetry(w, m)
    BY <2>2 DEF BeginRetry, SafeFaults
  <2> QED BY <2>1, <2>2
<1>6. status'[m] # "absent"
  BY <1>3 DEF BeginRetry, RETRYABLE
<1> HIDE DEF s
<1>7. CASE UNCHANGED worker
  BY <1>2, <1>3, <1>7
     DEF Custody, OneWorkerPerMail, ReservationKept, ExpenseHeld, At, Holds, Invoice, TypeOK, Equipped
<1>8. CASE worker' = [worker EXCEPT ![w] = s(t)]
  <2>1. Others(w) /\ worker'[w] = s(t)
    BY <1>8 DEF Others, TypeOK
  <2>2. OneWorkerPerMail'
    BY <1>3, <1>4, <1>5, <1>6, <2>1 DEF Custody, OneWorkerPerMail, Others, At, Busy, TypeOK, Equipped
  <2>3. ReservationKept'
    BY <1>2, <1>4, <2>1, ReservationKeptByOthers DEF Custody
  <2>4. ExpenseHeld'
    BY <1>2, <2>1, ExpenseHeldByOthers DEF Custody, At
  <2> QED BY <2>2, <2>3, <2>4 DEF Custody
<1> QED BY <1>1, <1>7, <1>8

(* Steps that only move their worker, or the status of its mail. *)
LEMMA QuietStepKeepsCustody ==
  ASSUME TypeOK, Custody, NEW w \in Workers, ~At(w, "idle"), ~At(w, "link"), Others(w),
         worker'[w].step \notin Holding,
         \/ worker'[w].step = "idle"
         \/ worker'[w].message = worker[w].message /\ worker'[w].row = worker[w].row,
         \A m \in Messages : status[m] # "absent" => status'[m] # "absent",
         UNCHANGED <<reserved, expenseOf>>
  PROVE  Custody'
  BY OneWorkerPerMailKept, ReservationKeptByOthers, ExpenseHeldByOthers DEF Custody

LEMMA MarkKeepsCustody ==
  ASSUME TypeOK, Custody, NEW w \in Workers, Mark(w)
  PROVE  Custody'
<1>1. /\ Others(w)
      /\ worker'[w].step \in {"fetch", "idle"}
      /\ \/ worker'[w].step = "idle"
         \/ worker'[w].message = worker[w].message /\ worker'[w].row = worker[w].row
  BY GoToMoves, RestMoves, TypeOKWorkers DEF Mark, Steps
<1>2. \A m \in Messages : status[m] # "absent" => status'[m] # "absent"
  BY DEF Mark, TypeOK
<1> QED BY <1>1, <1>2, QuietStepKeepsCustody DEF Mark, At, Holding

LEMMA FetchKeepsCustody ==
  ASSUME TypeOK, Custody, NEW w \in Workers, Fetch(w)
  PROVE  Custody'
<1>1. /\ Others(w)
      /\ worker'[w].step \in {"reserve", "finish"}
      /\ worker'[w].message = worker[w].message /\ worker'[w].row = worker[w].row
  BY GoToMoves, FinishMoves, TypeOKWorkers DEF Fetch, Steps, Statuses
<1> QED BY <1>1, QuietStepKeepsCustody DEF Fetch, At, Holding

LEMMA FinishStepKeepsCustody ==
  ASSUME TypeOK, Custody, NEW w \in Workers, FinishStep(w)
  PROVE  Custody'
<1>1. /\ Others(w)
      /\ worker'[w].step \in {"finish", "idle"}
      /\ \/ worker'[w].step = "idle"
         \/ worker'[w].message = worker[w].message /\ worker'[w].row = worker[w].row
  BY FinishMoves, RestMoves, TypeOKWorkers DEF FinishStep, Statuses
<1>2. worker[w].outcome # "absent"
  BY DEF FinishStep, TypeOK, Equipped, At
<1>3. \A m \in Messages : status[m] # "absent" => status'[m] # "absent"
  BY <1>2 DEF FinishStep, TypeOK
<1> QED BY <1>1, <1>3, QuietStepKeepsCustody DEF FinishStep, At, Holding

LEMMA ReleaseStaleKeepsCustody ==
  ASSUME TypeOK, Custody, NEW w \in Workers, ReleaseStale(w)
  PROVE  Custody'
<1>1. /\ Others(w)
      /\ worker'[w].step \in {"mark", "idle"}
      /\ \/ worker'[w].step = "idle"
         \/ worker'[w].message = worker[w].message /\ worker'[w].row = worker[w].row
  BY GoToMoves, RestMoves, TypeOKWorkers DEF ReleaseStale, Steps
<1>2. At(w, "releaseStale") /\ worker[w].message \in Messages
  BY DEF ReleaseStale, TypeOK, Equipped, At
<1>3. ASSUME NEW v \in Workers, worker[v].step \in Holding
      PROVE  Invoice(v) \in Cufes /\ reserved'[Invoice(v)] = reserved[Invoice(v)]
  <2>1. Invoice(v) \in Cufes /\ v # w
    BY <1>2, <1>3 DEF TypeOK, Equipped, Holding, Invoice, At
  <2>2. reserved[Invoice(v)].message = IF worker[v].row THEN worker[v].message ELSE None
    BY <1>3 DEF Custody, ReservationKept, Holding
  <2>3. ~Stale(w, Invoice(v))
    BY <1>2, <1>3, <2>1, <2>2, MailIngestionAssumption
       DEF Stale, Custody, OneWorkerPerMail, At, Holding
  <2> QED BY <2>1, <2>3 DEF ReleaseStale
<1>4. ASSUME NEW c \in Cufes, NEW e \in Expenses, reserved[c] # None, reserved[c].expense = e
      PROVE  reserved'[c] = reserved[c]
  BY <1>4, MailIngestionAssumption DEF ReleaseStale, Stale
<1>5. OneWorkerPerMail'
  BY <1>1, <1>2, OneWorkerPerMailKept DEF Custody, ReleaseStale, At
<1>6. ReservationKept'
  BY <1>1, <1>3 DEF Custody, ReservationKept, Others, Holding, Holds, Invoice
<1>7. ExpenseHeld'
  <2> SUFFICES ASSUME NEW e \in Expenses, expenseOf[e] \in Cufes
               PROVE  /\ reserved'[expenseOf[e]] # None
                      /\ \/ reserved'[expenseOf[e]].expense = e
                         \/ \E v \in Workers : /\ At(v, "link")' /\ worker'[v].expense = e
                                              /\ Invoice(v)' = expenseOf[e]
    BY DEF ExpenseHeld, ReleaseStale
  <2>1. CASE reserved[expenseOf[e]].expense = e
    BY <1>4, <2>1 DEF Custody, ExpenseHeld
  <2>2. CASE reserved[expenseOf[e]].expense # e
    <3>1. PICK v \in Workers : At(v, "link") /\ worker[v].expense = e /\ Invoice(v) = expenseOf[e]
      BY <2>2 DEF Custody, ExpenseHeld
    <3>2. worker'[v] = worker[v]
      BY <1>1, <1>2, <3>1 DEF Others, At
    <3>3. reserved'[expenseOf[e]] = reserved[expenseOf[e]]
      BY <1>3, <3>1 DEF At, Holding
    <3> QED BY <3>1, <3>2, <3>3 DEF At, Invoice, Custody, ExpenseHeld
  <2> QED BY <2>1, <2>2
<1> QED BY <1>5, <1>6, <1>7 DEF Custody

LEMMA ReserveKeepsCustody ==
  ASSUME TypeOK, Custody, NEW w \in Workers, Reserve(w)
  PROVE  Custody'
<1> DEFINE c == Invoice(w)
<1>1. /\ Others(w) /\ worker'[w].step \in {"register", "finish"}
      /\ worker'[w].message = worker[w].message /\ worker'[w].row = worker[w].row
      /\ At(w, "reserve") /\ UNCHANGED <<status, expenseOf>>
  BY GoToMoves, FinishMoves, TypeOKWorkers DEF Reserve, ReserveFails, Steps, Statuses
<1>2. CASE UNCHANGED reserved /\ worker'[w].step = "finish"
  BY <1>1, <1>2, QuietStepKeepsCustody DEF At, Holding
<1>3. CASE /\ CanReserve(w) /\ GoTo(w, "register")
           /\ reserved' = [reserved EXCEPT ![c] =
                             [by |-> w, message |-> worker[w].message, expense |-> None]]
  <2>1. c \in Cufes /\ worker[w].message \in Messages
    BY <1>1 DEF TypeOK, Equipped, Invoice, At
  <2>2. reserved[c] = None /\ worker[w].row
    BY <1>3 DEF CanReserve
  <2>3. reserved'[c] = [by |-> w, message |-> worker[w].message, expense |-> None]
    BY <1>3, <2>1 DEF TypeOK
  <2>4. reserved'[c] # None
    <3>1. reserved'[c] \in Reservation
      BY <2>1, <2>3 DEF Reservation
    <3> QED BY <3>1, MailIngestionAssumption
  <2>5. \A d \in Cufes : d # c => reserved'[d] = reserved[d]
    BY <1>3 DEF TypeOK
  <2>6. OneWorkerPerMail'
    BY <1>1, OneWorkerPerMailKept DEF Custody, At
  <2>7. ASSUME NEW v \in Workers, worker'[v].step \in Holding
        PROVE  /\ Holds(v)' /\ reserved'[Invoice(v)'].expense = None
               /\ reserved'[Invoice(v)'].message =
                    IF worker'[v].row THEN worker'[v].message ELSE None
    <3>1. CASE v = w
      <4>1. Invoice(v)' = c
        BY <1>1, <3>1 DEF Invoice
      <4>2. /\ reserved'[c].by = w /\ reserved'[c].expense = None
            /\ reserved'[c].message = worker[w].message
        BY <2>3
      <4>3. (IF worker'[v].row THEN worker'[v].message ELSE None) = worker[w].message
        BY <1>1, <2>2, <3>1
      <4>4. Holds(v)'
        BY <2>4, <3>1, <4>1, <4>2 DEF Holds
      <4> HIDE DEF c
      <4> QED BY <4>1, <4>2, <4>3, <4>4
    <3>2. CASE v # w
      <4>1. worker'[v] = worker[v]
        BY <1>1, <3>2 DEF Others
      <4>2. Invoice(v) \in Cufes /\ reserved[Invoice(v)] # None
        BY <2>7, <4>1 DEF Custody, ReservationKept, Holding, Holds, TypeOK, Equipped, Invoice
      <4>3. reserved'[Invoice(v)] = reserved[Invoice(v)]
        BY <2>2, <2>5, <4>2
      <4> QED BY <2>7, <4>1, <4>3 DEF Custody, ReservationKept, Holding, Holds, Invoice
    <3> QED BY <3>1, <3>2
  <2>8. ReservationKept'
    BY <2>7 DEF ReservationKept, Holding
  <2>9. ExpenseHeld'
    <3> SUFFICES ASSUME NEW e \in Expenses, expenseOf[e] \in Cufes
                 PROVE  /\ reserved'[expenseOf[e]] # None
                        /\ \/ reserved'[expenseOf[e]].expense = e
                           \/ \E v \in Workers : /\ At(v, "link")' /\ worker'[v].expense = e
                                                /\ Invoice(v)' = expenseOf[e]
      BY <1>1 DEF ExpenseHeld
    <3>1. reserved[expenseOf[e]] # None
      BY DEF Custody, ExpenseHeld
    <3>2. reserved'[expenseOf[e]] = reserved[expenseOf[e]]
      BY <2>2, <2>5, <3>1
    <3>3. \A v \in Workers : At(v, "link") => worker'[v] = worker[v]
      BY <1>1 DEF Others, At
    <3> QED BY <3>1, <3>2, <3>3 DEF Custody, ExpenseHeld, At, Invoice
  <2> QED BY <2>6, <2>8, <2>9 DEF Custody
<1> QED BY <1>2, <1>3, FinishMoves, TypeOKWorkers DEF Reserve, ReserveFails, Statuses

LEMMA RegisterKeepsCustody ==
  ASSUME SafeFaults, TypeOK, Custody, NEW w \in Workers, Register(w)
  PROVE  Custody'
<1> DEFINE c == Invoice(w)
<1>1. At(w, "register") /\ UNCHANGED <<status, link, reserved>>
  BY DEF Register
<1>2. worker[w] \in WorkerState /\ worker \in [Workers -> WorkerState]
  BY DEF TypeOK
<1>3. PICK e \in Expenses \cup {None} :
        \/ e = None /\ UNCHANGED expenseOf /\ GoTo(w, "release")
        \/ /\ e \in Expenses /\ expenseOf[e] = Unused
           /\ expenseOf' = [expenseOf EXCEPT ![e] = c]
           /\ worker' = [worker EXCEPT ![w].step = "link", ![w].expense = e]
  BY DEF Register, SafeFaults
<1>4. /\ Others(w) /\ worker'[w].step \in {"release", "link"}
      /\ worker'[w].message = worker[w].message /\ worker'[w].row = worker[w].row
      /\ e \in Expenses => worker'[w].step = "link" /\ worker'[w].expense = e
  BY <1>2, <1>3, GoToMoves, TypeOKWorkers, MailIngestionAssumption DEF Steps, Others, WorkerState
<1>5. OneWorkerPerMail'
  BY <1>1, <1>4, OneWorkerPerMailKept DEF Custody, At
<1>6. ReservationKept'
  BY <1>1, <1>4 DEF Custody, ReservationKept, Others, At, Holds, Invoice
<1>7. ExpenseHeld'
  <2> SUFFICES ASSUME NEW f \in Expenses, expenseOf'[f] \in Cufes
               PROVE  /\ reserved[expenseOf'[f]] # None
                      /\ \/ reserved[expenseOf'[f]].expense = f
                         \/ \E v \in Workers : /\ At(v, "link")' /\ worker'[v].expense = f
                                              /\ Invoice(v)' = expenseOf'[f]
    BY <1>1 DEF ExpenseHeld
  <2>1. CASE e \in Expenses /\ f = e
    <3>1. expenseOf'[f] = c
      BY <1>3, <2>1, MailIngestionAssumption DEF TypeOK
    <3>2. reserved[c] # None
      BY <1>1 DEF Custody, ReservationKept, Holds, At
    <3> QED BY <1>4, <2>1, <3>1, <3>2 DEF At, Invoice
  <2>2. CASE f # e
    <3>1. expenseOf'[f] = expenseOf[f]
      BY <1>3, <2>2 DEF TypeOK
    <3>2. \A v \in Workers : At(v, "link") => worker'[v] = worker[v]
      BY <1>1, <1>4 DEF Others, At
    <3> QED BY <3>1, <3>2 DEF Custody, ExpenseHeld, At, Invoice
  <2> QED BY <2>1, <2>2
<1> QED BY <1>5, <1>6, <1>7 DEF Custody

LEMMA ReleaseKeepsCustody ==
  ASSUME TypeOK, Custody, NEW w \in Workers, Release(w)
  PROVE  Custody'
<1> DEFINE c == Invoice(w)
<1>1. /\ At(w, "release") /\ UNCHANGED <<status, link, expenseOf>>
      /\ Others(w) /\ worker'[w].step = "finish"
      /\ worker'[w].message = worker[w].message /\ worker'[w].row = worker[w].row
  BY FinishMoves, TypeOKWorkers DEF Release, Statuses
<1>2. \A d \in Cufes : d # c => reserved'[d] = reserved[d]
  BY DEF Release, TypeOK
<1>3. OneWorkerPerMail'
  BY <1>1, OneWorkerPerMailKept DEF Custody, At
<1>4. ASSUME NEW v \in Workers, worker[v].step \in Holding, v # w
      PROVE  reserved'[Invoice(v)] = reserved[Invoice(v)] /\ worker'[v] = worker[v]
  <2>1. Invoice(v) # c
    BY <1>1, <1>4, OneHolder DEF Custody, Holding, At
  <2>2. Invoice(v) \in Cufes
    BY <1>4 DEF TypeOK, Equipped, Invoice, Holding
  <2> QED BY <1>1, <1>2, <1>4, <2>1, <2>2 DEF Others
<1>5. ReservationKept'
  BY <1>1, <1>4 DEF Custody, ReservationKept, Others, Holding, Holds, Invoice
<1>6. ExpenseHeld'
  <2> SUFFICES ASSUME NEW e \in Expenses, expenseOf[e] \in Cufes
               PROVE  /\ reserved'[expenseOf[e]] # None
                      /\ \/ reserved'[expenseOf[e]].expense = e
                         \/ \E v \in Workers : /\ At(v, "link")' /\ worker'[v].expense = e
                                              /\ Invoice(v)' = expenseOf[e]
    BY <1>1 DEF ExpenseHeld
  <2>1. expenseOf[e] # c
    BY <1>1, HolderFindsNone DEF Registered, At
  <2>2. reserved'[expenseOf[e]] = reserved[expenseOf[e]]
    BY <1>2, <2>1
  <2>3. \A v \in Workers : At(v, "link") => worker'[v] = worker[v]
    BY <1>1 DEF Others, At
  <2> QED BY <2>2, <2>3 DEF Custody, ExpenseHeld, At, Invoice
<1> QED BY <1>3, <1>5, <1>6 DEF Custody

LEMMA LinkKeepsCustody ==
  ASSUME SafeFaults, TypeOK, Custody, NEW w \in Workers, Link(w)
  PROVE  Custody'
<1> DEFINE c == Invoice(w)
           x == worker[w].expense
<1>1. /\ At(w, "link") /\ UNCHANGED <<status, link, expenseOf>>
      /\ Others(w) /\ worker'[w].step = "finish"
      /\ worker'[w].message = worker[w].message /\ worker'[w].row = worker[w].row
  BY FinishMoves, TypeOKWorkers DEF Link, Statuses
<1>2. c \in Cufes /\ Holds(w)
  BY <1>1 DEF TypeOK, Equipped, Invoice, At, Custody, ReservationKept
<1>3. \/ expenseOf[x] = Removed /\ UNCHANGED reserved
      \/ reserved' = [reserved EXCEPT ![c].expense = x]
  BY <1>2 DEF Link, SafeFaults
<1>4. \A d \in Cufes : d # c => reserved'[d] = reserved[d]
  BY <1>3 DEF TypeOK
<1>5. OneWorkerPerMail'
  BY <1>1, OneWorkerPerMailKept DEF Custody, At
<1>6. ASSUME NEW v \in Workers, worker[v].step \in Holding, v # w
      PROVE  reserved'[Invoice(v)] = reserved[Invoice(v)] /\ worker'[v] = worker[v]
  <2>1. Invoice(v) # c
    BY <1>1, <1>6, OneHolder DEF Custody, Holding, At
  <2>2. Invoice(v) \in Cufes
    BY <1>6 DEF TypeOK, Equipped, Invoice, Holding
  <2> QED BY <1>1, <1>4, <1>6, <2>1, <2>2 DEF Others
<1>7. ReservationKept'
  BY <1>1, <1>6 DEF Custody, ReservationKept, Others, Holding, Holds, Invoice
<1>8. ExpenseHeld'
  <2> SUFFICES ASSUME NEW e \in Expenses, expenseOf[e] \in Cufes
               PROVE  /\ reserved'[expenseOf[e]] # None
                      /\ \/ reserved'[expenseOf[e]].expense = e
                         \/ \E v \in Workers : /\ At(v, "link")' /\ worker'[v].expense = e
                                              /\ Invoice(v)' = expenseOf[e]
    BY <1>1 DEF ExpenseHeld
  <2>1. CASE expenseOf[e] = c
    <3>1. e = x
      BY <1>1, <2>1, HolderKnowsExpense
    <3>2. reserved' = [reserved EXCEPT ![c].expense = x]
      BY <1>3, <2>1, <3>1, <1>2, MailIngestionAssumption
    <3>3. reserved[c] \in Reservation
      BY <1>2 DEF Holds, TypeOK
    <3>4. reserved'[c] = [reserved[c] EXCEPT !.expense = x]
      BY <1>2, <3>2 DEF TypeOK
    <3>5. reserved'[c].expense = x /\ reserved'[c] \in Reservation
      BY <3>1, <3>3, <3>4 DEF Reservation
    <3> QED BY <2>1, <3>1, <3>5, MailIngestionAssumption
  <2>2. CASE expenseOf[e] # c
    <3>1. reserved'[expenseOf[e]] = reserved[expenseOf[e]]
      BY <1>4, <2>2
    <3>2. \A v \in Workers : At(v, "link") /\ Invoice(v) # c => worker'[v] = worker[v]
      BY <1>1 DEF Others
    <3> QED BY <2>2, <3>1, <3>2 DEF Custody, ExpenseHeld, At, Invoice
  <2> QED BY <2>1, <2>2
<1> QED BY <1>5, <1>7, <1>8 DEF Custody

LEMMA RemoveExpenseKeepsCustody ==
  ASSUME TypeOK, Custody, NEW x \in Expenses, RemoveExpense(x)
  PROVE  Custody'
<1>1. UNCHANGED <<status, worker>> /\ expenseOf' = [expenseOf EXCEPT ![x] = Removed]
  BY DEF RemoveExpense
<1>2. \A c \in Cufes :
        /\ reserved'[c] = None <=> reserved[c] = None
        /\ reserved[c] # None =>
             /\ reserved'[c].by = reserved[c].by /\ reserved'[c].message = reserved[c].message
             /\ reserved[c].expense # x => reserved'[c].expense = reserved[c].expense
             /\ reserved[c].expense = None => reserved'[c].expense = None
  <2> SUFFICES ASSUME NEW c \in Cufes, reserved[c] # None, reserved[c].expense = x
               PROVE  /\ reserved'[c] # None /\ reserved'[c].by = reserved[c].by
                      /\ reserved'[c].message = reserved[c].message
                      /\ reserved'[c].expense = None
    BY DEF RemoveExpense
  <2>1. reserved[c] \in Reservation
    BY DEF TypeOK
  <2>2. reserved'[c] = [reserved[c] EXCEPT !.expense = None]
    BY DEF RemoveExpense
  <2>3. /\ reserved'[c] \in Reservation /\ reserved'[c].by = reserved[c].by
        /\ reserved'[c].message = reserved[c].message /\ reserved'[c].expense = None
    BY <2>1, <2>2 DEF Reservation
  <2> QED BY <2>3, MailIngestionAssumption
<1>3. OneWorkerPerMail'
  BY <1>1 DEF Custody, OneWorkerPerMail, At
<1>4. ReservationKept'
  <2> SUFFICES ASSUME NEW w \in Workers, worker[w].step \in Holding
               PROVE  /\ Holds(w)' /\ reserved'[Invoice(w)].expense = None
                      /\ reserved'[Invoice(w)].message =
                           IF worker[w].row THEN worker[w].message ELSE None
    BY <1>1 DEF ReservationKept, Holding, Invoice
  <2>1. Invoice(w) \in Cufes /\ Invoice(w)' = Invoice(w)
    BY <1>1 DEF TypeOK, Equipped, Invoice, Holding
  <2> QED BY <1>2, <2>1 DEF Custody, ReservationKept, Holding, Holds
<1>5. ExpenseHeld'
  BY <1>1, <1>2, MailIngestionAssumption DEF Custody, ExpenseHeld, At, Invoice, TypeOK
<1> QED BY <1>3, <1>4, <1>5 DEF Custody

LEMMA DisconnectKeepsCustody ==
  ASSUME TypeOK, Custody, Disconnect
  PROVE  Custody'
<1>1. UNCHANGED expenseOf
  BY DEF Disconnect
<1>2. \A w \in Workers : /\ worker'[w].step = worker[w].step
                         /\ worker'[w].message = worker[w].message
                         /\ worker'[w].expense = worker[w].expense /\ worker'[w].row = FALSE
  BY DEF Disconnect, TypeOK, WorkerState
<1>3. \A c \in Cufes :
        /\ reserved'[c] = None <=> reserved[c] = None
        /\ reserved[c] # None =>
             /\ reserved'[c].by = reserved[c].by /\ reserved'[c].message = None
             /\ reserved'[c].expense = reserved[c].expense
  <2> SUFFICES ASSUME NEW c \in Cufes, reserved[c] # None
               PROVE  /\ reserved'[c] # None /\ reserved'[c].by = reserved[c].by
                      /\ reserved'[c].message = None
                      /\ reserved'[c].expense = reserved[c].expense
    BY DEF Disconnect
  <2>1. reserved[c] \in Reservation
    BY DEF TypeOK
  <2>2. reserved'[c] = [reserved[c] EXCEPT !.message = None]
    BY DEF Disconnect
  <2>3. /\ reserved'[c] \in Reservation /\ reserved'[c].by = reserved[c].by
        /\ reserved'[c].message = None /\ reserved'[c].expense = reserved[c].expense
    BY <2>1, <2>2 DEF Reservation
  <2> QED BY <2>3, MailIngestionAssumption
<1>4. OneWorkerPerMail'
  BY <1>2 DEF OneWorkerPerMail
<1>5. ReservationKept'
  <2> SUFFICES ASSUME NEW w \in Workers, worker[w].step \in Holding
               PROVE  /\ Holds(w)' /\ reserved'[Invoice(w)].expense = None
                      /\ reserved'[Invoice(w)].message = None
    BY <1>2 DEF ReservationKept, Holding, Invoice
  <2>1. Invoice(w) \in Cufes /\ Invoice(w)' = Invoice(w)
    BY <1>2 DEF TypeOK, Equipped, Invoice, Holding
  <2> QED BY <1>3, <2>1 DEF Custody, ReservationKept, Holding, Holds
<1>6. ExpenseHeld'
  BY <1>1, <1>2, <1>3 DEF Custody, ExpenseHeld, At, Invoice
<1> QED BY <1>4, <1>5, <1>6 DEF Custody

LEMMA CrashKeepsCustody ==
  ASSUME SafeFaults, TypeOK, Custody, Crash
  PROVE  Custody'
<1>1. \A w \in Workers : ~At(w, "link") /\ worker'[w].step = "idle"
  BY DEF Crash, SafeFaults, Idle
<1> QED BY <1>1 DEF Crash, Custody, OneWorkerPerMail, ReservationKept, ExpenseHeld, At

LEMMA NextKeepsCustody ==
  ASSUME SafeFaults
  PROVE  TypeOK /\ Custody /\ [Next]_vars => Custody'
<1> SUFFICES ASSUME TypeOK, Custody, [Next]_vars PROVE Custody'
  OBVIOUS
<1>1. ASSUME NEW w \in Workers, Step(w) PROVE Custody'
  BY <1>1, ReleaseStaleKeepsCustody, MarkKeepsCustody, FetchKeepsCustody, ReserveKeepsCustody,
     RegisterKeepsCustody, ReleaseKeepsCustody, LinkKeepsCustody, FinishStepKeepsCustody DEF Step
<1>2. CASE UNCHANGED vars
  BY <1>2 DEF vars, Custody, OneWorkerPerMail, ReservationKept, ExpenseHeld, At, Holds, Invoice
<1> QED BY <1>1, <1>2, BeginKeepsCustody, RemoveExpenseKeepsCustody, DisconnectKeepsCustody,
           CrashKeepsCustody DEF Next

(* However the workers interleave, and whatever fails outside the window     *)
(* between the expense and the link, no reservation is lost under a worker   *)
(* or under an expense.                                                      *)
THEOREM IngestionCustody ==
  ASSUME SafeFaults
  PROVE  Spec => []Custody
<1>1. TypeOK /\ Custody /\ [Next]_vars => Custody'
  BY NextKeepsCustody
<1> QED BY <1>1, InitCustody, IngestionTypeOK, PTL DEF Spec

(* And so an invoice that comes in many mails, processed many times by many  *)
(* workers, is in the books once.                                            *)
THEOREM InvoiceRegisteredOnce ==
  ASSUME SafeFaults
  PROVE  Spec => []AtMostOneExpense
  BY IngestionTypeOK, IngestionCustody, CustodyMeansOnce, PTL

-----------------------------------------------------------------------------
(* The books are those of InvoiceRegistry. *)

LEMMA StepImplementsRegistry ==
  ASSUME SafeFaults, TypeOK, Custody, [Next]_vars
  PROVE  [Registry!Next]_expenseOf
<1>1. ASSUME NEW w \in Workers, Step(w) PROVE [Registry!Next]_expenseOf
  <2>1. CASE Register(w)
    <3>1. CASE UNCHANGED expenseOf
      BY <3>1
    <3>2. ASSUME NEW e \in Expenses, expenseOf[e] = Unused,
                 expenseOf' = [expenseOf EXCEPT ![e] = Invoice(w)]
          PROVE  Registry!Next
      <4>1. Invoice(w) \in Cufes
        BY <2>1 DEF Register, TypeOK, Equipped, Invoice, At
      <4>2. ~Registry!Registered(Invoice(w))
        BY <2>1, HolderFindsNone DEF Register, At, Registered, Registry!Registered
      <4> QED BY <3>2, <4>1, <4>2 DEF Registry!Next, Registry!Register
    <3> QED BY <2>1, <3>1, <3>2 DEF Register
  <2>2. CASE ~Register(w)
    BY <1>1, <2>2 DEF Step, ReleaseStale, Mark, Fetch, Reserve, Release, Link, FinishStep
  <2> QED BY <2>1, <2>2
<1>2. ASSUME NEW e \in Expenses, RemoveExpense(e) PROVE Registry!Next
  BY <1>2 DEF RemoveExpense, Registry!Next, Registry!Remove
<1>3. ASSUME NEW w \in Workers, NEW m \in Messages, Ingest(w, m) \/ BeginRetry(w, m)
      PROVE  UNCHANGED expenseOf
  BY <1>3 DEF Ingest, BeginRetry
<1>4. Disconnect \/ Crash \/ UNCHANGED vars => UNCHANGED expenseOf
  BY DEF Disconnect, Crash, vars
<1> QED BY <1>1, <1>2, <1>3, <1>4 DEF Next

(* MailIngestionService keeps the promise of the registry: every step of a   *)
(* worker, of the user or of the machine registers an invoice that is not    *)
(* registered, deletes an expense, or leaves the books as they are.          *)
THEOREM IngestionImplementsRegistry ==
  ASSUME SafeFaults
  PROVE  Spec => ImplementsRegistry
<1>1. Init => Registry!Init
  BY DEF Init, Registry!Init
<1>2. TypeOK /\ Custody /\ [Next]_vars => [Registry!Next]_expenseOf
  BY StepImplementsRegistry
<1> QED BY <1>1, <1>2, IngestionTypeOK, IngestionCustody, PTL
        DEF Spec, ImplementsRegistry, Registry!Spec

-----------------------------------------------------------------------------
(* References.  An expense that a worker still has to link, or to name in    *)
(* the status of its mail, registers the invoice of that mail until the user *)
(* removes it; one that is still to be linked is nobody else's.              *)

Carrying(w) == At(w, "link") \/ (At(w, "finish") /\ worker[w].outcome = "registered")

InHand ==
  \A w \in Workers : Carrying(w) =>
    Invoice(w) \in Cufes /\ expenseOf[worker[w].expense] \in {Invoice(w), Removed}

OwnExpense ==
  \A w \in Workers : At(w, "link") =>
    /\ \A v \in Workers : Carrying(v) /\ worker[v].expense = worker[w].expense => v = w
    /\ \A m \in Messages : link[m] # worker[w].expense

Logged ==
  \A m \in Messages : link[m] # None =>
    /\ status[m] \in {"registered", "processing"}
    /\ Carries[m] \in Cufes /\ expenseOf[link[m]] = Carries[m]

Matched ==
  \A c \in Cufes : reserved[c] # None /\ reserved[c].expense # None =>
    expenseOf[reserved[c].expense] = c

References == InHand /\ OwnExpense /\ Logged /\ Matched

LEMMA InitReferences == Init => References
  BY DEF Init, References, InHand, OwnExpense, Logged, Matched, Carrying, At, Idle

(* A step of a worker that is not left with an expense it did not carry.     *)
LEMMA HandsKept ==
  ASSUME InHand, OwnExpense, NEW w \in Workers, Others(w), worker'[w].step # "link",
         Carrying(w)' => /\ Carrying(w) /\ worker'[w].message = worker[w].message
                         /\ worker'[w].expense = worker[w].expense,
         UNCHANGED expenseOf,
         \A m \in Messages : link'[m] # link[m] => 
           \/ link'[m] = None /\ \A v \in Workers : At(v, "link") => worker[v].expense # None
           \/ Carrying(w) /\ link'[m] = worker[w].expense
  PROVE  InHand' /\ OwnExpense'
<1>1. \A v \in Workers : Carrying(v)' =>
        /\ Carrying(v) /\ worker'[v].message = worker[v].message
        /\ worker'[v].expense = worker[v].expense
  BY DEF Others, Carrying, At
<1>2. \A v \in Workers : At(v, "link")' => At(v, "link") /\ v # w
  BY DEF Others, At
<1>3. InHand'
  BY <1>1 DEF InHand, Invoice
<1>4. OwnExpense'
  <2> SUFFICES ASSUME NEW v \in Workers, At(v, "link")'
               PROVE  /\ \A u \in Workers :
                           Carrying(u)' /\ worker'[u].expense = worker'[v].expense => u = v
                      /\ \A m \in Messages : link'[m] # worker'[v].expense
    BY DEF OwnExpense
  <2>1. At(v, "link") /\ v # w /\ worker'[v].expense = worker[v].expense
    BY <1>1, <1>2 DEF Carrying
  <2>2. \A u \in Workers : Carrying(u)' /\ worker'[u].expense = worker'[v].expense => u = v
    BY <1>1, <2>1 DEF OwnExpense
  <2>3. ASSUME NEW m \in Messages PROVE link'[m] # worker'[v].expense
    BY <2>1 DEF OwnExpense
  <2> QED BY <2>2, <2>3
<1> QED BY <1>3, <1>4

LEMMA LinkersHaveExpense ==
  ASSUME WorkersOK
  PROVE  \A v \in Workers : Carrying(v) => worker[v].expense \in Expenses
  BY DEF WorkersOK, Equipped, Carrying, At

(* Reading the mail, asking for its invoice and giving the reservation back  *)
(* put no expense in anyone's hands.                                         *)
LEMMA EarlyStepKeepsReferences ==
  ASSUME TypeOK, References, NEW w \in Workers,
         ReleaseStale(w) \/ Mark(w) \/ Fetch(w) \/ Reserve(w) \/ Release(w)
  PROVE  References'
<1>1. /\ Others(w) /\ worker'[w].step # "link" /\ ~Carrying(w)'
      /\ UNCHANGED <<link, expenseOf>>
  BY GoToMoves, FinishMoves, RestMoves, TypeOKWorkers
     DEF ReleaseStale, Mark, Fetch, Reserve, ReserveFails, Release, Carrying, At, Steps, Statuses
<1>2. InHand' /\ OwnExpense'
  BY <1>1, HandsKept DEF References
<1>3. \A m \in Messages : status'[m] \in {status[m], "processing"}
  BY DEF ReleaseStale, Mark, Fetch, Reserve, Release, TypeOK
<1>4. Logged'
  BY <1>1, <1>3 DEF References, Logged
<1>5. \A c \in Cufes : reserved'[c] # None /\ reserved'[c].expense # None =>
        reserved'[c] = reserved[c]
  BY DEF ReleaseStale, Mark, Fetch, Reserve, Release, TypeOK
<1>6. Matched'
  BY <1>1, <1>5 DEF References, Matched
<1> QED BY <1>2, <1>4, <1>6 DEF References

LEMMA RegisterKeepsReferences ==
  ASSUME TypeOK, References, NEW w \in Workers, Register(w)
  PROVE  References'
<1>1. At(w, "register") /\ UNCHANGED <<status, link, reserved>> /\ ~Carrying(w)
  BY DEF Register, At, Carrying
<1>2. CASE UNCHANGED expenseOf /\ GoTo(w, "release")
  <2>1. Others(w) /\ worker'[w].step # "link" /\ ~Carrying(w)'
    BY <1>2, GoToMoves, TypeOKWorkers DEF Carrying, At, Steps
  <2>2. InHand' /\ OwnExpense'
    BY <1>1, <1>2, <2>1, HandsKept DEF References
  <2> QED BY <1>1, <1>2, <2>2 DEF References, Logged, Matched
<1>3. ASSUME NEW e \in Expenses, expenseOf[e] = Unused,
             expenseOf' = [expenseOf EXCEPT ![e] = Invoice(w)],
             \/ worker' = [worker EXCEPT ![w].step = "link", ![w].expense = e]
             \/ GoTo(w, "release")
      PROVE  References'
  <2>1. Others(w) /\ worker'[w].message = worker[w].message
        /\ ((At(w, "link")' /\ worker'[w].expense = e) \/ ~Carrying(w)')
    <3>1. CASE GoTo(w, "release")
      BY <3>1, GoToMoves, TypeOKWorkers DEF Carrying, At, Steps
    <3>2. CASE worker' = [worker EXCEPT ![w].step = "link", ![w].expense = e]
      <4>1. worker[w] \in WorkerState /\ worker \in [Workers -> WorkerState]
        BY DEF TypeOK
      <4> QED BY <3>2, <4>1 DEF At, Others, WorkerState
    <3> QED BY <1>3, <3>1, <3>2
  <2>2. Invoice(w) \in Cufes /\ Invoice(w)' = Invoice(w)
    BY <1>1, <2>1 DEF TypeOK, Equipped, At, Invoice
  <2>3. expenseOf'[e] = Invoice(w) /\ \A f \in Expenses : f # e => expenseOf'[f] = expenseOf[f]
    BY <1>3 DEF TypeOK
  <2>4. /\ \A v \in Workers : Carrying(v) => worker[v].expense \in Expenses \ {e}
        /\ \A m \in Messages : link[m] # None => link[m] \in Expenses \ {e}
        /\ \A c \in Cufes : reserved[c] # None /\ reserved[c].expense # None =>
             reserved[c].expense \in Expenses \ {e}
    <3>1. \A v \in Workers : Carrying(v) => worker[v].expense \in Expenses \ {e}
      BY <1>3, LinkersHaveExpense, TypeOKWorkers, MailIngestionAssumption
         DEF References, InHand
    <3>2. \A m \in Messages : link[m] # None => link[m] \in Expenses \ {e}
      BY <1>3, MailIngestionAssumption DEF References, Logged, TypeOK
    <3>3. \A c \in Cufes : reserved[c] # None /\ reserved[c].expense # None =>
             reserved[c].expense \in Expenses \ {e}
      BY <1>3, MailIngestionAssumption DEF References, Matched, TypeOK, Reservation
    <3> QED BY <3>1, <3>2, <3>3
  <2>5. \A v \in Workers : Carrying(v)' =>
          \/ v = w /\ worker'[v].expense = e /\ Invoice(v)' = Invoice(w)
          \/ v # w /\ Carrying(v) /\ worker'[v] = worker[v]
    BY <2>1, <2>2 DEF Others, Carrying, At
  <2>6. InHand'
    BY <2>2, <2>3, <2>4, <2>5 DEF References, InHand, Invoice
  <2>7. OwnExpense'
    <3> SUFFICES ASSUME NEW v \in Workers, At(v, "link")'
                 PROVE  /\ \A u \in Workers :
                             Carrying(u)' /\ worker'[u].expense = worker'[v].expense => u = v
                        /\ \A m \in Messages : link[m] # worker'[v].expense
      BY <1>1 DEF OwnExpense
    <3>1. Carrying(v)'
      BY DEF Carrying
    <3>2. CASE v = w
      BY <2>4, <2>5, <3>1, <3>2, MailIngestionAssumption
    <3>3. CASE v # w
      <4>1. At(v, "link") /\ worker'[v] = worker[v] /\ worker[v].expense # e
        BY <2>4, <2>5, <3>1, <3>3 DEF At
      <4> QED BY <2>5, <4>1 DEF References, OwnExpense
    <3> QED BY <3>2, <3>3
  <2>8. Logged'
    BY <1>1, <2>3, <2>4 DEF References, Logged
  <2>9. Matched'
    BY <1>1, <2>3, <2>4 DEF References, Matched
  <2> QED BY <2>6, <2>7, <2>8, <2>9 DEF References
<1> QED BY <1>2, <1>3 DEF Register

LEMMA LinkKeepsReferences ==
  ASSUME TypeOK, References, NEW w \in Workers, Link(w)
  PROVE  References'
<1> DEFINE c == Invoice(w)
           x == worker[w].expense
<1>1. /\ At(w, "link") /\ UNCHANGED <<status, link, expenseOf>> /\ Carrying(w)
      /\ Others(w) /\ worker'[w].step = "finish"
      /\ worker'[w].message = worker[w].message /\ worker'[w].expense = worker[w].expense
  BY FinishMoves, TypeOKWorkers DEF Link, Statuses, Carrying
<1>2. InHand' /\ OwnExpense'
  BY <1>1, HandsKept DEF References
<1>3. Logged'
  BY <1>1 DEF References, Logged
<1>4. CASE UNCHANGED reserved
  BY <1>1, <1>2, <1>3, <1>4 DEF References, Matched
<1>5. CASE expenseOf[x] # Removed /\ Holds(w) /\ reserved' = [reserved EXCEPT ![c].expense = x]
  <2>1. c \in Cufes /\ expenseOf[x] = c
    BY <1>1, <1>5 DEF References, InHand
  <2>2. reserved[c] \in Reservation
    BY <1>5, <2>1 DEF Holds, TypeOK
  <2>3. reserved'[c] = [reserved[c] EXCEPT !.expense = x]
    BY <1>5, <2>1 DEF TypeOK
  <2>4. reserved'[c].expense = x
    BY <2>2, <2>3 DEF Reservation
  <2>5. \A d \in Cufes : d # c => reserved'[d] = reserved[d]
    BY <1>5 DEF TypeOK
  <2>6. Matched'
    BY <1>1, <2>1, <2>4, <2>5 DEF References, Matched
  <2> QED BY <1>2, <1>3, <2>6 DEF References
<1> QED BY <1>4, <1>5 DEF Link

LEMMA FinishStepKeepsReferences ==
  ASSUME TypeOK, References, NEW w \in Workers, FinishStep(w)
  PROVE  References'
<1> DEFINE m == worker[w].message
           e == IF worker[w].outcome = "registered" THEN worker[w].expense ELSE None
<1>1. /\ At(w, "finish") /\ UNCHANGED <<reserved, expenseOf>> /\ Others(w) /\ ~Carrying(w)'
      /\ worker'[w].step # "link"
  BY FinishMoves, RestMoves, TypeOKWorkers DEF FinishStep, Statuses, Carrying, At
<1>2. \/ UNCHANGED <<status, link>>
      \/ /\ ~(e # None /\ expenseOf[e] = Removed)
         /\ status' = [status EXCEPT ![m] = worker[w].outcome]
         /\ link' = [link EXCEPT ![m] = e]
  BY DEF FinishStep
<1>3. m \in Messages
  BY <1>1 DEF TypeOK, Equipped, At
<1>4. e # None => Carrying(w) /\ e = worker[w].expense /\ worker[w].outcome = "registered"
  BY <1>1 DEF Carrying
<1>5. \A n \in Messages : \/ link'[n] = link[n] /\ status'[n] = status[n]
                          \/ n = m /\ link'[n] = e /\ status'[n] = worker[w].outcome
                             /\ ~(e # None /\ expenseOf[e] = Removed)
  BY <1>2 DEF TypeOK
<1> HIDE DEF e
<1>6. InHand' /\ OwnExpense'
  BY <1>1, <1>4, <1>5, HandsKept, LinkersHaveExpense, TypeOKWorkers, MailIngestionAssumption
     DEF References, Carrying
<1>7. Logged'
  <2> SUFFICES ASSUME NEW n \in Messages, link'[n] # None
               PROVE  /\ status'[n] \in {"registered", "processing"}
                      /\ Carries[n] \in Cufes /\ expenseOf[link'[n]] = Carries[n]
    BY <1>1 DEF Logged
  <2>1. CASE link'[n] = link[n] /\ status'[n] = status[n]
    BY <2>1 DEF References, Logged
  <2>2. CASE n = m /\ link'[n] = e /\ status'[n] = worker[w].outcome /\ expenseOf[e] # Removed
    BY <1>4, <2>2 DEF References, InHand, Invoice
  <2> QED BY <1>5, <2>1, <2>2
<1>8. Matched'
  BY <1>1 DEF References, Matched
<1> QED BY <1>6, <1>7, <1>8 DEF References

LEMMA BeginKeepsReferences ==
  ASSUME TypeOK, References, NEW w \in Workers, NEW m \in Messages,
         Ingest(w, m) \/ BeginRetry(w, m)
  PROVE  References'
<1> DEFINE s(t) == [Idle EXCEPT !.step = t, !.message = m, !.row = TRUE]
<1>1. PICK t \in {"fetch", "releaseStale"} :
        UNCHANGED worker \/ worker' = [worker EXCEPT ![w] = s(t)]
  BY DEF Ingest, BeginRetry
<1>2. s(t).step \notin {"link", "finish"}
  BY DEF Idle
<1>3. At(w, "idle") /\ UNCHANGED <<reserved, expenseOf>>
  BY DEF Ingest, BeginRetry
<1> HIDE DEF s
<1>4. Others(w) /\ worker'[w].step \notin {"link", "finish"}
  BY <1>1, <1>2, <1>3 DEF Others, At, TypeOK
<1>5. \A n \in Messages : \/ link'[n] = link[n] /\ status'[n] = status[n]
                          \/ link'[n] = None
  BY DEF Ingest, BeginRetry, TypeOK
<1>6. InHand' /\ OwnExpense'
  BY <1>3, <1>4, <1>5, HandsKept, LinkersHaveExpense, TypeOKWorkers, MailIngestionAssumption
     DEF References, Carrying, At
<1> QED BY <1>3, <1>5, <1>6 DEF References, Logged, Matched

LEMMA RemoveExpenseKeepsReferences ==
  ASSUME TypeOK, References, NEW x \in Expenses, RemoveExpense(x)
  PROVE  References'
<1>1. UNCHANGED <<status, worker>> /\ expenseOf' = [expenseOf EXCEPT ![x] = Removed]
  BY DEF RemoveExpense
<1>2. /\ expenseOf'[x] = Removed
      /\ \A f \in Expenses : f # x => expenseOf'[f] = expenseOf[f]
  BY <1>1 DEF TypeOK
<1>3. \A m \in Messages : link'[m] # None => link'[m] = link[m] /\ link[m] \in Expenses \ {x}
  BY DEF RemoveExpense, TypeOK
<1>4. ASSUME NEW c \in Cufes, reserved'[c] # None, reserved'[c].expense # None
      PROVE  reserved'[c] = reserved[c] /\ reserved[c].expense \in Expenses \ {x}
  <2>1. reserved[c] # None
    BY <1>4 DEF RemoveExpense
  <2>2. reserved[c] \in Reservation
    BY <2>1 DEF TypeOK
  <2>3. reserved[c].expense # x
    <3> SUFFICES ASSUME reserved[c].expense = x PROVE FALSE
      OBVIOUS
    <3>1. reserved'[c] = [reserved[c] EXCEPT !.expense = None]
      BY <2>1 DEF RemoveExpense
    <3> QED BY <1>4, <2>2, <3>1 DEF Reservation
  <2> QED BY <1>4, <2>2, <2>3 DEF RemoveExpense, Reservation
<1>5. InHand'
  BY <1>1, <1>2, LinkersHaveExpense, TypeOKWorkers DEF References, InHand, Carrying, At, Invoice
<1>6. OwnExpense'
  <2>1. \A v \in Workers : At(v, "link") => worker[v].expense # None
    BY LinkersHaveExpense, TypeOKWorkers, MailIngestionAssumption DEF Carrying
  <2> QED BY <1>1, <1>3, <2>1 DEF References, OwnExpense, Carrying, At
<1>7. Logged'
  BY <1>1, <1>2, <1>3 DEF References, Logged
<1>8. Matched'
  BY <1>2, <1>4 DEF References, Matched
<1> QED BY <1>5, <1>6, <1>7, <1>8 DEF References

LEMMA DisconnectKeepsReferences ==
  ASSUME TypeOK, References, Disconnect
  PROVE  References'
<1>1. UNCHANGED expenseOf /\ \A m \in Messages : link'[m] = None
  BY DEF Disconnect
<1>2. \A w \in Workers : /\ worker'[w].step = worker[w].step
                         /\ worker'[w].outcome = worker[w].outcome
                         /\ worker'[w].message = worker[w].message
                         /\ worker'[w].expense = worker[w].expense
  BY DEF Disconnect, TypeOK, WorkerState
<1>3. ASSUME NEW c \in Cufes, reserved'[c] # None
      PROVE  reserved[c] # None /\ reserved'[c].expense = reserved[c].expense
  <2>1. reserved[c] # None /\ reserved'[c] = [reserved[c] EXCEPT !.message = None]
    BY <1>3 DEF Disconnect
  <2>2. reserved[c] \in Reservation
    BY <2>1 DEF TypeOK
  <2> QED BY <2>1, <2>2 DEF Reservation
<1>4. \A v \in Workers : At(v, "link") => worker[v].expense # None
  BY LinkersHaveExpense, TypeOKWorkers, MailIngestionAssumption DEF Carrying
<1>5. InHand'
  BY <1>1, <1>2 DEF References, InHand, Carrying, At, Invoice
<1>6. OwnExpense'
  BY <1>1, <1>2, <1>4 DEF References, OwnExpense, Carrying, At
<1>7. Logged' /\ Matched'
  BY <1>1, <1>3 DEF References, Logged, Matched
<1> QED BY <1>5, <1>6, <1>7 DEF References

LEMMA NextKeepsReferences == TypeOK /\ References /\ [Next]_vars => References'
<1> SUFFICES ASSUME TypeOK, References, [Next]_vars PROVE References'
  OBVIOUS
<1>1. ASSUME NEW w \in Workers, Step(w) PROVE References'
  BY <1>1, EarlyStepKeepsReferences, RegisterKeepsReferences, LinkKeepsReferences,
     FinishStepKeepsReferences DEF Step
<1>2. CASE UNCHANGED vars
  BY <1>2 DEF vars, References, InHand, OwnExpense, Logged, Matched, Carrying, At, Invoice
<1>3. CASE Crash
  <2>1. \A w \in Workers : ~Carrying(w)'
    BY <1>3 DEF Crash, Carrying, At, Idle
  <2> QED BY <1>3, <2>1
          DEF Crash, References, InHand, OwnExpense, Logged, Matched, Carrying
<1> QED BY <1>1, <1>2, <1>3, BeginKeepsReferences, RemoveExpenseKeepsReferences,
           DisconnectKeepsReferences DEF Next

LEMMA IngestionReferences == Spec => []References
  BY InitReferences, NextKeepsReferences, IngestionTypeOK, PTL DEF Spec

(* Whatever fails, in any order, no mail and no invoice names an expense     *)
(* that is not in the books, or one that registers another invoice.          *)
THEOREM LinksStaySound == Spec => []LinksSound
<1>1. References => LinksSound
  BY DEF References, Logged, Matched, LinksSound
<1> QED BY <1>1, IngestionReferences, PTL

(* And outside the faults that lose an invoice, the log and the reservations *)
(* name the same expense: the one in the books.                              *)
THEOREM LogNamesTheBooks ==
  ASSUME SafeFaults
  PROVE  Spec => []LogAndLinksSound
<1>1. TypeOK /\ Custody /\ References => LogMatchesBooks
  <2> SUFFICES ASSUME TypeOK, Custody, References, NEW m \in Messages, link[m] # None
               PROVE  /\ reserved[Carries[m]] # None
                      /\ reserved[Carries[m]].expense = link[m]
    BY DEF LogMatchesBooks, References, Logged
  <2>1. link[m] \in Expenses /\ expenseOf[link[m]] = Carries[m] /\ Carries[m] \in Cufes
    BY DEF TypeOK, References, Logged
  <2>2. \A w \in Workers : At(w, "link") => worker[w].expense # link[m]
    BY DEF References, OwnExpense
  <2> QED BY <2>1, <2>2 DEF Custody, ExpenseHeld
<1> QED BY <1>1, LinksStaySound, IngestionTypeOK, IngestionCustody, IngestionReferences, PTL
        DEF LogAndLinksSound

-----------------------------------------------------------------------------
(* Why a duplicate does not lose its invoice.  As long as no expense was     *)
(* removed, whoever comes late finds the reservation of a mail that is still *)
(* to be finished, or that a later attempt finishes, or of an expense.       *)

Lasting == SafeFaults /\ Faults \cap {"disconnect", "disconnectInFlight"} = {}

Removal == \E e \in Expenses : expenseOf[e] = Removed

(* the mail of a worker stays one that can be retried until it is finished *)
Attended ==
  \A w \in Workers : ~At(w, "idle") =>
    worker[w].row /\ status[worker[w].message] \in RETRYABLE

GivenUp(w) == At(w, "finish") /\ worker[w].outcome \in {"duplicate", "noInvoice"}

Pending(c) == reserved[c] # None /\ reserved[c].expense = None

(* a worker that has yet to reserve, or that gave its mail up, has not left  *)
(* a reservation of that mail behind                                         *)
Fresh ==
  \A w \in Workers : worker[w].step \in {"mark", "fetch", "reserve"} \/ GivenUp(w) =>
    \A c \in Cufes : Pending(c) => reserved[c].message # worker[w].message

Rooted ==
  \A c \in Cufes : reserved[c] # None =>
    /\ reserved[c].message \in Messages
    /\ status[reserved[c].message] # "absent"
    /\ Pending(c) => /\ Carries[reserved[c].message] = c
                     /\ status[reserved[c].message] \in RETRYABLE

(* a mail with the invoice that nobody has given up *)
Hope(c) ==
  \E n \in Messages :
    /\ Carries[n] = c /\ status[n] \in RETRYABLE
    /\ \A w \in Workers : GivenUp(w) => worker[w].message # n

Settled(c) == c \in Cufes /\ (Registered(c) \/ Hope(c))

Justified ==
  /\ \A m \in Messages : status[m] = "duplicate" => Settled(Carries[m])
  /\ \A w \in Workers : At(w, "finish") /\ worker[w].outcome = "duplicate" => Settled(Invoice(w))

Anchored == Attended /\ Fresh /\ Rooted /\ Justified

(* No expense of the books is ever brought back, so a removal is for good.   *)
LEMMA RemovalLasts ==
  ASSUME TypeOK, [Next]_vars, Removal
  PROVE  Removal'
<1> PICK e \in Expenses : expenseOf[e] = Removed
  BY DEF Removal
<1> SUFFICES expenseOf'[e] = Removed
  BY DEF Removal
<1>1. ASSUME NEW w \in Workers, Step(w) PROVE expenseOf'[e] = Removed
  BY <1>1, MailIngestionAssumption
     DEF Step, ReleaseStale, Mark, Fetch, Reserve, Register, Release, Link, FinishStep, TypeOK
<1>2. ASSUME NEW x \in Expenses, RemoveExpense(x) PROVE expenseOf'[e] = Removed
  BY <1>2 DEF RemoveExpense, TypeOK
<1>3. ASSUME NEW w \in Workers, NEW m \in Messages, Ingest(w, m) \/ BeginRetry(w, m)
      PROVE  expenseOf'[e] = Removed
  BY <1>3 DEF Ingest, BeginRetry
<1> QED BY <1>1, <1>2, <1>3 DEF Next, vars, Disconnect, Crash

(* The hope of an invoice rests on a mail; it lasts while that mail can be   *)
(* retried and nobody gives it up.                                           *)
LEMMA HopeLasts ==
  ASSUME NEW n \in Messages, status'[n] \in RETRYABLE,
         \A w \in Workers : GivenUp(w) => worker[w].message # n,
         \A w \in Workers : GivenUp(w)' =>
           (GivenUp(w) /\ worker'[w].message = worker[w].message) \/ worker'[w].message # n
  PROVE  Hope(Carries[n])'
  BY DEF Hope

(* Who is not given up leads with a pending reservation to a hope. *)
LEMMA PendingIsHope ==
  ASSUME TypeOK, Anchored, NEW c \in Cufes, Pending(c)
  PROVE  Hope(c)
<1>1. reserved[c] # None
  BY DEF Pending
<1>2. /\ reserved[c].message \in Messages /\ Carries[reserved[c].message] = c
      /\ status[reserved[c].message] \in RETRYABLE
  BY <1>1 DEF Anchored, Rooted
<1>3. \A w \in Workers : GivenUp(w) => worker[w].message # reserved[c].message
  BY DEF Anchored, Fresh
<1> QED BY <1>2, <1>3 DEF Hope

(* A reserved invoice is in the books, or a mail will see to it.             *)
LEMMA ReservedIsSettled ==
  ASSUME TypeOK, References, Anchored, NEW c \in Cufes, reserved[c] # None
  PROVE  Settled(c)
<1>1. CASE reserved[c].expense = None
  BY <1>1, PendingIsHope DEF Pending, Settled
<1>2. CASE reserved[c].expense # None
  <2>1. reserved[c].expense \in Expenses
    BY <1>2 DEF TypeOK, Reservation
  <2> QED BY <1>2, <2>1 DEF References, Matched, Settled, Registered
<1> QED BY <1>1, <1>2

(* An expense in the books is registered as long as none is removed. *)
LEMMA RegisteredLasts ==
  ASSUME TypeOK, [Next]_vars, ~Removal', NEW c \in Cufes, Registered(c)
  PROVE  Registered(c)'
<1> PICK e \in Expenses : expenseOf[e] = c
  BY DEF Registered
<1> SUFFICES expenseOf'[e] = c
  BY DEF Registered
<1>1. ASSUME NEW w \in Workers, Step(w) PROVE expenseOf'[e] = c
  BY <1>1, MailIngestionAssumption
     DEF Step, ReleaseStale, Mark, Fetch, Reserve, Register, Release, Link, FinishStep, TypeOK
<1>2. ASSUME NEW x \in Expenses, RemoveExpense(x) PROVE FALSE
  BY <1>2 DEF RemoveExpense, TypeOK, Removal
<1>3. ASSUME NEW w \in Workers, NEW m \in Messages, Ingest(w, m) \/ BeginRetry(w, m)
      PROVE  expenseOf'[e] = c
  BY <1>3 DEF Ingest, BeginRetry
<1> QED BY <1>1, <1>2, <1>3 DEF Next, vars, Disconnect, Crash

(* What a step has to show for the invoices: each keeps its hope, or is in   *)
(* the books; and what it newly calls a duplicate was settled.               *)
LEMMA JustifiedKept ==
  ASSUME TypeOK, [Next]_vars, ~Removal', Anchored,
         \A c \in Cufes : Hope(c) => Hope(c)' \/ Registered(c)',
         \A m \in Messages : status'[m] = "duplicate" =>
           \/ status[m] = "duplicate"
           \/ \E w \in Workers : /\ At(w, "finish") /\ worker[w].outcome = "duplicate"
                                /\ worker[w].message = m,
         \A w \in Workers : At(w, "finish")' /\ worker'[w].outcome = "duplicate" =>
           \/ /\ At(w, "finish") /\ worker[w].outcome = "duplicate"
              /\ worker'[w].message = worker[w].message
           \/ Settled(Invoice(w)')
  PROVE  Justified'
<1>1. \A c : Settled(c) => Settled(c)'
  BY RegisteredLasts DEF Settled
<1>2. \A m \in Messages : status'[m] = "duplicate" => Settled(Carries[m])
  BY DEF Anchored, Justified, Invoice
<1>3. \A w \in Workers : At(w, "finish")' /\ worker'[w].outcome = "duplicate" =>
        Settled(Carries[worker'[w].message])
  BY DEF Anchored, Justified, Invoice
<1>4. \A m \in Messages : status'[m] = "duplicate" => Settled(Carries[m])'
  BY <1>1, <1>2
<1>5. \A w \in Workers : At(w, "finish")' /\ worker'[w].outcome = "duplicate" =>
        Settled(Carries[worker[w].message])'
  BY <1>1, <1>3
<1> QED BY <1>4, <1>5 DEF Justified, Invoice

(* A worker that goes on with its mail, or rests, and reserves nothing. *)
LEMMA AnchorsKept ==
  ASSUME TypeOK, Anchored, NEW w \in Workers, ~At(w, "idle"), Others(w),
         \/ worker'[w].step = "idle"
         \/ worker'[w].message = worker[w].message /\ worker'[w].row = worker[w].row,
         \A c \in Cufes : reserved'[c] # None =>
           /\ reserved[c] # None /\ reserved'[c].message = reserved[c].message
           /\ reserved'[c].expense = None => reserved[c].expense = None,
         \A m \in Messages : status'[m] = status[m] \/ status'[m] = "processing",
         worker'[w].step \in {"mark", "fetch", "reserve"} \/ GivenUp(w)' =>
           \A c \in Cufes : Pending(c)' => reserved'[c].message # worker[w].message
  PROVE  Attended' /\ Fresh' /\ Rooted'
<1>1. \A v \in Workers : ~At(v, "idle")' =>
        /\ ~At(v, "idle") /\ worker'[v].message = worker[v].message
        /\ worker'[v].row = worker[v].row /\ worker[v].message \in Messages
  BY DEF Others, At, TypeOK, Equipped
<1>2. \A m \in Messages : status[m] \in RETRYABLE => status'[m] \in RETRYABLE
  BY DEF RETRYABLE
<1>3. Attended'
  BY <1>1, <1>2 DEF Anchored, Attended
<1>4. Fresh'
  <2> SUFFICES ASSUME NEW v \in Workers, NEW c \in Cufes, Pending(c)',
                      worker'[v].step \in {"mark", "fetch", "reserve"} \/ GivenUp(v)'
               PROVE  reserved'[c].message # worker'[v].message
    BY DEF Fresh
  <2>1. CASE v = w
    BY <2>1 DEF GivenUp, At
  <2>2. CASE v # w
    <3>1. worker'[v] = worker[v]
      BY <2>2 DEF Others
    <3>2. worker[v].step \in {"mark", "fetch", "reserve"} \/ GivenUp(v)
      BY <3>1 DEF GivenUp, At
    <3>3. Pending(c) /\ reserved'[c].message = reserved[c].message
      BY DEF Pending
    <3> QED BY <3>1, <3>2, <3>3 DEF Anchored, Fresh
  <2> QED BY <2>1, <2>2
<1>5. Rooted'
  <2> SUFFICES ASSUME NEW c \in Cufes, reserved'[c] # None
               PROVE  /\ reserved'[c].message \in Messages
                      /\ status'[reserved'[c].message] # "absent"
                      /\ Pending(c)' => /\ Carries[reserved'[c].message] = c
                                        /\ status'[reserved'[c].message] \in RETRYABLE
    BY DEF Rooted
  <2>1. /\ reserved[c].message \in Messages /\ reserved'[c].message = reserved[c].message
        /\ status[reserved[c].message] # "absent"
        /\ Pending(c)' => /\ Carries[reserved[c].message] = c
                          /\ status[reserved[c].message] \in RETRYABLE
    BY DEF Anchored, Rooted, Pending
  <2> QED BY <1>2, <2>1
<1> QED BY <1>3, <1>4, <1>5

(* ... and gives up no mail that carries an invoice. *)
LEMMA HopesKept ==
  ASSUME NEW w \in Workers, Others(w),
         \A m \in Messages : status'[m] = status[m] \/ status'[m] = "processing",
         GivenUp(w)' => Invoice(w) \notin Cufes /\ worker'[w].message = worker[w].message
  PROVE  \A c \in Cufes : Hope(c) => Hope(c)'
<1> SUFFICES ASSUME NEW c \in Cufes, NEW n \in Messages, Carries[n] = c,
                    status[n] \in RETRYABLE,
                    \A v \in Workers : GivenUp(v) => worker[v].message # n
             PROVE  Hope(c)'
  BY DEF Hope
<1>1. status'[n] \in RETRYABLE
  BY DEF RETRYABLE
<1>2. \A v \in Workers : GivenUp(v)' => worker'[v].message # n
  BY DEF GivenUp, At, Others, Invoice
<1> QED BY <1>1, <1>2 DEF Hope

LEMMA EarlyStepKeepsAnchored ==
  ASSUME TypeOK, [Next]_vars, ~Removal', Anchored, NEW w \in Workers,
         ReleaseStale(w) \/ Mark(w) \/ Fetch(w)
  PROVE  Anchored'
<1>1. /\ ~At(w, "idle") /\ Others(w)
      /\ \/ worker'[w].step = "idle"
         \/ worker'[w].message = worker[w].message /\ worker'[w].row = worker[w].row
      /\ worker'[w].step = "mark" => ReleaseStale(w) /\ GoTo(w, "mark")
      /\ worker'[w].step = "fetch" => Mark(w)
      /\ worker'[w].step \in {"reserve", "finish"} => Fetch(w)
      /\ worker'[w].step = "finish" /\ Invoice(w) \in Cufes => worker'[w].outcome = "failed"
      /\ worker'[w].step = "finish" => worker'[w].outcome # "duplicate"
  BY GoToMoves, FinishMoves, RestMoves, TypeOKWorkers, MailIngestionAssumption
     DEF ReleaseStale, Mark, Fetch, At, Steps, Statuses
<1>2. \A c \in Cufes : reserved'[c] # None => reserved'[c] = reserved[c]
  BY DEF ReleaseStale, Mark, Fetch
<1>3. \A m \in Messages : status'[m] = status[m] \/ status'[m] = "processing"
  BY DEF ReleaseStale, Mark, Fetch, TypeOK
<1>4. ASSUME worker'[w].step \in {"mark", "fetch", "reserve"} \/ GivenUp(w)',
             NEW c \in Cufes, Pending(c)'
      PROVE  reserved'[c].message # worker[w].message
  <2>1. reserved'[c] = reserved[c] /\ Pending(c)
    BY <1>2, <1>4 DEF Pending
  <2>2. CASE worker'[w].step = "mark"
    <3>1. ~Stale(w, c) 
      BY <1>1, <1>4, <2>2, FinishMoves, RestMoves, TypeOKWorkers DEF ReleaseStale, Pending, GoTo, Rest, Idle, TypeOK
    <3> QED BY <1>1, <2>1, <2>2, <3>1 DEF Stale, Pending, Anchored, Attended
  <2>3. CASE worker'[w].step # "mark"
    <3>1. worker[w].step \in {"mark", "fetch"}
      BY <1>1, <1>4, <2>3 DEF Mark, Fetch, At, GivenUp
    <3> QED BY <2>1, <3>1 DEF Anchored, Fresh
  <2> QED BY <2>2, <2>3
<1>5. Attended' /\ Fresh' /\ Rooted'
  BY <1>1, <1>2, <1>3, <1>4, AnchorsKept
<1>6. \A c \in Cufes : Hope(c) => Hope(c)'
  BY <1>1, <1>3, HopesKept DEF GivenUp, At
<1>7. \A m \in Messages : status'[m] = "duplicate" => status[m] = "duplicate"
  BY <1>3
<1>8. \A v \in Workers : At(v, "finish")' /\ worker'[v].outcome = "duplicate" =>
        worker'[v] = worker[v]
  BY <1>1 DEF Others, At
<1>9. Justified'
  BY <1>6, <1>7, <1>8, JustifiedKept DEF At
<1> QED BY <1>5, <1>9 DEF Anchored

LEMMA LateStepKeepsAnchored ==
  ASSUME TypeOK, [Next]_vars, ~Removal', Anchored, NEW w \in Workers,
         Register(w) \/ Release(w) \/ Link(w)
  PROVE  Anchored'
<1>1. /\ ~At(w, "idle") /\ UNCHANGED status
      /\ worker[w].step \in Holding
  BY DEF Register, Release, Link, At, Holding
<1>2. /\ Others(w) /\ worker'[w].step \in {"link", "release", "finish"}
      /\ worker'[w].message = worker[w].message /\ worker'[w].row = worker[w].row
      /\ worker'[w].step = "finish" => worker'[w].outcome \in {"failed", "registered"}
  <2>1. CASE Release(w) \/ Link(w)
    BY <2>1, FinishMoves, TypeOKWorkers DEF Release, Link, Statuses
  <2>2. CASE Register(w)
    <3>1. worker[w] \in WorkerState /\ worker \in [Workers -> WorkerState]
      BY DEF TypeOK
    <3>2. \A e \in Expenses : worker' = [worker EXCEPT ![w].step = "link", ![w].expense = e] =>
            /\ Others(w) /\ worker'[w].step = "link"
            /\ worker'[w].message = worker[w].message /\ worker'[w].row = worker[w].row
      BY <3>1 DEF Others, WorkerState
    <3>3. GoTo(w, "release") =>
            /\ Others(w) /\ worker'[w].step = "release"
            /\ worker'[w].message = worker[w].message /\ worker'[w].row = worker[w].row
      BY GoToMoves, TypeOKWorkers DEF Steps
    <3> QED BY <2>2, <3>2, <3>3 DEF Register
  <2> QED BY <2>1, <2>2
<1>3. ASSUME NEW c \in Cufes, reserved'[c] # None
      PROVE  /\ reserved[c] # None /\ reserved'[c].message = reserved[c].message
             /\ reserved'[c].expense = None => reserved[c].expense = None
  <2>1. CASE reserved'[c] = reserved[c]
    BY <1>3, <2>1
  <2>2. CASE reserved'[c] # reserved[c]
    <3>1. /\ Link(w) /\ Holds(w) /\ c = Invoice(w)
          /\ reserved' = [reserved EXCEPT ![Invoice(w)].expense = worker[w].expense]
      BY <1>3, <2>2 DEF Register, Release, Link, TypeOK
    <3>2. reserved[c] # None /\ reserved[c] \in Reservation
      BY <3>1 DEF Holds, TypeOK
    <3>3. reserved'[c] = [reserved[c] EXCEPT !.expense = worker[w].expense]
      BY <3>1 DEF TypeOK
    <3>4. worker[w].expense # None
      BY <3>1, MailIngestionAssumption DEF Link, TypeOK, Equipped, At
    <3> QED BY <3>2, <3>3, <3>4 DEF Reservation
  <2> QED BY <2>1, <2>2
<1>4. ~GivenUp(w)'
  BY <1>2 DEF GivenUp, At
<1>5. Attended' /\ Fresh' /\ Rooted'
  BY <1>1, <1>2, <1>3, <1>4, AnchorsKept
<1>6. \A c \in Cufes : Hope(c) => Hope(c)'
  BY <1>1, <1>2, <1>4, HopesKept
<1>7. \A v \in Workers : At(v, "finish")' /\ worker'[v].outcome = "duplicate" =>
        worker'[v] = worker[v]
  BY <1>2 DEF Others, At
<1>8. Justified'
  BY <1>1, <1>6, <1>7, JustifiedKept DEF At
<1> QED BY <1>5, <1>8 DEF Anchored

(* The reservation goes to the mail of one worker, and of it alone: whoever  *)
(* finds it taken leaves its invoice to whoever reserved it.                 *)
LEMMA ReserveKeepsAnchored ==
  ASSUME TypeOK, OneWorkerPerMail, References, [Next]_vars, ~Removal', Anchored,
         NEW w \in Workers, Reserve(w)
  PROVE  Anchored'
<1> DEFINE c == Invoice(w)
           n == worker[w].message
<1>1. /\ ~At(w, "idle") /\ At(w, "reserve") /\ UNCHANGED <<status, expenseOf>>
      /\ Others(w) /\ worker'[w].step \in {"register", "finish"}
      /\ worker'[w].message = n /\ worker'[w].row = worker[w].row
  BY GoToMoves, FinishMoves, TypeOKWorkers DEF Reserve, ReserveFails, Steps, Statuses, At
<1>2. c \in Cufes /\ n \in Messages /\ Carries[n] = c
  BY <1>1 DEF TypeOK, Equipped, Invoice, At
<1>3. worker[w].row /\ status[n] \in RETRYABLE
  BY <1>1 DEF Anchored, Attended
<1>4. \A d \in Cufes : Pending(d) => reserved[d].message # n
  BY <1>1 DEF Anchored, Fresh, At
<1>5. CASE UNCHANGED reserved
  <2>1. Attended' /\ Fresh' /\ Rooted'
    BY <1>1, <1>4, <1>5, AnchorsKept DEF Pending
  <2>2. worker'[w].step = "finish" /\ (reserved[c] # None \/ worker'[w].outcome = "failed")
    <3>1. Finish(w, "duplicate") \/ Finish(w, "failed") => worker'[w].step = "finish"
      BY FinishMoves, TypeOKWorkers DEF Statuses
    <3>2. Finish(w, "failed") => worker'[w].outcome = "failed"
      BY FinishMoves, TypeOKWorkers DEF Statuses
    <3>3. ~CanReserve(w) \/ reserved' # [reserved EXCEPT ![Invoice(w)] =
                     [by |-> w, message |-> worker[w].message, expense |-> None]]
      <4> DEFINE r == [by |-> w, message |-> n, expense |-> None]
      <4>1. r \in Reservation
        BY <1>2 DEF Reservation
      <4>2. r # None
        BY <4>1, MailIngestionAssumption
      <4> HIDE DEF r
      <4>3. CanReserve(w) => reserved # [reserved EXCEPT ![Invoice(w)] = r]
        BY <1>2, <4>2 DEF CanReserve, TypeOK
      <4> QED BY <1>5, <4>3 DEF r
    <3> QED BY <3>1, <3>2, <3>3 DEF Reserve, ReserveFails
  <2>3. reserved[c] # None => Settled(c)
    BY <1>2, ReservedIsSettled
  <2>4. \A d \in Cufes : Hope(d) => Hope(d)' \/ Registered(d)'
    <3> SUFFICES ASSUME NEW d \in Cufes, NEW x \in Messages, Carries[x] = d,
                        status[x] \in RETRYABLE,
                        \A v \in Workers : GivenUp(v) => worker[v].message # x
                 PROVE  Hope(d)' \/ Registered(d)'
      BY DEF Hope
    <3>1. CASE x # n \/ ~GivenUp(w)'
      <4>1. \A v \in Workers : GivenUp(v)' => worker'[v].message # x
        BY <1>1, <3>1 DEF GivenUp, At, Others
      <4> QED BY <1>1, <4>1 DEF Hope
    <3>2. CASE x = n /\ GivenUp(w)'
      <4>1. d = c /\ reserved[c] # None
        BY <1>2, <2>2, <3>2 DEF GivenUp
      <4>2. CASE Pending(c)
        <5> DEFINE y == reserved[c].message
        <5>1. y \in Messages /\ Carries[y] = c /\ status[y] \in RETRYABLE /\ y # n
          BY <1>2, <1>4, <4>1, <4>2 DEF Anchored, Rooted
        <5>2. \A v \in Workers : GivenUp(v) => worker[v].message # y
          BY <1>2, <4>2 DEF Anchored, Fresh
        <5> HIDE DEF y
        <5>3. \A v \in Workers : GivenUp(v)' => worker'[v].message # y
          BY <1>1, <5>1, <5>2 DEF GivenUp, At, Others
        <5> QED BY <1>1, <4>1, <5>1, <5>3 DEF Hope
      <4>3. CASE ~Pending(c)
        <5>1. reserved[c].expense \in Expenses
          BY <1>2, <4>1, <4>3 DEF Pending, TypeOK, Reservation
        <5> QED BY <1>1, <1>2, <4>1, <4>3, <5>1
                DEF Pending, References, Matched, Registered
      <4> QED BY <4>2, <4>3
    <3> QED BY <3>1, <3>2
  <2>5. \A v \in Workers : At(v, "finish")' /\ worker'[v].outcome = "duplicate" =>
          worker'[v] = worker[v] \/ Settled(Invoice(v)')
    BY <1>1, <2>2, <2>3 DEF Others, Invoice
  <2>6. Justified'
    BY <1>1, <2>4, <2>5, JustifiedKept DEF At
  <2> QED BY <2>1, <2>6 DEF Anchored
<1>6. CASE /\ CanReserve(w) /\ GoTo(w, "register")
           /\ reserved' = [reserved EXCEPT ![c] =
                             [by |-> w, message |-> n, expense |-> None]]
  <2>1. worker'[w].step = "register" /\ ~GivenUp(w)'
    BY <1>6, GoToMoves, TypeOKWorkers DEF GivenUp, At, Steps
  <2>2. reserved'[c].message = n /\ \A d \in Cufes : d # c => reserved'[d] = reserved[d]
    BY <1>2, <1>6 DEF TypeOK
  <2>3. \A v \in Workers : v # w /\ ~At(v, "idle") =>
          /\ worker[v].row /\ worker[v].message # n /\ worker'[v] = worker[v]
    BY <1>1, <1>3 DEF OneWorkerPerMail, Anchored, Attended, Others
  <2>4. Attended'
    BY <1>1, <2>3 DEF Anchored, Attended, At, Others
  <2>5. Fresh'
    <3> SUFFICES ASSUME NEW v \in Workers, NEW d \in Cufes, Pending(d)',
                        worker'[v].step \in {"mark", "fetch", "reserve"} \/ GivenUp(v)'
                 PROVE  reserved'[d].message # worker'[v].message
      BY DEF Fresh
    <3>1. v # w /\ worker'[v] = worker[v]
      BY <1>1, <2>1 DEF Others
    <3>2. worker[v].step \in {"mark", "fetch", "reserve"} \/ GivenUp(v)
      BY <3>1 DEF GivenUp, At
    <3>3. worker[v].message # n
      BY <2>3, <3>1, <3>2 DEF GivenUp, At
    <3>4. CASE d = c
      BY <2>2, <3>1, <3>3, <3>4
    <3>5. CASE d # c
      BY <2>2, <3>1, <3>2, <3>5 DEF Pending, Anchored, Fresh
    <3> QED BY <3>4, <3>5
  <2>6. Rooted'
    <3> SUFFICES ASSUME NEW d \in Cufes, reserved'[d] # None
                 PROVE  /\ reserved'[d].message \in Messages
                        /\ status[reserved'[d].message] # "absent"
                        /\ Pending(d)' => /\ Carries[reserved'[d].message] = d
                                          /\ status[reserved'[d].message] \in RETRYABLE
      BY <1>1 DEF Rooted
    <3>1. CASE d = c
      BY <1>2, <1>3, <2>2, <3>1 DEF RETRYABLE
    <3>2. CASE d # c
      BY <2>2, <3>2 DEF Pending, Anchored, Rooted
    <3> QED BY <3>1, <3>2
  <2>7. \A d \in Cufes : Hope(d) => Hope(d)'
    BY <1>1, <2>1, HopesKept
  <2>8. \A v \in Workers : At(v, "finish")' /\ worker'[v].outcome = "duplicate" =>
          worker'[v] = worker[v]
    BY <1>1, <2>1 DEF Others, At
  <2>9. Justified'
    BY <1>1, <2>7, <2>8, JustifiedKept DEF At
  <2> QED BY <2>4, <2>5, <2>6, <2>9 DEF Anchored
<1> QED BY <1>5, <1>6 DEF Reserve, ReserveFails

(* A mail that is finished leaves no reservation without an expense, unless  *)
(* it failed and can be retried.                                             *)
LEMMA FinishStepKeepsAnchored ==
  ASSUME TypeOK, Custody, References, [Next]_vars, ~Removal', Anchored,
         NEW w \in Workers, FinishStep(w)
  PROVE  Anchored'
<1> DEFINE m == worker[w].message
<1>1. /\ ~At(w, "idle") /\ At(w, "finish") /\ UNCHANGED <<reserved, expenseOf>>
      /\ Others(w) /\ ~GivenUp(w)' /\ worker'[w].step \in {"idle", "finish"}
      /\ worker'[w].step = "finish" => worker'[w].outcome = "failed"
      /\ \/ worker'[w].step = "idle"
         \/ worker'[w].message = m /\ worker'[w].row = worker[w].row
  BY FinishMoves, RestMoves, TypeOKWorkers DEF FinishStep, Statuses, GivenUp, At
<1>2. \A v \in Workers : At(v, "finish")' /\ worker'[v].outcome = "duplicate" =>
        worker'[v] = worker[v]
  BY <1>1 DEF Others, At
<1>3. CASE UNCHANGED status
  <2>1. Attended' /\ Fresh' /\ Rooted'
    BY <1>1, <1>3, AnchorsKept
  <2>2. \A c \in Cufes : Hope(c) => Hope(c)'
    BY <1>1, <1>3, HopesKept
  <2>3. Justified'
    BY <1>2, <1>3, <2>2, JustifiedKept DEF At
  <2> QED BY <2>1, <2>3 DEF Anchored
<1>4. CASE status' = [status EXCEPT ![m] = worker[w].outcome] /\ worker'[w].step = "idle"
  <2>1. /\ m \in Messages
        /\ worker[w].outcome \in {"registered", "duplicate", "noInvoice", "failed"}
        /\ worker[w].outcome = "registered" => worker[w].expense \in Expenses
    BY <1>1 DEF TypeOK, Equipped, At, Statuses
  <2>2. /\ status'[m] = worker[w].outcome
        /\ \A n \in Messages : n # m => status'[n] = status[n]
    BY <1>4, <2>1 DEF TypeOK
  <2>3. \A v \in Workers : v # w => worker'[v] = worker[v]
    BY <1>1 DEF Others
  <2>4. worker[w].outcome = "registered" =>
          /\ Registered(Invoice(w)) /\ Invoice(w) \in Cufes
          /\ reserved[Invoice(w)].expense \in Expenses
    <3> SUFFICES ASSUME worker[w].outcome = "registered"
                 PROVE  /\ Registered(Invoice(w)) /\ Invoice(w) \in Cufes
                        /\ reserved[Invoice(w)].expense \in Expenses
      OBVIOUS
    <3> DEFINE e == worker[w].expense
    <3>1. Carrying(w) /\ e \in Expenses
      BY <1>1, <2>1 DEF Carrying
    <3>2. Invoice(w) \in Cufes /\ expenseOf[e] = Invoice(w)
      BY <1>1, <3>1 DEF References, InHand, Removal
    <3>3. ~\E v \in Workers : At(v, "link") /\ worker[v].expense = e
      BY <1>1, <3>1 DEF References, OwnExpense, At
    <3>4. reserved[Invoice(w)].expense = e
      BY <3>1, <3>2, <3>3 DEF Custody, ExpenseHeld
    <3> QED BY <3>1, <3>2, <3>4 DEF Registered
  <2>5. Attended'
    <3> SUFFICES ASSUME NEW v \in Workers, ~At(v, "idle")'
                 PROVE  worker'[v].row /\ status'[worker'[v].message] \in RETRYABLE
      BY DEF Attended
    <3>1. v # w /\ worker'[v] = worker[v] /\ ~At(v, "idle")
      BY <1>4, <2>3 DEF At
    <3>2. worker[v].row /\ worker[w].row /\ status[worker[v].message] \in RETRYABLE
      BY <1>1, <3>1 DEF Anchored, Attended
    <3>3. worker[v].message # m /\ worker[v].message \in Messages
      BY <1>1, <3>1, <3>2 DEF Custody, OneWorkerPerMail, TypeOK, Equipped, At
    <3> QED BY <2>2, <3>1, <3>2, <3>3
  <2>6. Fresh'
    <3> SUFFICES ASSUME NEW v \in Workers, NEW c \in Cufes, Pending(c)',
                        worker'[v].step \in {"mark", "fetch", "reserve"} \/ GivenUp(v)'
                 PROVE  reserved'[c].message # worker'[v].message
      BY DEF Fresh
    <3>1. v # w /\ worker'[v] = worker[v]
      BY <1>1, <1>4, <2>3
    <3>2. worker[v].step \in {"mark", "fetch", "reserve"} \/ GivenUp(v)
      BY <3>1 DEF GivenUp, At
    <3> QED BY <1>1, <3>1, <3>2 DEF Anchored, Fresh, Pending
  <2>7. Rooted'
    <3> SUFFICES ASSUME NEW c \in Cufes, reserved[c] # None
                 PROVE  /\ reserved[c].message \in Messages
                        /\ status'[reserved[c].message] # "absent"
                        /\ Pending(c) => /\ Carries[reserved[c].message] = c
                                         /\ status'[reserved[c].message] \in RETRYABLE
      BY <1>1 DEF Rooted, Pending
    <3>1. /\ reserved[c].message \in Messages
          /\ status[reserved[c].message] # "absent"
          /\ Pending(c) => /\ Carries[reserved[c].message] = c
                           /\ status[reserved[c].message] \in RETRYABLE
      BY DEF Anchored, Rooted
    <3>2. CASE reserved[c].message # m
      BY <2>2, <3>1, <3>2
    <3>3. CASE reserved[c].message = m
      <4>1. status'[m] # "absent"
        BY <2>1, <2>2
      <4>2. Pending(c) => worker[w].outcome = "failed"
        <5> SUFFICES ASSUME Pending(c), worker[w].outcome # "failed" PROVE FALSE
          OBVIOUS
        <5>1. ~GivenUp(w)
          BY <3>3 DEF Anchored, Fresh
        <5>2. worker[w].outcome = "registered"
          BY <1>1, <2>1, <5>1 DEF GivenUp
        <5>3. Invoice(w) = c
          BY <3>1, <3>3 DEF Invoice
        <5> QED BY <2>4, <5>2, <5>3, MailIngestionAssumption DEF Pending
      <4> QED BY <2>2, <3>1, <3>3, <4>1, <4>2 DEF RETRYABLE
    <3> QED BY <3>2, <3>3
  <2>8. ASSUME NEW c \in Cufes, Hope(c) PROVE Hope(c)' \/ Registered(c)'
    <3>1. PICK n \in Messages :
            /\ Carries[n] = c /\ status[n] \in RETRYABLE
            /\ \A v \in Workers : GivenUp(v) => worker[v].message # n
      BY <2>8 DEF Hope
    <3>2. \A v \in Workers : GivenUp(v)' => worker'[v].message # n
      BY <1>1, <2>3, <3>1 DEF GivenUp, At
    <3>3. CASE n # m \/ worker[w].outcome = "failed"
      <4>1. status'[n] \in RETRYABLE
        BY <2>2, <3>1, <3>3 DEF RETRYABLE
      <4> QED BY <3>1, <3>2, <4>1 DEF Hope
    <3>4. CASE n = m /\ worker[w].outcome # "failed"
      <4>1. worker[w].outcome = "registered" /\ Invoice(w) = c
        BY <1>1, <2>1, <3>1, <3>4 DEF GivenUp, Invoice
      <4> QED BY <1>1, <2>4, <4>1 DEF Registered
    <3> QED BY <3>3, <3>4
  <2>9. \A n \in Messages : status'[n] = "duplicate" =>
          \/ status[n] = "duplicate"
          \/ \E v \in Workers : /\ At(v, "finish") /\ worker[v].outcome = "duplicate"
                               /\ worker[v].message = n
    BY <1>1, <2>2
  <2>10. Justified'
    BY <1>2, <2>8, <2>9, JustifiedKept DEF At
  <2> QED BY <2>5, <2>6, <2>7, <2>10 DEF Anchored
<1>5. worker[w].row
  BY <1>1 DEF Anchored, Attended
<1> QED BY <1>3, <1>4, <1>5, RestMoves, TypeOKWorkers DEF FinishStep

LEMMA BeginKeepsAnchored ==
  ASSUME TypeOK, [Next]_vars, ~Removal', Anchored, NEW w \in Workers, NEW m \in Messages,
         Ingest(w, m) \/ BeginRetry(w, m)
  PROVE  Anchored'
<1> DEFINE s(t) == [Idle EXCEPT !.step = t, !.message = m, !.row = TRUE]
<1>1. PICK t \in {"fetch", "releaseStale"} :
        /\ UNCHANGED worker \/ worker' = [worker EXCEPT ![w] = s(t)]
        /\ t = "fetch" => status[m] = "absent"
  BY DEF Ingest, BeginRetry
<1>2. s(t).step = t /\ s(t).message = m /\ s(t).row = TRUE
  BY DEF Idle
<1>3. At(w, "idle") /\ UNCHANGED <<reserved, expenseOf>>
  BY DEF Ingest, BeginRetry
<1> HIDE DEF s
<1>4. /\ Others(w)
      /\ \/ worker'[w] = worker[w]
         \/ /\ worker'[w].step = t /\ worker'[w].message = m /\ worker'[w].row
  BY <1>1, <1>2 DEF Others, TypeOK
<1>5. /\ status'[m] \in RETRYABLE
      /\ \A n \in Messages : status'[n] = status[n] \/ (status[n] = "absent" /\ n = m)
  BY DEF Ingest, BeginRetry, TypeOK, RETRYABLE
<1>6. Attended'
  BY <1>3, <1>4, <1>5 DEF Anchored, Attended, At, Others, RETRYABLE, TypeOK, Equipped
<1>7. Fresh'
  <2> SUFFICES ASSUME NEW v \in Workers, NEW c \in Cufes, Pending(c)',
                      worker'[v].step \in {"mark", "fetch", "reserve"} \/ GivenUp(v)'
               PROVE  reserved[c].message # worker'[v].message
    BY <1>3 DEF Fresh
  <2>1. Pending(c)
    BY <1>3 DEF Pending
  <2>2. CASE worker'[v] = worker[v]
    BY <2>1, <2>2 DEF Anchored, Fresh, GivenUp, At
  <2>3. CASE v = w /\ worker'[w].step = t /\ worker'[w].message = m
    <3>1. status[m] = "absent"
      BY <1>1, <2>3 DEF GivenUp, At
    <3> QED BY <2>1, <2>3, <3>1 DEF Anchored, Rooted, Pending
  <2> QED BY <1>4, <2>2, <2>3 DEF Others
<1>8. Rooted'
  BY <1>3, <1>5 DEF Anchored, Rooted, Pending, RETRYABLE
<1>9. \A v \in Workers : At(v, "finish")' => worker'[v] = worker[v]
  BY <1>1, <1>4 DEF At, Others
<1>10. \A c \in Cufes : Hope(c) => Hope(c)'
  BY <1>5, <1>9 DEF Hope, GivenUp, At, RETRYABLE
<1>11. \A n \in Messages : status'[n] = "duplicate" => status[n] = "duplicate"
  BY <1>5 DEF RETRYABLE
<1>12. Justified'
  BY <1>9, <1>10, <1>11, JustifiedKept DEF At
<1> QED BY <1>6, <1>7, <1>8, <1>12 DEF Anchored

LEMMA CrashKeepsAnchored ==
  ASSUME TypeOK, [Next]_vars, ~Removal', Anchored,
         Crash \/ UNCHANGED vars
  PROVE  Anchored'
<1>1. UNCHANGED <<status, link, reserved, expenseOf>>
  BY DEF Crash, vars
<1>2. \A v \in Workers : worker'[v].step = "idle" \/ worker'[v] = worker[v]
  BY DEF Crash, vars, Idle
<1>3. Attended' /\ Fresh' /\ Rooted'
  BY <1>1, <1>2 DEF Anchored, Attended, Fresh, Rooted, GivenUp, At, Pending
<1>4. \A c \in Cufes : Hope(c) => Hope(c)'
  BY <1>1, <1>2 DEF Hope, GivenUp, At
<1>5. Justified'
  BY <1>1, <1>2, <1>4, JustifiedKept DEF At
<1> QED BY <1>3, <1>5 DEF Anchored

LEMMA NextKeepsAnchored ==
  ASSUME Lasting
  PROVE  TypeOK /\ Custody /\ References /\ (Removal \/ Anchored) /\ [Next]_vars
         => (Removal \/ Anchored)'
<1> SUFFICES ASSUME TypeOK, Custody, References, Removal \/ Anchored, [Next]_vars, ~Removal'
             PROVE  Anchored'
  OBVIOUS
<1>1. Anchored
  BY RemovalLasts
<1>2. ASSUME NEW w \in Workers, Step(w) PROVE Anchored'
  BY <1>1, <1>2, EarlyStepKeepsAnchored, LateStepKeepsAnchored, ReserveKeepsAnchored,
     FinishStepKeepsAnchored DEF Step, Custody
<1>3. ASSUME NEW e \in Expenses, RemoveExpense(e) PROVE FALSE
  BY <1>3 DEF RemoveExpense, Removal, TypeOK
<1>4. ~Disconnect
  BY DEF Disconnect, Lasting
<1> QED BY <1>1, <1>2, <1>3, <1>4, BeginKeepsAnchored, CrashKeepsAnchored DEF Next

(* While the mailbox stays connected, a mail is never given up for nothing:  *)
(* the invoice of a duplicate is in the books, or the user removed an        *)
(* expense, or a mail that brings it can still be retried.                   *)
THEOREM DuplicatesAreJustified ==
  ASSUME Lasting
  PROVE  Spec => []DuplicateJustified
<1>1. SafeFaults
  BY DEF Lasting
<1>2. Init => Removal \/ Anchored
  <2>1. Init => Attended /\ Fresh /\ Rooted /\ Justified
    BY DEF Init, Attended, Fresh, Rooted, Justified, GivenUp, At, Idle
  <2> QED BY <2>1 DEF Anchored
<1>3. TypeOK /\ Custody /\ References /\ (Removal \/ Anchored) /\ [Next]_vars
      => (Removal \/ Anchored)'
  BY NextKeepsAnchored
<1>4. Removal \/ Anchored => DuplicateJustified
  <2>1. Removal => DuplicateJustified
    BY DEF Removal, DuplicateJustified
  <2>2. Anchored => DuplicateJustified
    BY DEF Anchored, Justified, Settled, Hope, DuplicateJustified
  <2> QED BY <2>1, <2>2
<1> QED BY <1>1, <1>2, <1>3, <1>4, IngestionTypeOK, IngestionCustody, IngestionReferences, PTL
        DEF Spec

-----------------------------------------------------------------------------
(* Which mails are read (MailSync).  The historyId an execution is about to  *)
(* write is good because of what it loaded, what it found and what arrived   *)
(* meanwhile: Dated says when things happened, Followed what is still read.  *)

(* A mailbox, or a copy of its row: no mail after its historyId arrived more *)
(* than a day before it was synchronised.                                    *)
SoundHistory(m) ==
  /\ m.historyId # Unset => m.historyId <= Len(on)
  /\ m.syncedOn # Unset => m.syncedOn <= today
  /\ m.historyId # Unset /\ m.syncedOn # Unset =>
       \A i \in Mails : i > m.historyId => on[i] + 1 >= m.syncedOn

InPast == SoundHistory(mailbox) /\ \A i \in Mails : on[i] <= today

Dated(w) ==
  sync[w].stage # "idle" =>
    /\ sync[w].day <= today /\ today <= sync[w].day + 1
    /\ sync[w].loaded.id <= mailbox.id /\ sync[w].loaded.status = "active"
    /\ SoundHistory(sync[w].loaded)
    /\ sync[w].stage \in {"senders", "list", "search", "ingest", "mark"} =>
         sync[w].loaded.historyId # Unset
    /\ sync[w].stage = "adopt" => sync[w].loaded.historyId = Unset
    /\ sync[w].stage \in {"search", "ingest"} => sync[w].active
    /\ sync[w].stage \in {"search", "ingest", "mark"} =>
         /\ sync[w].historyId <= Len(on)
         /\ \A i \in Mails : i > sync[w].historyId => on[i] >= sync[w].day
    /\ sync[w].stage = "ingest" => sync[w].mails \subseteq Mails

Caught(h, S) == \A i \in due : i <= h => i \in S

(* the mailbox an execution loaded has not been disconnected *)
SameMailbox(w) == mailbox.status # "none" /\ mailbox.id = sync[w].loaded.id

Followed(w) ==
  sync[w].stage # "idle" /\ SameMailbox(w) =>
    /\ sync[w].loaded.historyId = Unset => due = {}
    /\ sync[w].loaded.historyId # Unset => Caught(sync[w].loaded.historyId, read)
    /\ sync[w].stage \in {"list", "search", "ingest", "mark"} /\ ~sync[w].active => due \subseteq read
    /\ sync[w].stage = "ingest" => Caught(sync[w].historyId, read \cup sync[w].mails)
    /\ sync[w].stage = "mark" => Caught(sync[w].historyId, read)

Noted ==
  /\ mailbox.historyId = Unset => due = {}
  /\ mailbox.historyId # Unset => Caught(mailbox.historyId, read)
  /\ ~sender.active => due \subseteq read
  /\ mailbox.status = "none" => sender = NewSender /\ mailbox.historyId = Unset /\ mailbox.syncedOn = Unset

(* A reading of old mails that is alone is the only one in course, and reads *)
(* since the day the sender says.                                            *)
Hunted ==
  \A t \in Hunts : hunt[t].stage # "idle" =>
    /\ hunt[t].id <= mailbox.id
    /\ hunt[t].alone => InCourse = {t}
    /\ hunt[t].alone /\ hunt[t].stage = "run" /\ mailbox.status # "none" /\ mailbox.id = hunt[t].id =>
         sender.from = hunt[t].from

DoneIsRead ==
  sender.backfill = "done" /\ sender.told =>
    sender.from \in Days /\ Since(sender.from, 1 .. searched) \subseteq read

SyncInv ==
  /\ SyncTypeOK /\ InPast /\ Noted /\ Hunted /\ DoneIsRead
  /\ \A w \in Syncs : Dated(w) /\ Followed(w)

LEMMA SyncFields ==
  ASSUME SyncTypeOK, NEW w \in Syncs
  PROVE  /\ sync[w].stage \in {"idle", "begin", "adopt", "senders", "list", "search", "ingest", "mark"}
         /\ sync[w].stage # "idle" => sync[w].loaded \in MailConnection /\ sync[w].day \in Days
         /\ sync[w].stage \in {"list", "search", "ingest", "mark"} => sync[w].active \in BOOLEAN
         /\ sync[w].stage \in {"search", "ingest", "mark"} =>
              sync[w].mails \subseteq Nat /\ sync[w].historyId \in Nat
  BY DEF SyncTypeOK, SyncState

LEMMA Numbers ==
  ASSUME SyncTypeOK
  PROVE  /\ today \in Nat /\ Len(on) \in Nat /\ mailbox.id \in Nat
         /\ \A i \in Mails : on[i] \in Nat /\ i \in Nat
         /\ \A m \in MailConnection : /\ m.id \in Nat /\ m.historyId \in Nat \cup {Unset}
                                      /\ m.syncedOn \in Nat \cup {Unset}
         /\ \A d \in Days : d \in Nat
  BY SyncAssumption DEF SyncTypeOK, Days, Mails, MailConnection

(* A step that one execution of syncHistory takes: it goes from what it knew *)
(* to s, and may set the status of the mailbox or the number of its history. *)
SyncStep(w, s) ==
  /\ sync' = [sync EXCEPT ![w] = s] /\ s \in SyncState
  /\ UNCHANGED <<today, on, sender, hunt, searched>>
  /\ due' \subseteq due /\ read \subseteq read' /\ read' \subseteq Mails
  /\ mailbox' \in MailConnection /\ mailbox'.id = mailbox.id
  /\ mailbox'.status = "none" <=> mailbox.status = "none"

LEMMA FollowedLasts ==
  ASSUME NEW w \in Syncs, Followed(w), sync'[w] = sync[w],
         SameMailbox(w)' => SameMailbox(w) /\ read \subseteq read' /\ due' \subseteq due
  PROVE  Followed(w)'
  BY DEF Followed, SameMailbox, Caught

LEMMA SyncStepKeeps ==
  ASSUME SyncInv, NEW w \in Syncs, NEW s, SyncStep(w, s),
         SoundHistory(mailbox)', Noted', Dated(w)', Followed(w)'
  PROVE  SyncInv'
<1>1. SyncTypeOK'
  BY DEF SyncInv, SyncStep, SyncTypeOK, Mails
<1>2. \A v \in Syncs : v # w => sync'[v] = sync[v]
  BY DEF SyncStep
<1>3. \A v \in Syncs : Dated(v)'
  <2> SUFFICES ASSUME NEW v \in Syncs, v # w PROVE Dated(v)'
    OBVIOUS
  <2>1. Dated(v) /\ sync'[v] = sync[v] /\ UNCHANGED <<today, on>> /\ mailbox'.id = mailbox.id
    BY <1>2 DEF SyncInv, SyncStep
  <2> QED BY <2>1 DEF Dated, SoundHistory, Mails
<1>4. \A v \in Syncs : Followed(v)'
  <2> SUFFICES ASSUME NEW v \in Syncs, v # w PROVE Followed(v)'
    OBVIOUS
  <2>1. SameMailbox(v)' => SameMailbox(v)
    BY <1>2 DEF SameMailbox, SyncStep
  <2> QED BY <1>2, <2>1, FollowedLasts DEF SyncInv, SyncStep
<1>5. InPast'
  BY DEF SyncInv, SyncStep, InPast, Mails
<1>6. Hunted'
  BY DEF SyncInv, SyncStep, Hunted, InCourse
<1>7. DoneIsRead'
  BY DEF SyncInv, SyncStep, DoneIsRead, Since
<1> QED BY <1>1, <1>3, <1>4, <1>5, <1>6, <1>7 DEF SyncInv

(* ... and if it leaves the number of the history alone, what is noted of    *)
(* the mailbox stays true.                                                   *)
LEMMA SameHistory ==
  ASSUME SyncInv, NEW w \in Syncs, NEW s, SyncStep(w, s),
         mailbox'.historyId = mailbox.historyId, mailbox'.syncedOn = mailbox.syncedOn
  PROVE  SoundHistory(mailbox)' /\ Noted'
<1>1. SoundHistory(mailbox)'
  BY DEF SyncInv, InPast, SoundHistory, SyncStep, Mails
<1>2. Noted'
  BY DEF SyncInv, Noted, SyncStep, Caught
<1> QED BY <1>1, <1>2

LEMMA RestKeepsSync ==
  ASSUME SyncInv, NEW w \in Syncs, SyncStep(w, Resting),
         SoundHistory(mailbox)', Noted'
  PROVE  SyncInv'
<1>1. sync'[w].stage = "idle"
  BY DEF SyncStep, SyncInv, SyncTypeOK, Resting
<1>2. Dated(w)' /\ Followed(w)'
  BY <1>1 DEF Dated, Followed
<1> QED BY <1>2, SyncStepKeeps

LEMMA RestingTyped == Resting \in SyncState
  BY DEF Resting, SyncState

LEMMA NoticeKeepsSync ==
  ASSUME SyncInv, NEW w \in Syncs, Notice(w)
  PROVE  SyncInv'
<1> DEFINE s == [stage |-> "begin", loaded |-> mailbox, day |-> today]
<1>1. s \in SyncState
  BY DEF SyncInv, SyncTypeOK, SyncState
<1>2. SyncStep(w, s)
  BY <1>1 DEF Notice, SyncStep, SyncInv, SyncTypeOK
<1>3. SoundHistory(mailbox)' /\ Noted'
  BY <1>2, SameHistory DEF Notice
<1>4. sync'[w] = s
  BY DEF Notice, SyncInv, SyncTypeOK
<1>5. Dated(w)'
  BY <1>3, <1>4, Numbers DEF Dated, Notice, SyncInv
<1>6. Followed(w)'
  BY <1>4 DEF Followed, Notice, SyncInv, Noted, Caught
<1> QED BY <1>2, <1>3, <1>5, <1>6, SyncStepKeeps

LEMMA BeginHistoryKeepsSync ==
  ASSUME SyncInv, NEW w \in Syncs, BeginHistory(w)
  PROVE  SyncInv'
<1>1. CASE sync' = [sync EXCEPT ![w] = Resting]
  <2>1. SyncStep(w, Resting)
    BY <1>1, RestingTyped DEF BeginHistory, SyncStep, SyncInv, SyncTypeOK
  <2> QED BY <2>1, SameHistory, RestKeepsSync DEF BeginHistory
<1>2. CASE sync' = [sync EXCEPT ![w].stage =
                     IF sync[w].loaded.historyId = Unset THEN "adopt" ELSE "senders"]
  <2> DEFINE p == IF sync[w].loaded.historyId = Unset THEN "adopt" ELSE "senders"
             s == [sync[w] EXCEPT !.stage = p]
  <2>1. sync[w] \in SyncState /\ sync[w].stage = "begin"
    BY DEF BeginHistory, SyncInv, SyncTypeOK
  <2>2. /\ s \in SyncState /\ s.stage = p
        /\ s.loaded = sync[w].loaded /\ s.day = sync[w].day
    BY <2>1 DEF SyncState
  <2>3. sync' = [sync EXCEPT ![w] = s] /\ sync'[w] = s
    BY <1>2 DEF SyncInv, SyncTypeOK
  <2>4. UNCHANGED <<today, on, mailbox, sender, hunt, read, due, searched>>
    BY DEF BeginHistory
  <2> HIDE DEF s
  <2>5. SyncStep(w, s)
    BY <2>2, <2>3, <2>4 DEF SyncStep, SyncInv, SyncTypeOK
  <2>6. Dated(w)'
    BY <2>1, <2>2, <2>3, <2>4 DEF Dated, SyncInv, SoundHistory, Mails
  <2>7. Followed(w)'
    BY <2>1, <2>2, <2>3, <2>4 DEF Followed, SyncInv, SameMailbox, Caught
  <2> QED BY <2>4, <2>5, <2>6, <2>7, SameHistory, SyncStepKeeps
<1> QED BY <1>1, <1>2 DEF BeginHistory

LEMMA ReadSendersKeepsSync ==
  ASSUME SyncInv, NEW w \in Syncs, ReadSenders(w)
  PROVE  SyncInv'
<1> DEFINE s == [stage |-> "list", loaded |-> sync[w].loaded, day |-> sync[w].day,
                 active |-> sender.active /\ mailbox.id = sync[w].loaded.id]
<1>1. sync[w].stage = "senders" /\ UNCHANGED <<today, on, mailbox, sender, hunt, read, due, searched>>
  BY DEF ReadSenders
<1>2. sync[w].loaded \in MailConnection /\ sync[w].day \in Days
  BY <1>1, SyncFields DEF SyncInv
<1>3. sender.active \in BOOLEAN
  BY DEF SyncInv, SyncTypeOK, MailSender
<1>4. s \in SyncState
  BY <1>2, <1>3 DEF SyncState
<1>5. sync' = [sync EXCEPT ![w] = s]
  BY DEF ReadSenders
<1>6. sync'[w] = s
  BY <1>5 DEF SyncInv, SyncTypeOK
<1>7. SyncStep(w, s)
  BY <1>1, <1>4, <1>5 DEF SyncStep, SyncInv, SyncTypeOK
<1>8. Dated(w)'
  BY <1>1, <1>6 DEF Dated, SyncInv, SoundHistory, Mails
<1>9. /\ sync'[w].stage = "list" /\ sync'[w].loaded = sync[w].loaded
      /\ ~sync'[w].active => ~sender.active \/ mailbox.id # sync[w].loaded.id
  <2>1. ~s.active => ~sender.active \/ mailbox.id # sync[w].loaded.id
    BY Zenon
  <2> QED BY <1>6, <2>1
<1> HIDE DEF s
<1>10. Followed(w)'
  <2>1. /\ ~sender.active => due \subseteq read
        /\ Followed(w)
    BY DEF SyncInv, Noted
  <2> QED BY <1>1, <1>9, <2>1 DEF Followed, SameMailbox, Caught
<1> QED BY <1>1, <1>7, <1>8, <1>10, SameHistory, SyncStepKeeps

LEMMA ListHistoryKeepsSync ==
  ASSUME SyncInv, NEW w \in Syncs, ListHistory(w)
  PROVE  SyncInv'
<1> DEFINE h == sync[w].loaded.historyId
<1>1. sync[w].stage = "list" /\ UNCHANGED <<today, on, mailbox, sender, hunt, read, due, searched>>
  BY DEF ListHistory
<1>2. /\ sync[w].loaded \in MailConnection /\ sync[w].day \in Days
      /\ sync[w].active \in BOOLEAN
  BY <1>1, SyncFields DEF SyncInv
<1>3. PICK p \in {"search", "ingest", "mark"}, M \in SUBSET Mails :
        /\ sync' = [sync EXCEPT ![w] = Reading(w, p, M, Len(on))]
        /\ p = "mark" <=> ~sync[w].active
        /\ p = "ingest" => M = {i \in Mails : i > h}
  <2> DEFINE later == {i \in Mails : i > h}
  <2>1. {} \in SUBSET Mails /\ later \in SUBSET Mails
    OBVIOUS
  <2>2. CASE Expired(h) /\ sync[w].active
    BY <2>1, <2>2 DEF ListHistory
  <2>3. CASE Expired(h) /\ ~sync[w].active
    BY <2>1, <2>3 DEF ListHistory
  <2>4. CASE ~Expired(h) /\ sync[w].active
    BY <2>1, <2>4 DEF ListHistory
  <2>5. CASE ~Expired(h) /\ ~sync[w].active
    BY <2>1, <2>5 DEF ListHistory
  <2> QED BY <2>2, <2>3, <2>4, <2>5
<1> DEFINE s == Reading(w, p, M, Len(on))
<1>4. s \in SyncState
  BY <1>2, Numbers DEF Reading, SyncState, SyncInv, Mails
<1>5. /\ sync'[w].stage = p /\ sync'[w].loaded = sync[w].loaded
      /\ sync'[w].day = sync[w].day /\ sync'[w].active = sync[w].active
      /\ sync'[w].mails = M /\ sync'[w].historyId = Len(on)
  BY <1>3 DEF SyncInv, SyncTypeOK, Reading
<1> HIDE DEF s
<1>6. SyncStep(w, s)
  BY <1>1, <1>3, <1>4 DEF SyncStep, SyncInv, SyncTypeOK, s
<1>7. h # Unset /\ SoundHistory(sync[w].loaded)
  BY <1>1 DEF SyncInv, Dated
<1>8. Dated(w)'
  <2>1. \A i \in Mails : ~(i > Len(on))
    BY Numbers DEF Mails, SyncInv
  <2> QED BY <1>1, <1>3, <1>5, <1>7, <2>1, Numbers DEF Dated, SyncInv, SoundHistory, Mails
<1>9. Followed(w)'
  <2> SUFFICES ASSUME SameMailbox(w)
               PROVE  /\ Caught(h, read)
                      /\ ~sync[w].active => due \subseteq read
                      /\ p = "ingest" => Caught(Len(on), read \cup M)
                      /\ p = "mark" => Caught(Len(on), read)
    BY <1>1, <1>5, <1>7 DEF Followed, SameMailbox, Caught
  <2>1. Caught(h, read) /\ (~sync[w].active => due \subseteq read)
    BY <1>1, <1>7 DEF SyncInv, Followed
  <2>2. due \subseteq Mails
    BY DEF SyncInv, SyncTypeOK
  <2>3. h \in Nat
    BY <1>2, <1>7, Numbers DEF SyncInv
  <2>4. p = "ingest" => Caught(Len(on), read \cup M)
    BY <1>3, <2>1, <2>2, <2>3, Numbers DEF Caught, SyncInv
  <2>5. p = "mark" => Caught(Len(on), read)
    BY <1>3, <2>1 DEF Caught
  <2> QED BY <2>1, <2>4, <2>5
<1> QED BY <1>1, <1>6, <1>8, <1>9, SameHistory, SyncStepKeeps

LEMMA SearchExpiredKeepsSync ==
  ASSUME SyncInv, NEW w \in Syncs, SearchExpired(w)
  PROVE  SyncInv'
<1> DEFINE l == sync[w].loaded
           found == Since(RecoverSince(l.syncedOn), Mails)
           s == Reading(w, "ingest", found, sync[w].historyId)
<1>1. sync[w].stage = "search" /\ UNCHANGED <<today, on, mailbox, sender, hunt, read, searched>>
  BY DEF SearchExpired
<1>2. /\ l \in MailConnection /\ sync[w].day \in Days /\ sync[w].active \in BOOLEAN
      /\ sync[w].historyId \in Nat
  BY <1>1, SyncFields DEF SyncInv
<1>3. found \subseteq Mails
  BY DEF Since
<1>4. s \in SyncState
  BY <1>2, <1>3, Numbers DEF Reading, SyncState, SyncInv
<1>5. /\ sync' = [sync EXCEPT ![w] = s]
      /\ due' = IF l.syncedOn = Unset THEN due \cap (read \cup found) ELSE due
  BY DEF SearchExpired
<1>6. /\ sync'[w].stage = "ingest" /\ sync'[w].loaded = l
      /\ sync'[w].day = sync[w].day /\ sync'[w].active = sync[w].active
      /\ sync'[w].mails = found /\ sync'[w].historyId = sync[w].historyId
  BY <1>5 DEF SyncInv, SyncTypeOK, Reading
<1> HIDE DEF s
<1>7. SyncStep(w, s)
  BY <1>1, <1>4, <1>5 DEF SyncStep, SyncInv, SyncTypeOK
<1>8. Dated(w)'
  BY <1>1, <1>3, <1>6 DEF Dated, SyncInv, SoundHistory, Mails
<1>9. Followed(w)'
  <2> SUFFICES ASSUME SameMailbox(w)
               PROVE  /\ l.historyId # Unset /\ Caught(l.historyId, read)
                      /\ sync[w].active
                      /\ \A i \in due' : i \in read \cup found
    BY <1>1, <1>5, <1>6 DEF Followed, SameMailbox, Caught
  <2>1. l.historyId # Unset /\ Caught(l.historyId, read) /\ sync[w].active
    BY <1>1 DEF SyncInv, Followed, Dated
  <2>2. ASSUME NEW i \in due', i \notin read PROVE i \in found
    <3>1. CASE l.syncedOn = Unset
      BY <1>5, <2>2, <3>1
    <3>2. CASE l.syncedOn # Unset
      <4>1. i \in Mails /\ i \in due
        BY <1>5, <2>2, <3>2 DEF SyncInv, SyncTypeOK
      <4>2. i > l.historyId
        BY <1>2, <2>1, <2>2, <4>1, Numbers DEF Caught, SyncInv
      <4>3. on[i] + 1 >= l.syncedOn
        BY <1>1, <2>1, <3>2, <4>1, <4>2 DEF SyncInv, Dated, SoundHistory
      <4>4. on[i] >= l.syncedOn - 1
        BY <1>2, <3>2, <4>1, <4>3, Numbers DEF SyncInv
      <4> QED BY <3>2, <4>1, <4>4 DEF Since, RecoverSince
    <3> QED BY <3>1, <3>2
  <2> QED BY <2>1, <2>2
<1> QED BY <1>1, <1>7, <1>8, <1>9, SameHistory, SyncStepKeeps

(* What a failure does to the mailbox: its status, if it is still the one    *)
(* that was loaded.                                                          *)
LEMMA FailureIsStep ==
  ASSUME SyncInv, NEW w \in Syncs, sync[w].stage # "idle", RecordFailure(w),
         UNCHANGED <<today, on, sender, hunt, searched, due>>,
         read \subseteq read', read' \subseteq Mails
  PROVE  SyncInv'
<1>1. sync[w].loaded.status = "active" /\ mailbox \in MailConnection
  BY DEF SyncInv, Dated, SyncTypeOK
<1>2. /\ mailbox' \in MailConnection /\ mailbox'.id = mailbox.id
      /\ mailbox'.historyId = mailbox.historyId /\ mailbox'.syncedOn = mailbox.syncedOn
      /\ mailbox'.status = "none" <=> mailbox.status = "none"
  <2>1. \A x \in {"active", "needs_reauth"} :
          LET m == [mailbox EXCEPT !.status = x]
          IN  /\ m \in MailConnection /\ m.id = mailbox.id /\ m.historyId = mailbox.historyId
              /\ m.syncedOn = mailbox.syncedOn /\ m.status = x
    BY <1>1 DEF MailConnection
  <2>2. \/ mailbox' = mailbox
        \/ mailbox.status # "none" /\ \E x \in {"active", "needs_reauth"} :
                                        mailbox' = [mailbox EXCEPT !.status = x]
    BY <1>1 DEF RecordFailure
  <2> QED BY <1>1, <2>1, <2>2
<1>3. SyncStep(w, Resting)
  BY <1>2, RestingTyped DEF RecordFailure, SyncStep
<1> QED BY <1>2, <1>3, SameHistory, RestKeepsSync

LEMMA IngestAllKeepsSync ==
  ASSUME SyncInv, NEW w \in Syncs, IngestAll(w)
  PROVE  SyncInv'
<1>1. sync[w].stage = "ingest" /\ UNCHANGED <<today, on, sender, hunt, due, searched>>
  BY DEF IngestAll
<1>2. /\ sync[w].loaded \in MailConnection /\ sync[w].day \in Days
      /\ sync[w].active \in BOOLEAN /\ sync[w].historyId \in Nat
      /\ sync[w].mails \subseteq Mails /\ read \subseteq Mails
  BY <1>1, SyncFields DEF SyncInv, Dated, SyncTypeOK
<1>3. read \subseteq read' /\ read' \subseteq Mails
  BY <1>2 DEF IngestAll
<1>4. CASE RecordFailure(w)
  BY <1>1, <1>3, <1>4, FailureIsStep
<1>5. CASE /\ sync[w].mails \subseteq read' /\ UNCHANGED mailbox
           /\ sync' = [sync EXCEPT ![w] = Reading(w, "mark", {}, sync[w].historyId)]
  <2> DEFINE s == Reading(w, "mark", {}, sync[w].historyId)
  <2>1. s \in SyncState
    BY <1>2 DEF Reading, SyncState
  <2>2. /\ sync'[w].stage = "mark" /\ sync'[w].loaded = sync[w].loaded
        /\ sync'[w].day = sync[w].day /\ sync'[w].active = sync[w].active
        /\ sync'[w].mails = {} /\ sync'[w].historyId = sync[w].historyId
    BY <1>5 DEF SyncInv, SyncTypeOK, Reading
  <2> HIDE DEF s
  <2>3. SyncStep(w, s)
    BY <1>1, <1>3, <1>5, <2>1 DEF SyncStep, SyncInv, SyncTypeOK, s
  <2>4. Dated(w)'
    BY <1>1, <1>5, <2>2 DEF Dated, SyncInv, SoundHistory, Mails
  <2>5. Followed(w)'
    BY <1>1, <1>3, <1>5, <2>2 DEF Followed, SyncInv, SameMailbox, Caught, Dated
  <2> QED BY <1>5, <2>3, <2>4, <2>5, SameHistory, SyncStepKeeps
<1> QED BY <1>4, <1>5 DEF IngestAll

LEMMA MarkSyncedKeepsSync ==
  ASSUME SyncInv, NEW w \in Syncs, MarkSynced(w)
  PROVE  SyncInv'
<1> DEFINE h == IF sync[w].stage = "mark" THEN sync[w].historyId ELSE Len(on)
           m == [mailbox EXCEPT !.syncedOn = today, !.historyId = h]
<1>1. /\ sync[w].stage \in {"mark", "adopt"}
      /\ sync' = [sync EXCEPT ![w] = Resting]
      /\ UNCHANGED <<today, on, sender, hunt, read, due, searched>>
      /\ \/ ~SameMailbox(w) /\ mailbox' = mailbox
         \/ SameMailbox(w) /\ mailbox' = m
  BY DEF MarkSynced, SameMailbox
<1>2. CASE mailbox' = mailbox
  <2>1. SyncStep(w, Resting)
    BY <1>1, <1>2, RestingTyped DEF SyncStep, SyncInv, SyncTypeOK
  <2> QED BY <1>2, <2>1, SameHistory, RestKeepsSync
<1>3. CASE SameMailbox(w) /\ mailbox' = m
  <2>1. h \in Nat /\ h <= Len(on) /\ today \in Days
    BY <1>1, SyncFields, Numbers DEF SyncInv, Dated, SyncTypeOK
  <2>2. /\ m \in MailConnection /\ m.id = mailbox.id /\ m.status = mailbox.status
        /\ m.historyId = h /\ m.syncedOn = today
    BY <2>1 DEF MailConnection, SyncInv, SyncTypeOK
  <2> HIDE DEF m, h
  <2>3. SyncStep(w, Resting)
    BY <1>1, <1>3, <2>2, RestingTyped DEF SyncStep, SyncInv, SyncTypeOK
  <2>4. \A i \in Mails : i > h => on[i] + 1 >= today
    <3> SUFFICES ASSUME NEW i \in Mails, i > h PROVE on[i] + 1 >= today
      OBVIOUS
    <3>1. CASE sync[w].stage = "mark"
      <4>1. on[i] >= sync[w].day /\ today <= sync[w].day + 1
        BY <3>1 DEF SyncInv, Dated, h
      <4>2. sync[w].day \in Nat /\ on[i] \in Nat /\ today \in Nat
        BY <3>1, SyncFields, Numbers DEF SyncInv
      <4> QED BY <4>1, <4>2
    <3>2. CASE sync[w].stage # "mark"
      BY <3>2, Numbers DEF h, Mails, SyncInv
    <3> QED BY <3>1, <3>2
  <2>5. SoundHistory(mailbox)'
    BY <1>1, <1>3, <2>1, <2>2, <2>4, Numbers DEF SoundHistory, SyncInv, Mails
  <2>6. Caught(h, read)
    BY <1>1, <1>3 DEF SyncInv, Followed, Dated, Caught, h
  <2>7. h # Unset
    BY <2>1, SyncAssumption
  <2>8. Noted'
    BY <1>1, <1>3, <2>2, <2>6, <2>7 DEF Noted, SyncInv, Caught, SameMailbox
  <2> QED BY <2>3, <2>5, <2>8, RestKeepsSync
<1> QED BY <1>1, <1>2, <1>3

LEMMA SyncHistoryKeepsSync ==
  ASSUME SyncInv, NEW w \in Syncs, SyncHistory(w)
  PROVE  SyncInv'
<1>1. CASE FailHistory(w)
  BY <1>1, FailureIsStep DEF FailHistory, SyncInv, SyncTypeOK
<1> QED BY <1>1, NoticeKeepsSync, BeginHistoryKeepsSync, ReadSendersKeepsSync, ListHistoryKeepsSync,
           SearchExpiredKeepsSync, IngestAllKeepsSync, MarkSyncedKeepsSync DEF SyncHistory

(* The mailbox and its sender, while no execution takes a step. *)

LEMMA OthersKept ==
  ASSUME SyncInv, UNCHANGED <<today, on, sync>>, mailbox.id <= mailbox'.id,
         mailbox'.id \in Nat,
         due' \subseteq due,
         mailbox'.status # "none" /\ mailbox'.id = mailbox.id =>
           mailbox.status # "none" /\ read \subseteq read'
  PROVE  \A w \in Syncs : Dated(w)' /\ Followed(w)'
<1> SUFFICES ASSUME NEW w \in Syncs PROVE Dated(w)' /\ Followed(w)'
  OBVIOUS
<1>1. Dated(w) /\ Followed(w) /\ sync'[w] = sync[w]
  BY DEF SyncInv
<1>2. sync[w].stage # "idle" => sync[w].loaded.id \in Nat
  BY SyncFields, Numbers DEF SyncInv
<1>3. Dated(w)'
  BY <1>1, <1>2, Numbers DEF Dated, SoundHistory, Mails, SyncInv
<1>4. Followed(w)'
  <2>1. CASE sync[w].stage = "idle"
    BY <1>1, <2>1 DEF Followed
  <2>2. CASE sync[w].stage # "idle"
    <3>1. sync[w].loaded.id <= mailbox.id
      BY <1>1, <2>2 DEF Dated
    <3>2. mailbox.id \in Nat
      BY Numbers DEF SyncInv
    <3>3. SameMailbox(w)' => mailbox'.id = mailbox.id /\ SameMailbox(w)
      BY <1>1, <1>2, <2>2, <3>1, <3>2 DEF SameMailbox
    <3>4. SameMailbox(w)' => mailbox'.status # "none"
      BY DEF SameMailbox
    <3> QED BY <1>1, <3>3, <3>4, FollowedLasts
  <2> QED BY <2>1, <2>2
<1> QED BY <1>3, <1>4

LEMMA MailArrives ==
  ASSUME SyncTypeOK, on' = Append(on, today)
  PROVE  /\ Len(on') = Len(on) + 1 /\ on' \in Seq(Days)
         /\ Mails' = Mails \cup {Len(on) + 1} /\ Mails \subseteq Mails'
         /\ \A i \in Mails : on'[i] = on[i]
         /\ \A i \in Mails' : i \in Mails \/ (i > Len(on) /\ on'[i] = today)
<1>1. today \in Days /\ on \in Seq(Days)
  BY DEF SyncTypeOK
<1>2. Len(on) \in Nat /\ Len(on') = Len(on) + 1 /\ on' \in Seq(Days)
  BY <1>1
<1>3. Mails' = Mails \cup {Len(on) + 1} /\ Mails \subseteq Mails'
  BY <1>2 DEF Mails
<1>4. \A i \in Mails : on'[i] = on[i]
  BY <1>1 DEF Mails
<1>5. on'[Len(on) + 1] = today /\ Len(on) + 1 > Len(on)
  BY <1>1, <1>2
<1>6. \A i \in Mails' : i \in Mails \/ (i > Len(on) /\ on'[i] = today)
  <2> SUFFICES ASSUME NEW i \in Mails', i \notin Mails PROVE i = Len(on) + 1
    BY <1>5
  <2> QED BY <1>3
<1> QED BY <1>2, <1>3, <1>4, <1>6

LEMMA ArriveKeepsSync ==
  ASSUME SyncInv, Arrive
  PROVE  SyncInv'
<1>1. /\ on' = Append(on, today) /\ UNCHANGED <<today, mailbox, sender, sync, hunt, read, searched>>
      /\ SyncTypeOK
  BY DEF Arrive, SyncInv
<1>2. /\ Len(on') = Len(on) + 1 /\ on' \in Seq(Days)
      /\ Mails' = Mails \cup {Len(on) + 1} /\ Mails \subseteq Mails'
      /\ \A i \in Mails : on'[i] = on[i]
      /\ \A i \in Mails' : i \in Mails \/ (i > Len(on) /\ on'[i] = today)
  BY <1>1, MailArrives
<1>3. Len(on) \in Nat /\ today \in Nat
  BY <1>1, Numbers
<1>4. due' \subseteq due \cup {Len(on) + 1}
  BY DEF Arrive
<1>5. SyncTypeOK'
  BY <1>1, <1>2, <1>3, <1>4 DEF SyncTypeOK, Mails
<1>6. ASSUME NEW m \in MailConnection, SoundHistory(m)
      PROVE  /\ m.historyId # Unset => m.historyId <= Len(on')
             /\ m.syncedOn # Unset => m.syncedOn <= today
             /\ m.historyId # Unset /\ m.syncedOn # Unset =>
                  \A i \in Mails' : i > m.historyId => on'[i] + 1 >= m.syncedOn
  <2>1. m.historyId \in Nat \cup {Unset} /\ m.syncedOn \in Nat \cup {Unset}
    BY <1>1, Numbers
  <2> QED BY <1>2, <1>3, <1>6, <2>1 DEF SoundHistory
<1>7. InPast'
  <2>1. \A i \in Mails' : on'[i] <= today
    BY <1>2, <1>3 DEF SyncInv, InPast
  <2>2. SoundHistory(mailbox)'
    BY <1>1, <1>6 DEF SyncInv, InPast, SoundHistory, SyncTypeOK
  <2> QED BY <1>1, <2>1, <2>2 DEF InPast
<1>8. ASSUME NEW w \in Syncs PROVE Dated(w)'
  <2> SUFFICES ASSUME sync[w].stage # "idle" PROVE Dated(w)'
    BY <1>1 DEF Dated
  <2>1. Dated(w) /\ sync[w].loaded \in MailConnection /\ sync[w].day \in Nat
    BY <1>1, SyncFields, Numbers DEF SyncInv
  <2>2. SoundHistory(sync[w].loaded)'
    BY <1>1, <1>6, <2>1 DEF Dated, SoundHistory
  <2>3. sync[w].stage \in {"search", "ingest", "mark"} =>
          /\ sync[w].historyId <= Len(on')
          /\ \A i \in Mails' : i > sync[w].historyId => on'[i] >= sync[w].day
    <3> SUFFICES ASSUME sync[w].stage \in {"search", "ingest", "mark"}
                 PROVE  /\ sync[w].historyId <= Len(on')
                        /\ \A i \in Mails' : i > sync[w].historyId => on'[i] >= sync[w].day
      OBVIOUS
    <3>1. /\ sync[w].historyId \in Nat /\ sync[w].historyId <= Len(on)
          /\ \A i \in Mails : i > sync[w].historyId => on[i] >= sync[w].day
          /\ today >= sync[w].day
      BY <1>1, <1>3, <2>1, SyncFields DEF Dated
    <3>2. sync[w].historyId <= Len(on')
      BY <1>2, <1>3, <3>1
    <3> QED BY <1>2, <3>1, <3>2
  <2>4. sync[w].stage = "ingest" => sync[w].mails \subseteq Mails'
    BY <1>2, <2>1 DEF Dated
  <2> QED BY <1>1, <2>1, <2>2, <2>3, <2>4 DEF Dated
<1>9. ASSUME NEW w \in Syncs PROVE Followed(w)'
  <2> SUFFICES ASSUME sync[w].stage # "idle", SameMailbox(w)
               PROVE  /\ sync[w].loaded.historyId = Unset => due' = {}
                      /\ sync[w].loaded.historyId # Unset => Caught(sync[w].loaded.historyId, read)'
                      /\ sync[w].stage \in {"list", "search", "ingest", "mark"} /\ ~sync[w].active =>
                           due' \subseteq read
                      /\ sync[w].stage = "ingest" => Caught(sync[w].historyId, read \cup sync[w].mails)'
                      /\ sync[w].stage = "mark" => Caught(sync[w].historyId, read)'
    BY <1>1 DEF Followed, SameMailbox
  <2>1. Followed(w) /\ Dated(w) /\ sync[w].loaded \in MailConnection
    BY <1>1, SyncFields DEF SyncInv
  <2>2. Overlooks(w) => due' = due
    BY DEF Arrive
  <2>3. sync[w].loaded.historyId = Unset => due' = {}
    BY <2>1, <2>2 DEF Overlooks, Followed
  <2>4. sync[w].stage \in {"list", "search", "ingest", "mark"} /\ ~sync[w].active => due' \subseteq read
    BY <2>1, <2>2 DEF Overlooks, Followed
  <2>5. ASSUME NEW h \in Nat, h <= Len(on), NEW S, Caught(h, S)
        PROVE  \A i \in due' : i <= h => i \in S
    BY <1>3, <1>4, <2>5 DEF Caught
  <2>6. sync[w].loaded.historyId # Unset => Caught(sync[w].loaded.historyId, read)'
    <3> SUFFICES ASSUME sync[w].loaded.historyId # Unset
                 PROVE  Caught(sync[w].loaded.historyId, read)'
      OBVIOUS
    <3>1. sync[w].loaded.historyId \in Nat /\ sync[w].loaded.historyId <= Len(on)
      BY <1>1, <2>1, Numbers DEF Dated, SoundHistory
    <3>2. Caught(sync[w].loaded.historyId, read)
      BY <2>1 DEF Followed
    <3> QED BY <1>1, <2>5, <3>1, <3>2 DEF Caught
  <2>7. sync[w].stage \in {"ingest", "mark"} =>
          sync[w].historyId \in Nat /\ sync[w].historyId <= Len(on)
    BY <1>1, <2>1, SyncFields DEF Dated
  <2>8. sync[w].stage = "ingest" => Caught(sync[w].historyId, read \cup sync[w].mails)'
    <3>1. sync[w].stage = "ingest" => Caught(sync[w].historyId, read \cup sync[w].mails)
      BY <2>1 DEF Followed
    <3> QED BY <1>1, <2>5, <2>7, <3>1 DEF Caught
  <2>9. sync[w].stage = "mark" => Caught(sync[w].historyId, read)'
    <3>1. sync[w].stage = "mark" => Caught(sync[w].historyId, read)
      BY <2>1 DEF Followed
    <3> QED BY <1>1, <2>5, <2>7, <3>1 DEF Caught
  <2> QED BY <2>3, <2>4, <2>6, <2>8, <2>9
<1>10. Noted'
  <2>1. mailbox.historyId = Unset \/ ~sender.active => due' = due
    BY DEF Arrive
  <2>2. mailbox.historyId # Unset => mailbox.historyId \in Nat /\ mailbox.historyId <= Len(on)
    BY <1>1, Numbers DEF SyncInv, InPast, SoundHistory, SyncTypeOK
  <2>3. mailbox.historyId # Unset => Caught(mailbox.historyId, read)'
    BY <1>1, <1>3, <1>4, <2>2 DEF SyncInv, Noted, Caught
  <2> QED BY <1>1, <2>1, <2>3 DEF SyncInv, Noted
<1>11. Hunted'
  BY <1>1 DEF SyncInv, Hunted, InCourse
<1>12. DoneIsRead'
  <2>1. 1 .. searched \subseteq Mails
    BY <1>1, <1>3 DEF SyncTypeOK, Mails
  <2> QED BY <1>1, <1>2, <2>1 DEF SyncInv, DoneIsRead, Since
<1> QED BY <1>5, <1>7, <1>8, <1>9, <1>10, <1>11, <1>12 DEF SyncInv

LEMMA NextDayKeepsSync ==
  ASSUME SyncInv, NextDay
  PROVE  SyncInv'
<1>1. /\ today' = today + 1 /\ today < LastDay
      /\ UNCHANGED <<on, mailbox, sender, sync, hunt, read, due, searched>>
      /\ \A w \in Syncs : sync[w].stage # "idle" => sync[w].day = today
  BY DEF NextDay
<1>2. today \in Nat
  BY Numbers DEF SyncInv
<1>3. SyncTypeOK'
  <2>1. today' \in Days
    BY <1>1, SyncAssumption DEF SyncInv, SyncTypeOK, Days
  <2> QED BY <1>1, <2>1 DEF SyncInv, SyncTypeOK, Mails
<1>4. \A m \in MailConnection : SoundHistory(m) => (m.syncedOn # Unset => m.syncedOn <= today + 1)
  BY <1>2, Numbers DEF SoundHistory, SyncInv
<1>5. InPast'
  BY <1>1, <1>2, <1>4, Numbers DEF SyncInv, InPast, SoundHistory, Mails, SyncTypeOK
<1>6. ASSUME NEW w \in Syncs PROVE Dated(w)'
  <2>1. CASE sync[w].stage = "idle"
    BY <1>1, <2>1 DEF Dated
  <2>2. CASE sync[w].stage # "idle"
    <3>1. sync[w].loaded \in MailConnection /\ sync[w].day = today /\ Dated(w)
      BY <1>1, <2>2, SyncFields DEF SyncInv
    <3>2. SoundHistory(sync[w].loaded)'
      BY <1>1, <1>4, <2>2, <3>1 DEF Dated, SoundHistory, Mails
    <3> QED BY <1>1, <1>2, <2>2, <3>1, <3>2 DEF Dated, Mails
  <2> QED BY <2>1, <2>2
<1>7. \A w \in Syncs : Followed(w)'
  BY <1>1 DEF SyncInv, Followed, SameMailbox, Caught
<1>8. Noted' /\ Hunted' /\ DoneIsRead'
  BY <1>1 DEF SyncInv, Noted, Caught, Hunted, InCourse, DoneIsRead, Since
<1> QED BY <1>3, <1>5, <1>6, <1>7, <1>8 DEF SyncInv

LEMMA HuntFields ==
  ASSUME SyncTypeOK, NEW t \in Hunts, hunt[t].stage # "idle"
  PROVE  /\ hunt[t].stage \in {"asked", "run"} /\ hunt[t].id \in 0 .. MaxMailboxes
         /\ hunt[t].from \in Days /\ hunt[t].alone \in BOOLEAN
  BY DEF SyncTypeOK, HuntState

LEMMA ConnectKeepsSync ==
  ASSUME SyncInv, Connect
  PROVE  SyncInv'
<1>1. UNCHANGED <<today, on, sender, sync, hunt, read, due, searched>> /\ mailbox \in MailConnection
  BY DEF Connect, SyncInv, SyncTypeOK
<1>2. /\ mailbox' \in MailConnection /\ mailbox'.status = "active"
      /\ \/ /\ mailbox.status # "none" /\ mailbox'.id = mailbox.id
            /\ mailbox'.historyId = mailbox.historyId /\ mailbox'.syncedOn = mailbox.syncedOn
         \/ /\ mailbox.status = "none" /\ mailbox'.id = mailbox.id + 1
            /\ mailbox'.historyId = Unset /\ mailbox'.syncedOn = Unset
  <2>1. CASE mailbox.status = "needs_reauth"
    BY <1>1, <2>1 DEF Connect, MailConnection
  <2>2. CASE mailbox.status = "none" /\ mailbox.id < MaxMailboxes
    <3>1. mailbox.id + 1 \in 0 .. MaxMailboxes
      BY <1>1, <2>2, SyncAssumption DEF MailConnection
    <3>2. mailbox' = [id |-> mailbox.id + 1, status |-> "active", historyId |-> Unset,
                      syncedOn |-> Unset]
      BY <2>2 DEF Connect, NoMailbox
    <3> QED BY <2>2, <3>1, <3>2 DEF MailConnection
  <2> QED BY <2>1, <2>2 DEF Connect
<1>3. mailbox.id \in Nat /\ mailbox'.id \in Nat
  BY <1>1, <1>2 DEF MailConnection
<1>4. \A w \in Syncs : Dated(w)' /\ Followed(w)'
  BY <1>1, <1>2, <1>3, OthersKept
<1>5. mailbox.status = "none" => mailbox.historyId = Unset /\ mailbox.syncedOn = Unset
  BY DEF SyncInv, Noted
<1>6. SyncTypeOK'
  BY <1>1, <1>2 DEF SyncInv, SyncTypeOK, Mails
<1>7. InPast'
  BY <1>1, <1>2, <1>5 DEF SyncInv, InPast, SoundHistory, Mails
<1>8. Noted'
  BY <1>1, <1>2, <1>5 DEF SyncInv, Noted, Caught
<1>9. Hunted'
  <2> SUFFICES ASSUME NEW t \in Hunts, hunt[t].stage # "idle"
               PROVE  /\ hunt[t].id <= mailbox'.id
                      /\ hunt[t].alone => InCourse = {t}
                      /\ hunt[t].alone /\ hunt[t].stage = "run" /\ mailbox'.id = hunt[t].id =>
                           sender.from = hunt[t].from
    BY <1>1 DEF Hunted, InCourse
  <2>1. hunt[t].id \in Nat /\ hunt[t].id <= mailbox.id
    BY HuntFields, SyncAssumption DEF SyncInv, Hunted
  <2> QED BY <1>2, <1>3, <2>1 DEF SyncInv, Hunted
<1>10. DoneIsRead'
  BY <1>1 DEF SyncInv, DoneIsRead, Since
<1> QED BY <1>4, <1>6, <1>7, <1>8, <1>9, <1>10 DEF SyncInv

LEMMA AdoptHistoryKeepsSync ==
  ASSUME SyncInv, AdoptHistory
  PROVE  SyncInv'
<1>1. /\ UNCHANGED <<today, on, sender, sync, hunt, read, due, searched>>
      /\ mailbox \in MailConnection /\ mailbox.status # "none" /\ mailbox.historyId = Unset
      /\ mailbox' = [mailbox EXCEPT !.historyId = Len(on)]
  BY DEF AdoptHistory, SyncInv, SyncTypeOK
<1>2. Len(on) \in Nat
  BY Numbers DEF SyncInv
<1>3. /\ mailbox' \in MailConnection /\ mailbox'.id = mailbox.id
      /\ mailbox'.status = mailbox.status /\ mailbox'.syncedOn = mailbox.syncedOn
      /\ mailbox'.historyId = Len(on)
  BY <1>1, <1>2 DEF MailConnection
<1>4. \A w \in Syncs : Dated(w)' /\ Followed(w)'
  BY <1>1, <1>3, Numbers, OthersKept DEF SyncInv
<1>5. SyncTypeOK'
  BY <1>1, <1>3 DEF SyncInv, SyncTypeOK, Mails
<1>6. InPast'
  BY <1>1, <1>2, <1>3 DEF SyncInv, InPast, SoundHistory, Mails
<1>7. Noted'
  BY <1>1, <1>2, <1>3, SyncAssumption DEF SyncInv, Noted, Caught
<1>8. Hunted'
  BY <1>1, <1>3 DEF SyncInv, Hunted, InCourse
<1>9. DoneIsRead'
  BY <1>1 DEF SyncInv, DoneIsRead, Since
<1> QED BY <1>4, <1>5, <1>6, <1>7, <1>8, <1>9 DEF SyncInv

LEMMA DisconnectMailboxKeepsSync ==
  ASSUME SyncInv, DisconnectMailbox
  PROVE  SyncInv'
<1>1. /\ UNCHANGED <<today, on, sync, hunt>>
      /\ mailbox' = [NoMailbox EXCEPT !.id = mailbox.id]
      /\ sender' = NewSender /\ read' = {} /\ due' = {} /\ searched' = 0
  BY DEF DisconnectMailbox
<1>2. /\ mailbox' \in MailConnection /\ mailbox'.id = mailbox.id
      /\ mailbox'.status = "none" /\ mailbox'.syncedOn = Unset
      /\ mailbox'.historyId = Unset
  BY <1>1 DEF MailConnection, NoMailbox, SyncInv, SyncTypeOK
<1>3. \A w \in Syncs : Dated(w)' /\ Followed(w)'
  BY <1>1, <1>2, Numbers, OthersKept DEF SyncInv
<1>4. SyncTypeOK'
  <2>1. NewSender \in MailSender
    BY DEF NewSender, MailSender
  <2>2. 0 \in 0 .. Len(on)
    BY Numbers DEF SyncInv
  <2> QED BY <1>1, <1>2, <2>1, <2>2 DEF SyncInv, SyncTypeOK, Mails
<1>5. InPast' /\ Noted' /\ DoneIsRead'
  BY <1>1, <1>2 DEF SyncInv, InPast, SoundHistory, Mails, Noted, DoneIsRead, NewSender
<1>6. Hunted'
  BY <1>1, <1>2 DEF SyncInv, Hunted, InCourse
<1> QED BY <1>3, <1>4, <1>5, <1>6 DEF SyncInv

LEMMA SetSenderKeepsSync ==
  ASSUME SyncInv, NEW active \in BOOLEAN, SetSender(active)
  PROVE  SyncInv'
<1>1. /\ UNCHANGED <<today, on, mailbox, sync, hunt, read, searched>>
      /\ mailbox.status # "none" /\ sender' = [sender EXCEPT !.active = active]
      /\ due' = IF active THEN due ELSE due \cap read
  BY DEF SetSender
<1>2. /\ sender' \in MailSender /\ sender'.active = active /\ sender'.backfill = sender.backfill
      /\ sender'.told = sender.told /\ sender'.from = sender.from
  BY <1>1 DEF SyncInv, SyncTypeOK, MailSender
<1>3. \A w \in Syncs : Dated(w)' /\ Followed(w)'
  BY <1>1, Numbers, OthersKept DEF SyncInv
<1>4. SyncTypeOK'
  BY <1>1, <1>2 DEF SyncInv, SyncTypeOK, Mails
<1>5. InPast' /\ Noted'
  BY <1>1, <1>2 DEF SyncInv, InPast, SoundHistory, Mails, Noted, Caught
<1>6. Hunted' /\ DoneIsRead'
  BY <1>1, <1>2 DEF SyncInv, Hunted, InCourse, DoneIsRead, Since
<1> QED BY <1>3, <1>4, <1>5, <1>6 DEF SyncInv

(* The reading of old mails. *)

Here(t) == mailbox.status # "none" /\ mailbox.id = hunt[t].id

LEMMA HuntStepKeeps ==
  ASSUME SyncInv, UNCHANGED <<today, on, mailbox, sync, due>>,
         sender' \in MailSender, sender'.active = sender.active,
         mailbox.status = "none" => sender' = sender,
         read \subseteq read', read' \subseteq Mails, searched' \in 0 .. Len(on),
         hunt' \in [Hunts -> HuntState], Hunted', DoneIsRead'
  PROVE  SyncInv'
<1>1. \A w \in Syncs : Dated(w)' /\ Followed(w)'
  BY Numbers, OthersKept DEF SyncInv
<1>2. SyncTypeOK'
  BY DEF SyncInv, SyncTypeOK, Mails
<1>3. InPast' /\ Noted'
  BY DEF SyncInv, InPast, SoundHistory, Mails, Noted, Caught
<1> QED BY <1>1, <1>2, <1>3 DEF SyncInv

LEMMA AskBackfillKeepsSync ==
  ASSUME SyncInv, NEW t \in Hunts, NEW from \in Days, AskBackfill(t, from)
  PROVE  SyncInv'
<1>1. /\ UNCHANGED <<today, on, mailbox, sender, sync, read, due, searched>>
      /\ hunt[t].stage = "idle" /\ \A u \in Hunts : hunt[u].stage \in {"idle", "asked"}
      /\ hunt' = [u \in Hunts |->
            IF u = t THEN [stage |-> "asked", id |-> mailbox.id, from |-> from,
                           alone |-> InCourse = {}]
            ELSE IF u \in InCourse THEN [hunt[u] EXCEPT !.alone = FALSE] ELSE hunt[u]]
  BY DEF AskBackfill
<1>2. hunt \in [Hunts -> HuntState] /\ mailbox \in MailConnection
  BY DEF SyncInv, SyncTypeOK
<1>3. /\ hunt'[t] = [stage |-> "asked", id |-> mailbox.id, from |-> from, alone |-> InCourse = {}]
      /\ \A u \in Hunts : u # t /\ u \in InCourse => hunt'[u] = [hunt[u] EXCEPT !.alone = FALSE]
      /\ \A u \in Hunts : u # t /\ u \notin InCourse => hunt'[u] = hunt[u]
  BY <1>1
<1>4. ASSUME NEW u \in Hunts, u # t, u \in InCourse
      PROVE  /\ hunt'[u] \in HuntState /\ hunt'[u].stage = hunt[u].stage
             /\ hunt'[u].id = hunt[u].id /\ hunt'[u].alone = FALSE
  <2>1. hunt[u].stage # "idle" /\ hunt[u] \in HuntState
    BY <1>2, <1>4 DEF InCourse
  <2> QED BY <1>3, <1>4, <2>1 DEF HuntState
<1>5. /\ hunt'[t] \in HuntState /\ hunt'[t].stage = "asked" /\ hunt'[t].id = mailbox.id
      /\ hunt'[t].alone => InCourse = {}
  <2> DEFINE a == InCourse = {}
             r == [stage |-> "asked", id |-> mailbox.id, from |-> from, alone |-> a]
  <2>1. a \in BOOLEAN /\ (a => InCourse = {})
    BY Zenon
  <2>2. hunt'[t] = r
    BY <1>3
  <2> HIDE DEF a
  <2>3. r \in HuntState /\ r.stage = "asked" /\ r.id = mailbox.id /\ r.alone = a
    BY <1>2, <2>1 DEF HuntState, MailConnection
  <2> QED BY <2>1, <2>2, <2>3
<1>6. hunt' \in [Hunts -> HuntState]
  <2>1. \A u \in Hunts : hunt'[u] \in HuntState
    BY <1>2, <1>3, <1>4, <1>5
  <2> QED BY <1>1, <2>1
<1>7. InCourse' = InCourse \cup {t}
  BY <1>1, <1>3, <1>4, <1>5 DEF InCourse
<1>8. Hunted'
  <2> SUFFICES ASSUME NEW u \in Hunts, hunt'[u].stage # "idle"
               PROVE  /\ hunt'[u].id <= mailbox.id
                      /\ hunt'[u].alone => InCourse' = {u}
                      /\ hunt'[u].alone => hunt'[u].stage # "run"
    BY <1>1 DEF Hunted
  <2>1. CASE u = t
    BY <1>2, <1>5, <1>7, <2>1 DEF MailConnection
  <2>2. CASE u # t
    <3>1. u \in InCourse
      BY <1>3, <2>2 DEF InCourse
    <3> QED BY <1>4, <2>2, <3>1 DEF SyncInv, Hunted, InCourse
  <2> QED BY <2>1, <2>2
<1>9. DoneIsRead'
  BY <1>1 DEF SyncInv, DoneIsRead, Since
<1> QED BY <1>1, <1>6, <1>8, <1>9, HuntStepKeeps DEF SyncInv, SyncTypeOK

(* What is written for the sender, if it is still there. *)
LEMMA SetBackfillWrites ==
  ASSUME SyncInv, NEW t \in Hunts, hunt[t].stage # "idle",
         NEW x \in {"running", "done", "incomplete", "failed"}, SetBackfill(t, x)
  PROVE  /\ sender' \in MailSender /\ sender'.active = sender.active
         /\ ~Here(t) => sender' = sender
         /\ Here(t) => /\ sender'.backfill = x /\ sender'.told = hunt[t].alone
                       /\ sender'.from = IF x = "running" THEN hunt[t].from ELSE sender.from
  BY HuntFields DEF SyncInv, SyncTypeOK, SetBackfill, MailSender, Here

LEMMA StartBackfillKeepsSync ==
  ASSUME SyncInv, NEW t \in Hunts, StartBackfill(t)
  PROVE  SyncInv'
<1>1. /\ hunt[t].stage = "asked" /\ SetBackfill(t, "running")
      /\ hunt' = [hunt EXCEPT ![t].stage = "run"]
      /\ UNCHANGED <<today, on, mailbox, sync, read, due, searched>>
  BY DEF StartBackfill
<1>2. /\ sender' \in MailSender /\ sender'.active = sender.active
      /\ ~Here(t) => sender' = sender
      /\ Here(t) => sender'.backfill = "running" /\ sender'.from = hunt[t].from
  BY <1>1, SetBackfillWrites
<1>3. hunt \in [Hunts -> HuntState]
  BY DEF SyncInv, SyncTypeOK
<1>4. /\ hunt'[t] \in HuntState /\ hunt'[t].stage = "run" /\ hunt'[t].id = hunt[t].id
      /\ hunt'[t].from = hunt[t].from /\ hunt'[t].alone = hunt[t].alone
      /\ hunt' \in [Hunts -> HuntState]
      /\ \A u \in Hunts : u # t => hunt'[u] = hunt[u]
  <2>1. LET r == [hunt[t] EXCEPT !.stage = "run"]
        IN  /\ r \in HuntState /\ r.stage = "run" /\ r.id = hunt[t].id
            /\ r.from = hunt[t].from /\ r.alone = hunt[t].alone
    BY <1>1, <1>3 DEF HuntState
  <2> QED BY <1>1, <1>3, <2>1
<1>5. InCourse' = InCourse /\ t \in InCourse
  BY <1>1, <1>4 DEF InCourse
<1>6. Hunted'
  <2> SUFFICES ASSUME NEW u \in Hunts, hunt'[u].stage # "idle"
               PROVE  /\ hunt'[u].id <= mailbox.id
                      /\ hunt'[u].alone => InCourse = {u}
                      /\ /\ hunt'[u].alone /\ mailbox.status # "none"
                         /\ mailbox.id = hunt'[u].id
                         => sender'.from = hunt'[u].from
    BY <1>1, <1>5 DEF Hunted
  <2>1. CASE u = t
    BY <1>1, <1>2, <1>4, <2>1 DEF SyncInv, Hunted, Here
  <2>2. CASE u # t
    <3>1. hunt[u].stage # "idle" /\ ~hunt[u].alone
      BY <1>4, <1>5, <2>2 DEF SyncInv, Hunted
    <3> QED BY <1>4, <2>2, <3>1 DEF SyncInv, Hunted
  <2> QED BY <2>1, <2>2
<1>7. DoneIsRead'
  BY <1>1, <1>2 DEF SyncInv, DoneIsRead, Since
<1>8. mailbox.status = "none" => sender' = sender
  BY <1>2 DEF Here
<1> QED BY <1>1, <1>2, <1>4, <1>6, <1>7, <1>8, HuntStepKeeps DEF SyncInv, SyncTypeOK

(* A reading that ends is no longer in course, and nobody else's was alone.  *)
LEMMA HuntEnds ==
  ASSUME SyncInv, NEW t \in Hunts, hunt[t].stage # "idle",
         hunt' = [hunt EXCEPT ![t] = Resting], UNCHANGED mailbox
  PROVE  hunt' \in [Hunts -> HuntState] /\ Hunted'
<1>1. hunt \in [Hunts -> HuntState]
  BY DEF SyncInv, SyncTypeOK
<1>2. hunt' \in [Hunts -> HuntState]
  BY <1>1 DEF HuntState, Resting
<1>3. hunt'[t].stage = "idle" /\ \A u \in Hunts : u # t => hunt'[u] = hunt[u]
  BY <1>1 DEF Resting
<1>4. t \in InCourse
  BY DEF InCourse
<1>5. ASSUME NEW u \in Hunts, hunt'[u].stage # "idle"
      PROVE  hunt'[u] = hunt[u] /\ hunt[u].id <= mailbox.id /\ ~hunt[u].alone
  BY <1>3, <1>4, <1>5 DEF SyncInv, Hunted
<1> QED BY <1>2, <1>5 DEF Hunted

LEMMA RunBackfillKeepsSync ==
  ASSUME SyncInv, NEW t \in Hunts, RunBackfill(t)
  PROVE  SyncInv'
<1> DEFINE found == Since(hunt[t].from, Mails)
<1>1. /\ hunt[t].stage = "run" /\ hunt' = [hunt EXCEPT ![t] = Resting]
      /\ UNCHANGED <<today, on, mailbox, sync, due>>
  BY DEF RunBackfill
<1>2. PICK failed \in SUBSET (found \ read) :
        /\ read' = IF Here(t) THEN read \cup (found \ failed) ELSE read
        /\ SetBackfill(t, Outcome(failed))
        /\ searched' = IF Here(t) THEN Len(on) ELSE searched
  BY DEF RunBackfill, Here
<1>3. Outcome(failed) \in {"done", "incomplete"} /\ (Outcome(failed) = "done" => failed = {})
  BY DEF Outcome
<1>4. /\ sender' \in MailSender /\ sender'.active = sender.active
      /\ ~Here(t) => sender' = sender
      /\ Here(t) => /\ sender'.backfill = Outcome(failed) /\ sender'.told = hunt[t].alone
                    /\ sender'.from = sender.from
  BY <1>1, <1>2, <1>3, SetBackfillWrites
<1>5. read \subseteq read' /\ read' \subseteq Mails /\ searched' \in 0 .. Len(on)
  <2>1. found \subseteq Mails
    BY DEF Since
  <2>2. read \subseteq Mails /\ searched \in 0 .. Len(on)
    BY DEF SyncInv, SyncTypeOK
  <2> QED BY <1>2, <2>1, <2>2, Numbers DEF SyncInv
<1>6. DoneIsRead'
  <2>1. CASE ~Here(t)
    BY <1>1, <1>2, <1>4, <2>1 DEF SyncInv, DoneIsRead, Since
  <2>2. CASE Here(t)
    <3>1. CASE sender'.backfill = "done" /\ sender'.told
      <4>1. sender'.from = hunt[t].from /\ hunt[t].from \in Days
        BY <1>1, <1>4, <2>2, <3>1, HuntFields DEF SyncInv, Hunted, Here
      <4>2. found \subseteq read'
        BY <1>2, <1>3, <1>4, <2>2, <3>1
      <4>3. 1 .. searched' = Mails
        BY <1>2, <2>2 DEF Mails
      <4> QED BY <1>1, <4>1, <4>2, <4>3 DEF DoneIsRead, Since
    <3> QED BY <3>1 DEF DoneIsRead
  <2> QED BY <2>1, <2>2
<1>7. mailbox.status = "none" => sender' = sender
  BY <1>4 DEF Here
<1>8. hunt' \in [Hunts -> HuntState] /\ Hunted'
  BY <1>1, HuntEnds
<1> QED BY <1>1, <1>4, <1>5, <1>6, <1>7, <1>8, HuntStepKeeps

LEMMA FailBackfillKeepsSync ==
  ASSUME SyncInv, NEW t \in Hunts, FailBackfill(t)
  PROVE  SyncInv'
<1>1. /\ hunt[t].stage = "run" /\ SetBackfill(t, "failed")
      /\ hunt' = [hunt EXCEPT ![t] = Resting]
      /\ UNCHANGED <<today, on, mailbox, sync, read, due, searched>>
  BY DEF FailBackfill
<1>2. /\ sender' \in MailSender /\ sender'.active = sender.active
      /\ ~Here(t) => sender' = sender
      /\ Here(t) => sender'.backfill = "failed"
  BY <1>1, SetBackfillWrites
<1>3. DoneIsRead'
  BY <1>1, <1>2 DEF SyncInv, DoneIsRead, Since
<1>4. hunt' \in [Hunts -> HuntState] /\ Hunted'
  BY <1>1, HuntEnds
<1>5. mailbox.status = "none" => sender' = sender
  BY <1>2 DEF Here
<1> QED BY <1>1, <1>2, <1>3, <1>4, <1>5, HuntStepKeeps DEF SyncInv, SyncTypeOK

LEMMA CrashKeepsSync ==
  ASSUME SyncInv, CrashSync
  PROVE  SyncInv'
<1>1. /\ \A w \in Syncs : sync'[w] = Resting
      /\ \A t \in Hunts : hunt'[t] = Resting
      /\ UNCHANGED <<today, on, mailbox, sender, read, due, searched>>
  BY DEF CrashSync
<1>2. SyncTypeOK'
  BY RestingTyped DEF CrashSync, SyncInv, SyncTypeOK, Mails, HuntState, Resting
<1>3. \A w \in Syncs : Dated(w)' /\ Followed(w)'
  BY <1>1 DEF Dated, Followed, Resting
<1>4. Hunted'
  BY <1>1 DEF Hunted, Resting
<1>5. InPast' /\ Noted' /\ DoneIsRead'
  BY <1>1 DEF SyncInv, InPast, SoundHistory, Mails, Noted, Caught, DoneIsRead, Since
<1> QED BY <1>2, <1>3, <1>4, <1>5 DEF SyncInv

LEMMA InitSync == SyncInit => SyncInv
<1> SUFFICES ASSUME SyncInit PROVE SyncInv
  OBVIOUS
<1>1. SyncTypeOK
  BY SyncAssumption
     DEF SyncInit, SyncTypeOK, Days, MailConnection, MailSender, SyncState, HuntState, Resting,
         NoMailbox, NewSender
<1>2. Mails = {}
  BY DEF SyncInit, Mails
<1>3. InPast /\ Noted /\ Hunted /\ DoneIsRead /\ \A w \in Syncs : Dated(w) /\ Followed(w)
  BY <1>2 DEF SyncInit, InPast, SoundHistory, Noted, Hunted, DoneIsRead, Dated, Followed,
              Resting, NoMailbox, NewSender
<1> QED BY <1>1, <1>3 DEF SyncInv

LEMMA NextKeepsSync == SyncInv /\ [SyncNext]_syncVars => SyncInv'
<1> SUFFICES ASSUME SyncInv, [SyncNext]_syncVars PROVE SyncInv'
  OBVIOUS
<1>1. ASSUME NEW t \in Hunts, Backfill(t) PROVE SyncInv'
  <2>1. FirstDay \in Days /\ today \in Days
    BY SyncAssumption DEF Days, SyncInv, SyncTypeOK
  <2> QED BY <1>1, <2>1, AskBackfillKeepsSync, StartBackfillKeepsSync, RunBackfillKeepsSync,
             FailBackfillKeepsSync DEF Backfill
<1>2. CASE UNCHANGED syncVars
  BY <1>2 DEF syncVars, SyncInv, SyncTypeOK, InPast, SoundHistory, Mails, Noted, Caught, Hunted,
              InCourse, DoneIsRead, Since, Dated, Followed, SameMailbox
<1> QED BY <1>1, <1>2, ArriveKeepsSync, NextDayKeepsSync, ConnectKeepsSync, AdoptHistoryKeepsSync,
           DisconnectMailboxKeepsSync, SetSenderKeepsSync, SyncHistoryKeepsSync, CrashKeepsSync
        DEF SyncNext

(* However many synchronisations and readings of old mails overlap, fail or  *)
(* die, the tables, what they know and the mails they name keep their types. *)
THEOREM SyncTypeCorrect == SyncSpec => []SyncTypeOK
<1>1. SyncInv => SyncTypeOK
  BY DEF SyncInv
<1> QED BY <1>1, InitSync, NextKeepsSync, PTL DEF SyncSpec

(* And the historyId of a mailbox never passes a mail of its sender that was *)
(* not read, for any number of them; what a reading that was alone tells as  *)
(* done was read.                                                            *)
THEOREM MailboxIsRead == SyncSpec => []MailboxRead
<1>1. SyncInv => MailboxRead
  BY DEF SyncInv, Noted, Caught, DoneIsRead, MailboxRead
<1> QED BY <1>1, InitSync, NextKeepsSync, PTL DEF SyncSpec
=============================================================================
