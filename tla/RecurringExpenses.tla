-------------------------- MODULE RecurringExpenses --------------------------
(***************************************************************************)
(* Templates that generate an expense every so often (table                 *)
(* recurring_expenses).  RecurringExpensesService.runDue, called by a daily *)
(* cron and by a mutation, loads the templates that are due, creates one    *)
(* expense per pending occurrence, each in a transaction of its own, and    *)
(* saves the template only when its occurrences are done.  Edits load the   *)
(* template, change it in memory and save the whole row.                    *)
(*                                                                          *)
(* A date is the ordinal of a day; MonthStart is the calendar.              *)
(***************************************************************************)
EXTENDS Integers, Sequences, Functions, Rows

CONSTANTS
  Templates,    \* uuids of templates
  Runners,      \* executions of runDue that may be in course: cron, mutation
  Editors,      \* updateRecurringExpense requests that may be in course
  NewRows,      \* the templates a user creates
  Changes,      \* what an update may set: records over the columns
  MonthStart,   \* MonthStart[m] is the first day of month m
  Days,         \* the days on which the server is looked at
  MaxEdits,     \* bound: updates and removals in a behaviour
  MaxFaults,    \* bound: crashes and failed executions in a behaviour
  None          \* SQL NULL

MONTHS_BY_RECURRENCE ==
  [MONTHLY |-> 1, BIMONTHLY |-> 2, QUARTERLY |-> 3, SEMIANNUAL |-> 6, ANNUAL |-> 12]
DAYS_BY_RECURRENCE == [DAILY |-> 1, WEEKLY |-> 7, BIWEEKLY |-> 14]
Recurrences == DOMAIN MONTHS_BY_RECURRENCE \cup DOMAIN DAYS_BY_RECURRENCE

Row == [start : Nat, next : Nat, end : Nat \cup {None}, active : BOOLEAN,
        every : Recurrences, items : BOOLEAN, amount : BOOLEAN]
(* what an update may give a column *)
Given == [end |-> Nat \cup {None}, active |-> BOOLEAN, every |-> Recurrences,
          items |-> BOOLEAN, amount |-> BOOLEAN]

(* The calendar begins before the first template and goes on for more than a *)
(* year after the last of Days; a month has twenty-eight days or more.       *)
ASSUME RecurringAssumption ==
  /\ MonthStart \in Seq(Nat)
  /\ \A m, n \in DOMAIN MonthStart : m < n => MonthStart[m] + 28 <= MonthStart[n]
  /\ Days \subseteq Nat /\ Days # {}
  /\ Len(MonthStart) > 12 /\ \A d \in Days : d < MonthStart[Len(MonthStart) - 12]
  /\ NewRows \subseteq Row
  /\ \A row \in NewRows : MonthStart[1] <= row.start
  /\ \A c \in Changes : \A x \in DOMAIN c : x \in DOMAIN Given /\ c[x] \in Given[x]
  /\ MaxEdits \in Nat /\ MaxFaults \in Nat
  /\ None \notin Templates

VARIABLES
  today,     \* the date of the server
  template,  \* recurring_expenses: id |-> Row
  charged,   \* the occurrences turned into expenses, in the order created
  run,       \* executions of runDue in course: what each loaded and its date
  edit,      \* updates in course: the row each loaded and what it will set
  edits,     \* updates and removals so far
  faults,    \* crashes and failed executions so far
  disturbed  \* history: templates two requests held at once, or that a crash or
             \* an exception caught between an expense and the save

recurringVars == <<today, template, charged, run, edit, edits, faults, disturbed>>

-----------------------------------------------------------------------------
(* The calendar *)

MonthOf(d) == CHOOSE m \in DOMAIN MonthStart :
                /\ MonthStart[m] <= d
                /\ \A n \in DOMAIN MonthStart : MonthStart[n] <= d => n <= m

(* mutant: a month is always thirty days *)
AddInterval_ThirtyDays(d, every) ==
  IF every \in DOMAIN MONTHS_BY_RECURRENCE THEN d + 30 * MONTHS_BY_RECURRENCE[every]
  ELSE d + DAYS_BY_RECURRENCE[every]

(* setUTCMonth keeps the day of the month: in a shorter month the excess     *)
(* spills into the month after                                              *)
AddInterval(d, every) ==
  IF every \in DOMAIN MONTHS_BY_RECURRENCE
  THEN LET m == MonthOf(d)
       IN  MonthStart[m + MONTHS_BY_RECURRENCE[every]] + (d - MonthStart[m])
  ELSE d + DAYS_BY_RECURRENCE[every]

-----------------------------------------------------------------------------
(* Templates and their edits *)

Empty == [x \in {} |-> None]
Without(f, x) == Restrict(f, DOMAIN f \ {x})
Chargeable(row) == row.items \/ row.amount

(* save() of a loaded entity: UPDATE, or INSERT if the row is gone *)
Save(table, id, row) == Over([x \in {id} |-> row], table)

(* the templates some request in course has a copy of *)
Held == (UNION {DOMAIN run[w].due : w \in DOMAIN run}) \cup {edit[e].id : e \in DOMAIN edit}
Disturb(ids) == disturbed' = disturbed \cup ids

Create(t, row) ==
  /\ t \notin DOMAIN template /\ charged[t] = <<>> /\ t \notin Held
  /\ Chargeable(row) /\ row.next = row.start /\ row.active
  /\ template' = Save(template, t, row)
  /\ UNCHANGED <<today, charged, run, edit, edits, faults, disturbed>>

(* update: findOne; when it replaces the items it deletes the old ones at    *)
(* once, in a statement of its own                                          *)
BeginUpdate(e, t, change) ==
  /\ edits < MaxEdits
  /\ e \notin DOMAIN edit /\ t \in DOMAIN template
  /\ edit' = Save(edit, e, [id |-> t, row |-> Over(change, template[t])])
  /\ template' = IF "items" \in DOMAIN change
                 THEN [template EXCEPT ![t].items = FALSE] ELSE template
  /\ edits' = edits + 1
  /\ Disturb({t} \cap Held)
  /\ UNCHANGED <<today, charged, run, faults>>

(* update: save of the whole entity *)
SaveUpdate(e) ==
  /\ e \in DOMAIN edit
  /\ template' = Save(template, edit[e].id, edit[e].row)
  /\ edit' = Without(edit, e)
  /\ UNCHANGED <<today, charged, run, edits, faults, disturbed>>

Remove(t) ==
  /\ edits < MaxEdits
  /\ t \in DOMAIN template
  /\ template' = Without(template, t)
  /\ edits' = edits + 1
  /\ Disturb({t} \cap Held)
  /\ UNCHANGED <<today, charged, run, edit, faults>>

-----------------------------------------------------------------------------
(* runDue *)

(* mutant: what falls due today waits for tomorrow *)
DueOn_Strict(row, date) == row.active /\ row.next < date

DueOn(row, date) == row.active /\ row.next <= date
Ended(row) == row.end # None /\ row.next > row.end

(* the condition of the inner loop *)
Occurs(row, date) == DueOn(row, date) /\ ~Ended(row)

(* the template in memory once one more occurrence is charged *)
Advanced(row) ==
  LET moved == [row EXCEPT !.next = AddInterval(row.next, row.every)]
  IN  [moved EXCEPT !.active = ~Ended(moved)]

(* find({isActive, nextRunOn <= today}): the rows are copied now *)
BeginRun(w) ==
  LET ids == {t \in DOMAIN template : DueOn(template[t], today)} IN
  /\ w \notin DOMAIN run
  /\ run' = Save(run, w, [date |-> today, current |-> None, due |-> Restrict(template, ids)])
  /\ Disturb(ids \cap Held)
  /\ UNCHANGED <<today, template, charged, edit, edits, faults>>

(* the next template of the list, which the query leaves unordered *)
Pick(w, t) ==
  /\ w \in DOMAIN run /\ run[w].current = None
  /\ t \in DOMAIN run[w].due
  /\ run' = [run EXCEPT ![w].current = t]
  /\ UNCHANGED <<today, template, charged, edit, edits, faults, disturbed>>

Copy(w) == run[w].due[run[w].current]
Working(w) == w \in DOMAIN run /\ run[w].current # None

(* materialize commits one expense; the template advances in memory *)
Materialize(w) ==
  /\ Working(w)
  /\ Occurs(Copy(w), run[w].date) /\ Chargeable(Copy(w))
  /\ charged' = [charged EXCEPT ![run[w].current] = Append(@, Copy(w).next)]
  /\ run' = [run EXCEPT ![w].due[run[w].current] = Advanced(@)]
  /\ UNCHANGED <<today, template, edit, edits, faults, disturbed>>

(* the loop is over: save(recurring), and on to the next template *)
SaveTemplate(w) ==
  /\ Working(w) /\ ~Occurs(Copy(w), run[w].date)
  /\ template' = Save(template, run[w].current, Copy(w))
  /\ run' = [run EXCEPT ![w].current = None, ![w].due = Without(@, run[w].current)]
  /\ UNCHANGED <<today, charged, edit, edits, faults, disturbed>>

EndRun(w) ==
  /\ w \in DOMAIN run /\ run[w].current = None /\ DOMAIN run[w].due = {}
  /\ run' = Without(run, w)
  /\ UNCHANGED <<today, template, charged, edit, edits, faults, disturbed>>

(* an exception leaves runDue: the copies in memory and the rest of the list *)
(* are lost                                                                  *)
Leave(w) ==
  /\ run' = Without(run, w)
  /\ Disturb({run[w].current})
  /\ UNCHANGED <<today, template, charged, edit, edits>>

(* ExpensesService.create refuses an expense with no amount and no items *)
Refuse(w) ==
  /\ Working(w)
  /\ Occurs(Copy(w), run[w].date) /\ ~Chargeable(Copy(w))
  /\ Leave(w)
  /\ UNCHANGED faults

(* any other exception: no credit, an account that is gone, the database *)
Fail(w) ==
  /\ Working(w)
  /\ faults < MaxFaults
  /\ faults' = faults + 1
  /\ Leave(w)

(* the process dies with everything it had in memory *)
Crash ==
  /\ faults < MaxFaults
  /\ faults' = faults + 1
  /\ run' = Empty /\ edit' = Empty
  /\ Disturb(Held)
  /\ UNCHANGED <<today, template, charged, edits>>

NextDay ==
  /\ \E d \in Days :
       /\ d > today
       /\ \A n \in Days : n > today => d <= n
       /\ today' = d
  /\ UNCHANGED <<template, charged, run, edit, edits, faults, disturbed>>

-----------------------------------------------------------------------------
RecurringInit ==
  /\ today \in {d \in Days : \A n \in Days : d <= n}
  /\ template = Empty /\ run = Empty /\ edit = Empty
  /\ charged = [t \in Templates |-> <<>>]
  /\ edits = 0 /\ faults = 0 /\ disturbed = {}

RunStep(w) ==
  \/ Materialize(w) \/ SaveTemplate(w) \/ EndRun(w) \/ Refuse(w)
  \/ \E t \in Templates : Pick(w, t)

RecurringNext ==
  \/ \E t \in Templates, row \in NewRows : Create(t, row)
  \/ \E e \in Editors, t \in Templates, c \in Changes : BeginUpdate(e, t, c)
  \/ \E e \in Editors : SaveUpdate(e)
  \/ \E t \in Templates : Remove(t)
  \/ \E w \in Runners : BeginRun(w) \/ RunStep(w) \/ Fail(w)
  \/ Crash
  \/ NextDay

RecurringSpec == RecurringInit /\ [][RecurringNext]_recurringVars

(* Node runs what was awaited and the cron fires every day: an execution     *)
(* that began goes on, and another one begins after it                      *)
FairRecurringSpec ==
  /\ RecurringSpec
  /\ WF_recurringVars(\E w \in Runners : BeginRun(w))
  /\ \A w \in Runners : WF_recurringVars(RunStep(w))
  /\ \A e \in Editors : WF_recurringVars(SaveUpdate(e))

-----------------------------------------------------------------------------
(* Properties *)

(* Types: a template is a row with its columns, an execution in course holds *)
(* copies of rows and works on one of them.                                 *)
RecurringTypeOK ==
  /\ today \in Days
  /\ DOMAIN template \subseteq Templates
  /\ \A t \in DOMAIN template : template[t] \in Row
  /\ charged \in [Templates -> Seq(Nat)]
  /\ DOMAIN run \subseteq Runners
  /\ \A w \in DOMAIN run :
       /\ run[w].date \in Days
       /\ run[w].current \in DOMAIN run[w].due \cup {None}
       /\ \A t \in DOMAIN run[w].due : run[w].due[t] \in Row
  /\ DOMAIN edit \subseteq Editors
  /\ \A e \in DOMAIN edit : edit[e].row \in Row
  /\ edits \in 0 .. MaxEdits /\ faults \in 0 .. MaxFaults
  /\ disturbed \subseteq Templates

(* the k-th occurrence of a template after its start, worked out at once *)
Occurrence(row, k) ==
  IF row.every \in DOMAIN MONTHS_BY_RECURRENCE
  THEN LET m == MonthOf(row.start)
       IN  MonthStart[m + k * MONTHS_BY_RECURRENCE[row.every]] + (row.start - MonthStart[m])
  ELSE row.start + k * DAYS_BY_RECURRENCE[row.every]

(* every month has that day *)
Regular(row) ==
  row.every \in DOMAIN MONTHS_BY_RECURRENCE => row.start - MonthStart[MonthOf(row.start)] < 28

(* A template "genera un gasto real cada cierto periodo": while no request   *)
(* works on it, what was charged and what comes next are exactly the dates   *)
(* its frequency gives from its start, each once and in order, through       *)
(* catching up and edits.  The exceptions are the templates two requests     *)
(* held at once, or that an exception or a crash caught before the save.     *)
OnSchedule ==
  \A t \in DOMAIN template \ (Held \cup disturbed) : Regular(template[t]) =>
    LET dates == Append(charged[t], template[t].next) IN
    \A i \in DOMAIN dates : dates[i] = Occurrence(template[t], i - 1)

(* Whatever overlaps, fails or dies, no occurrence is missed: every date     *)
(* before the next one has its expense (it may have two).                    *)
NoneMissed ==
  \A t \in DOMAIN template : Regular(template[t]) =>
    \E n \in 0 .. Len(charged[t]) :
      /\ template[t].next = Occurrence(template[t], n)
      /\ \A k \in 0 .. n - 1 : Occurrence(template[t], k) \in Range(charged[t])

ScheduleKept == OnSchedule /\ NoneMissed

Overdue(t) ==
  /\ t \in DOMAIN template /\ template[t].active
  /\ template[t].next <= today
  /\ template[t].end # None => template[t].next <= template[t].end

(* An occurrence does not wait for ever: once every template can be charged  *)
(* (a single one that cannot be aborts the whole execution), what is due is  *)
(* charged, or the user stops it.                                            *)
DueIsCharged ==
  <>[](\A t \in DOMAIN template : Chargeable(template[t])) =>
  \A t \in Templates : Overdue(t) ~> ~Overdue(t)
=============================================================================
