------------------------------ MODULE MCServices ------------------------------
(***************************************************************************)
(* The services that share no table.  A behaviour exercises the queue        *)
(* of the classifier ("queue": five tasks for three places), one recurring   *)
(* template ("recurring": the cron and a mutation, an editor, a crash or an  *)
(* exception) or the daily series of the portfolio ("snapshots": the nightly *)
(* job, a query, two operations, one of them dated ahead, a failure or a     *)
(* change of currency).  Or it exercises the sessions and second factor of a *)
(* user ("access"), an API key ("keys"), or one session with XTB ("session").*)
(***************************************************************************)
EXTENDS CategorizationQueue, XtbSession, Access, RecurringExpenses, Snapshots

CONSTANTS rent, cron, mutation, user, r1, j1, o1, o2, u1, u2

VARIABLE exercised

\* The months of 2026 and 2027.
MCMonthStart ==
  <<0, 31, 59, 90, 120, 151, 181, 212, 243, 273, 304, 334,
    365, 396, 424, 455, 485, 516, 546, 577, 608, 638, 669, 699>>

\* Monthly from the 28th of January; every two weeks, with an end.
Template(start, every, end) ==
  [start |-> start, next |-> start, end |-> end, active |-> TRUE, every |-> every,
   items |-> every # "MONTHLY", amount |-> every = "MONTHLY"]
MCNewRows == {Template(27, "MONTHLY", None), Template(45, "BIWEEKLY", 60)}
MCChanges == {[active |-> FALSE], [items |-> TRUE], [end |-> 55]}

MCCommands == <<"login", "getInstruments", "getPositions">>
MCAccessOps == AuthOps \cup {"refresh", "logout", "createKey", "updateKey", "revokeKey", "removeKey"}

doorAndSession == <<sessionVars, accessVars>>

ServicesInit ==
  /\ exercised \in {"queue", "recurring", "snapshots", "access", "keys", "session"}
  /\ SessionInit /\ AccessInit
  /\ Init /\ RecurringInit
  /\ SnapshotInit /\ base = "COP"

ServicesNext ==
  /\ UNCHANGED exercised
  /\ \/ exercised = "queue" /\ Next
        /\ UNCHANGED <<recurringVars, snapshotVars, doorAndSession>>
     \/ exercised = "recurring" /\ RecurringNext
        /\ UNCHANGED <<vars, snapshotVars, doorAndSession>>
     \/ exercised = "snapshots" /\ SnapshotNext
        /\ UNCHANGED <<vars, recurringVars, doorAndSession>>
     \/ exercised = "access" /\ UNCHANGED apiKey /\ AccessNext
        /\ UNCHANGED <<vars, recurringVars, snapshotVars, sessionVars>>
     \/ /\ exercised = "keys" /\ UNCHANGED <<auth, tokens>> /\ AccessNext
        /\ \A c \in Clients : request'[c].stage \in {"none", "key"}
        /\ UNCHANGED <<vars, recurringVars, snapshotVars, sessionVars>>
     \/ exercised = "session" /\ SessionNext
        /\ UNCHANGED <<vars, recurringVars, snapshotVars, accessVars>>

In(service) == exercised = service

BuildStep(b) ==
  LoadBook(b) \/ DeleteAll(b) \/ ReadGrids(b) \/ Delete(b) \/ Insert(b)

\* Node runs what was awaited, a request to the classifier carries a timeout, and
\* both crons fire every day.
Fairness ==
  /\ \A t \in Tasks : WF_vars(In("queue") /\ Settle(t))
  /\ WF_recurringVars(In("recurring") /\ \E w \in {cron, mutation} : BeginRun(w))
  /\ \A w \in {cron, mutation} : WF_recurringVars(In("recurring") /\ RunStep(w))
  /\ WF_recurringVars(In("recurring") /\ SaveUpdate(user))
  /\ WF_snapshotVars(In("snapshots") /\ StartBuild(j1))
  /\ WF_snapshotVars(In("snapshots") /\ CommitWrite)
  /\ \A b \in {j1, "shared"} : WF_snapshotVars(In("snapshots") /\ BuildStep(b))

ServicesSpec ==
  /\ ServicesInit
  /\ [][ServicesNext]_<<exercised, vars, recurringVars, snapshotVars, doorAndSession>>
  /\ Fairness

\* The types of the five.
ServicesTypesOK ==
  TypeOK /\ RecurringTypeOK /\ SnapshotTypeOK /\ SessionTypeOK /\ AccessTypeOK

\* No task and no shutdown waits for ever.
QueueEnds == EveryTaskSettles /\ ShutdownEnds
=============================================================================
