-------------------------------- MODULE MCMail --------------------------------
(***************************************************************************)
(* The subsystem of the mail: from the mailbox to the mails that are read,  *)
(* and from a mail to its expense.  A behaviour exercises the ingestion     *)
(* with crashes ("once": two mails with the same invoice and one with none, *)
(* two executions), the ingestion with everything that goes wrong while the *)
(* process lives ("settles": the two mails, on tables of its own), which    *)
(* mails are read ("overlap", "history", "backfill"), or what a model       *)
(* suggests for a purchase once it is registered ("suggests").              *)
(***************************************************************************)
EXTENDS MCMailIngestion, MailSync, Categorization

CONSTANTS e1, e2, s1, s2, h1, h2, k1, k2

VARIABLES
  exercised,
  log, tie, invoice, books, hand

TwoMails == {m1, m2}
OneInvoice == [m \in TwoMails |-> c1]
LiveFaults ==
  {"errorAfterCommit", "errorBeforeLink", "overlappingRetry", "disconnect", "disconnectInFlight"}

Settling == INSTANCE MailIngestion WITH
  Messages <- TwoMails, Carries <- OneInvoice, Faults <- LiveFaults,
  status <- log, link <- tie, reserved <- invoice, expenseOf <- books, worker <- hand

\* k2 is a subcategory of k1.
MCParentOf == [k \in Categories |-> IF k = k2 THEN k1 ELSE Null]

ASSUME SettlingAssumption == Settling!MailIngestionAssumption

\* The executions a behaviour names are among those there are.
ASSUME ExecutionsAssumption == {s1, s2} \subseteq Syncs /\ {h1, h2} \subseteq Hunts

settleVars == <<log, tie, invoice, books, hand>>

MailInit ==
  /\ exercised \in {"once", "settles", "overlap", "history", "backfill", "suggests"}
  /\ Init
  /\ Settling!Init
  /\ SyncInit
  /\ CategorizationInit

\* The database hands out the ids of the expenses in order.
InOrder(expenses) == expenses[e2] # Unused => expenses[e1] # Unused

Passing == Arrive \/ NextDay
Connecting == Connect \/ AdoptHistory \/ DisconnectMailbox \/ CrashSync

\* Two synchronisations of one mailbox overlap within a day; one at a
\* time meets a history that expired, and a mailbox connected again.  Beside the
\* readings of old mails the sender is also set aside.
MailNext ==
  /\ UNCHANGED exercised
  /\ \/ exercised = "once" /\ Next /\ InOrder(expenseOf')
        /\ UNCHANGED <<settleVars, syncVars, categorizationVars>>
     \/ exercised = "settles" /\ Settling!Next /\ InOrder(books')
        /\ UNCHANGED <<vars, syncVars, categorizationVars>>
     \/ /\ exercised = "overlap"
        /\ \/ Arrive \/ Connect \/ AdoptHistory \/ SetSender(TRUE)
           \/ \E w \in {s1, s2} : SyncHistory(w)
        /\ UNCHANGED <<vars, settleVars, categorizationVars>>
     \/ /\ exercised = "history"
        /\ Passing \/ Connecting \/ SetSender(TRUE) \/ SyncHistory(s1)
        /\ UNCHANGED <<vars, settleVars, categorizationVars>>
     \/ /\ exercised = "backfill"
        /\ Passing \/ Connecting \/ \E active \in BOOLEAN : SetSender(active)
             \/ \E t \in {h1, h2} : Backfill(t)
        /\ today' < 7
        /\ UNCHANGED <<vars, settleVars, categorizationVars>>
     \/ exercised = "suggests" /\ CategorizationNext
        /\ UNCHANGED <<vars, settleVars, syncVars>>

\* Every awaited call settles, so a worker that has begun goes on.
MailSpec ==
  /\ MailInit /\ [][MailNext]_<<exercised, vars, settleVars, syncVars, categorizationVars>>
  /\ \A w \in Workers : WF_settleVars(Settling!Step(w))

\* The tables of the two instances hold what their columns allow, and no reference
\* of the second one, which meets every fault, is crossed or left dangling.
MailTypesOK ==
  TypeOK /\ Settling!TypeOK /\ Settling!LinksSound /\ SyncTypeOK /\ CategorizationTypeOK

\* The property of MailIngestion, stated there.
EveryMailSettles == Settling!MailSettles
=============================================================================
