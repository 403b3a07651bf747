------------------------------ MODULE MailSync ------------------------------
(***************************************************************************)
(* Which mails are read, and when (mail/mail-sync.service.ts): the new ones  *)
(* from Gmail's history, by a push or by the job of the hour, the old ones   *)
(* of a sender by a search.  One mailbox with one sender; mails are numbered *)
(* as they arrive, and the number of the last one is Gmail's historyId.      *)
(***************************************************************************)
EXTENDS Naturals, Sequences

CONSTANTS
  Syncs,         \* executions of syncHistory
  Hunts,         \* executions of startBackfill
  HistoryKept,   \* days Gmail keeps its history (about 7)
  SearchBack,    \* days searched when there is no lastSyncedAt (7)
  FirstDay, LastDay,
  MaxMails,      \* bound: mails that arrive
  MaxMailboxes,  \* bound: connections made, one after another
  Unset          \* NULL

ASSUME SyncAssumption ==
  /\ FirstDay \in Nat /\ LastDay \in Nat /\ FirstDay <= LastDay
  /\ HistoryKept \in Nat /\ SearchBack \in Nat
  /\ MaxMails \in Nat /\ MaxMailboxes \in Nat
  /\ Unset \notin Nat

VARIABLES
  today,
  on,        \* the day each mail arrived
  mailbox,   \* the row of mail_connections
  sender,    \* the row of mail_senders
  sync,      \* the synchronisation each execution has in course
  hunt,      \* the reading of old mails each execution has in course
  read,      \* the mails with a row in mail_messages
  due,       \* history: mails the mailbox has to read
  searched   \* history: last mail there was when the reading told as done searched

syncVars == <<today, on, mailbox, sender, sync, hunt, read, due, searched>>

Days == FirstDay .. LastDay
Mails == 1 .. Len(on)
Since(day, mails) == {i \in mails : on[i] >= day}

Resting == [stage |-> "idle"]
NoMailbox == [id |-> 0, status |-> "none", historyId |-> Unset, syncedOn |-> Unset]
NewSender == [active |-> FALSE, backfill |-> "none", from |-> Unset, told |-> TRUE]

\* incomplete: DONE, with the number of mails that failed in its error.
\* told: the reading that wrote the status ran alone.
MailSender ==
  [active : BOOLEAN, backfill : {"none", "running", "done", "incomplete", "failed"},
   from : Days \cup {Unset}, told : BOOLEAN]
MailConnection ==
  [id : 0 .. MaxMailboxes, status : {"none", "active", "needs_reauth"},
   historyId : Nat \cup {Unset}, syncedOn : Days \cup {Unset}]

\* What an execution knows: the mailbox it loaded and the day; then whether the
\* sender was configured; then what it found, and the historyId of that moment.
SyncState ==
  [stage : {"idle"}] \cup
  [stage : {"begin", "adopt", "senders"}, loaded : MailConnection, day : Days] \cup
  [stage : {"list"}, loaded : MailConnection, day : Days, active : BOOLEAN] \cup
  [stage : {"search", "ingest", "mark"}, loaded : MailConnection, day : Days,
   active : BOOLEAN, mails : SUBSET Nat, historyId : Nat]
HuntState ==
  [stage : {"idle"}] \cup
  [stage : {"asked", "run"}, id : 0 .. MaxMailboxes, from : Days, alone : BOOLEAN]

SyncInit ==
  /\ today = FirstDay /\ on = <<>>
  /\ mailbox = NoMailbox /\ sender = NewSender
  /\ sync = [w \in Syncs |-> Resting] /\ hunt = [t \in Hunts |-> Resting]
  /\ read = {} /\ due = {} /\ searched = 0

-----------------------------------------------------------------------------
(* The mailbox and its sender *)

\* A synchronisation in course that will pass over the mail: it loaded a mailbox
\* with no historyId, or the senders without this one.
Overlooks(w) ==
  /\ sync[w].stage # "idle"
  /\ \/ sync[w].loaded.historyId = Unset
     \/ sync[w].stage \notin {"begin", "senders"} /\ ~sync[w].active

Arrive ==
  /\ Len(on) < MaxMails
  /\ on' = Append(on, today)
  /\ due' = IF mailbox.historyId # Unset /\ sender.active /\ \A w \in Syncs : ~Overlooks(w)
            THEN due \cup {Len(on) + 1} ELSE due
  /\ UNCHANGED <<today, mailbox, sender, sync, hunt, read, searched>>

\* No synchronisation takes longer than the day of overlap.
NextDay ==
  /\ today < LastDay
  /\ \A w \in Syncs : sync[w].stage # "idle" => sync[w].day = today
  /\ today' = today + 1
  /\ UNCHANGED <<on, mailbox, sender, sync, hunt, read, due, searched>>

\* connect: the token first (a mailbox that was connected keeps its row), then,
\* if it has none, the historyId of the moment.
Connect ==
  /\ mailbox.status = "needs_reauth" \/ (mailbox.status = "none" /\ mailbox.id < MaxMailboxes)
  /\ mailbox' = IF mailbox.status = "needs_reauth" THEN [mailbox EXCEPT !.status = "active"]
                ELSE [NoMailbox EXCEPT !.id = mailbox.id + 1, !.status = "active"]
  /\ UNCHANGED <<today, on, sender, sync, hunt, read, due, searched>>

AdoptHistory ==
  /\ mailbox.status # "none" /\ mailbox.historyId = Unset
  /\ mailbox' = [mailbox EXCEPT !.historyId = Len(on)]
  /\ UNCHANGED <<today, on, sender, sync, hunt, read, due, searched>>

\* The senders and the log of the mails go with the mailbox (ON DELETE CASCADE).
DisconnectMailbox ==
  /\ mailbox.status # "none"
  /\ mailbox' = [NoMailbox EXCEPT !.id = mailbox.id]
  /\ sender' = NewSender /\ read' = {} /\ due' = {} /\ searched' = 0
  /\ UNCHANGED <<today, on, sync, hunt>>

\* The sender is configured, or set aside: what it has not had read is given up.
SetSender(active) ==
  /\ mailbox.status # "none" /\ sender.active # active
  /\ sender' = [sender EXCEPT !.active = active]
  /\ due' = IF active THEN due ELSE due \cap read
  /\ UNCHANGED <<today, on, mailbox, sync, hunt, read, searched>>

-----------------------------------------------------------------------------
(* syncHistory *)

\* The webhook and the job load the mailboxes that are active; the job comes to
\* each in its turn.
Notice(w) ==
  /\ sync[w].stage = "idle" /\ mailbox.status = "active"
  /\ sync' = [sync EXCEPT ![w] = [stage |-> "begin", loaded |-> mailbox, day |-> today]]
  /\ UNCHANGED <<today, on, mailbox, sender, hunt, read, due, searched>>

\* The lock is of the process: another process may be at it too.
BeginHistory(w) ==
  /\ sync[w].stage = "begin"
  /\ \/ sync' = [sync EXCEPT ![w].stage = IF sync[w].loaded.historyId = Unset THEN "adopt" ELSE "senders"]
     \/ /\ \E v \in Syncs \ {w} : sync[v].stage \notin {"idle", "begin"}
        /\ sync' = [sync EXCEPT ![w] = Resting]
  /\ UNCHANGED <<today, on, mailbox, sender, hunt, read, due, searched>>

\* activeByAddress.
ReadSenders(w) ==
  /\ sync[w].stage = "senders"
  /\ sync' = [sync EXCEPT ![w] = [stage |-> "list", loaded |-> @.loaded, day |-> @.day,
                 active |-> sender.active /\ mailbox.id = @.loaded.id]]
  /\ UNCHANGED <<today, on, mailbox, sender, hunt, read, due, searched>>

Reading(w, stage, mails, historyId) ==
  [stage |-> stage, loaded |-> sync[w].loaded, day |-> sync[w].day, active |-> sync[w].active,
   mails |-> mails, historyId |-> historyId]

\* messagesAddedSince, or a 404: Gmail has forgotten where the mailbox was.
Expired(h) == \E i \in Mails : i > h /\ on[i] + HistoryKept < today

ListHistory(w) ==
  LET h == sync[w].loaded.historyId
  IN /\ sync[w].stage = "list"
     /\ sync' = [sync EXCEPT ![w] =
          IF Expired(h) THEN Reading(w, IF @.active THEN "search" ELSE "mark", {}, Len(on))
          ELSE Reading(w, IF @.active THEN "ingest" ELSE "mark", {i \in Mails : i > h}, Len(on))]
  /\ UNCHANGED <<today, on, mailbox, sender, hunt, read, due, searched>>

\* recoverExpiredHistory: a day before the last synchronisation.
RecoverSince(syncedOn) == IF syncedOn = Unset THEN today - SearchBack - 1 ELSE syncedOn - 1

\* A mailbox that was never synchronised gives up what is older.
SearchExpired(w) ==
  LET found == Since(RecoverSince(sync[w].loaded.syncedOn), Mails)
  IN /\ sync[w].stage = "search"
     /\ sync' = [sync EXCEPT ![w] = Reading(w, "ingest", found, @.historyId)]
     /\ due' = IF sync[w].loaded.syncedOn = Unset THEN due \cap (read \cup found) ELSE due
     /\ UNCHANGED <<today, on, mailbox, sender, hunt, read, searched>>

\* recordFailure writes back the status that was loaded; invalid_grant, its own.
RecordFailure(w) ==
  /\ sync' = [sync EXCEPT ![w] = Resting]
  /\ mailbox' \in IF mailbox.status # "none" /\ mailbox.id = sync[w].loaded.id
                  THEN {[mailbox EXCEPT !.status = s] : s \in {sync[w].loaded.status, "needs_reauth"}}
                  ELSE {mailbox}

\* ingestAll goes on past the mail that cannot be read; strict, it throws then.
IngestAll(w) ==
  /\ sync[w].stage = "ingest"
  /\ \E failed \in SUBSET (sync[w].mails \ read) :
       /\ read' = IF mailbox.id = sync[w].loaded.id /\ mailbox.status # "none"
                  THEN read \cup (sync[w].mails \ failed) ELSE read
       /\ IF failed = {} /\ sync[w].mails \subseteq read'
          THEN sync' = [sync EXCEPT ![w] = Reading(w, "mark", {}, @.historyId)] /\ UNCHANGED mailbox
          ELSE RecordFailure(w)
  /\ UNCHANGED <<today, on, sender, hunt, due, searched>>

MarkSynced(w) ==
  /\ sync[w].stage \in {"mark", "adopt"}
  /\ mailbox' = IF mailbox.status # "none" /\ mailbox.id = sync[w].loaded.id
                THEN [mailbox EXCEPT !.syncedOn = today,
                        !.historyId = IF sync[w].stage = "mark" THEN sync[w].historyId ELSE Len(on)]
                ELSE mailbox
  /\ sync' = [sync EXCEPT ![w] = Resting]
  /\ UNCHANGED <<today, on, sender, hunt, read, due, searched>>

FailHistory(w) ==
  /\ sync[w].stage \notin {"idle", "begin"}
  /\ RecordFailure(w)
  /\ UNCHANGED <<today, on, sender, hunt, read, due, searched>>

-----------------------------------------------------------------------------
(* startBackfill and runBackfill *)

InCourse == {t \in Hunts : hunt[t].stage # "idle"}

\* The check; what is written before the reading is noted as in course.
AskBackfill(t, from) ==
  /\ hunt[t].stage = "idle" /\ sender.active
  /\ \A u \in Hunts : hunt[u].stage \in {"idle", "asked"}
  /\ hunt' = [u \in Hunts |->
       IF u = t THEN [stage |-> "asked", id |-> mailbox.id, from |-> from, alone |-> InCourse = {}]
       ELSE IF u \in InCourse THEN [hunt[u] EXCEPT !.alone = FALSE] ELSE hunt[u]]
  /\ UNCHANGED <<today, on, mailbox, sender, sync, read, due, searched>>

\* setBackfill touches nothing when the sender is gone.
SetBackfill(t, status) ==
  sender' = IF mailbox.status # "none" /\ mailbox.id = hunt[t].id
            THEN [sender EXCEPT !.backfill = status, !.told = hunt[t].alone,
                    !.from = IF status = "running" THEN hunt[t].from ELSE @]
            ELSE sender

StartBackfill(t) ==
  /\ hunt[t].stage = "asked"
  /\ SetBackfill(t, "running")
  /\ hunt' = [hunt EXCEPT ![t].stage = "run"]
  /\ UNCHANGED <<today, on, mailbox, sync, read, due, searched>>

\* Mutant of Outcome: the mails that could not be read are not told.
Outcome_AlwaysDone(failed) == "done"
Outcome(failed) == IF failed = {} THEN "done" ELSE "incomplete"

\* The search and the reading, not strict.
RunBackfill(t) ==
  LET found == Since(hunt[t].from, Mails)
      here == mailbox.status # "none" /\ mailbox.id = hunt[t].id
  IN /\ hunt[t].stage = "run"
     /\ \E failed \in SUBSET (found \ read) :
          /\ read' = IF here THEN read \cup (found \ failed) ELSE read
          /\ SetBackfill(t, Outcome(failed))
          /\ searched' = IF here THEN Len(on) ELSE searched
     /\ hunt' = [hunt EXCEPT ![t] = Resting]
     /\ UNCHANGED <<today, on, mailbox, sync, due>>

FailBackfill(t) ==
  /\ hunt[t].stage = "run"
  /\ SetBackfill(t, "failed")
  /\ hunt' = [hunt EXCEPT ![t] = Resting]
  /\ UNCHANGED <<today, on, mailbox, sync, read, due, searched>>

\* The process dies: a sender may stay "running" for ever.
CrashSync ==
  /\ InCourse # {} \/ \E w \in Syncs : sync[w].stage # "idle"
  /\ sync' = [w \in Syncs |-> Resting] /\ hunt' = [t \in Hunts |-> Resting]
  /\ UNCHANGED <<today, on, mailbox, sender, read, due, searched>>

SyncHistory(w) ==
  \/ Notice(w) \/ BeginHistory(w) \/ ReadSenders(w) \/ ListHistory(w) \/ SearchExpired(w)
  \/ IngestAll(w) \/ MarkSynced(w) \/ FailHistory(w)

Backfill(t) ==
  \/ \E from \in {FirstDay, today} : AskBackfill(t, from)
  \/ StartBackfill(t) \/ RunBackfill(t) \/ FailBackfill(t)

SyncNext ==
  \/ Arrive \/ NextDay \/ Connect \/ AdoptHistory \/ DisconnectMailbox
  \/ \E active \in BOOLEAN : SetSender(active)
  \/ \E w \in Syncs : SyncHistory(w)
  \/ \E t \in Hunts : Backfill(t)
  \/ CrashSync

SyncSpec == SyncInit /\ [][SyncNext]_syncVars

-----------------------------------------------------------------------------
SyncTypeOK ==
  /\ today \in Days /\ on \in Seq(Days)
  /\ mailbox \in MailConnection /\ sender \in MailSender
  /\ sync \in [Syncs -> SyncState] /\ hunt \in [Hunts -> HuntState]
  /\ read \subseteq Mails /\ due \subseteq Mails /\ searched \in 0 .. Len(on)

\* "NUEVOS: por el historial de Gmail, desde el último historyId procesado"
\* (mail-sync.service.ts): the historyId of a mailbox never passes a mail of its
\* sender that was not read, whatever fails, crashes, overlaps, or stays down until
\* Gmail forgets the history.  And a reading of old mails that says it is done, run
\* alone, has read them all.
MailboxRead ==
  /\ \A i \in due : mailbox.historyId # Unset /\ i <= mailbox.historyId => i \in read
  /\ sender.backfill = "done" /\ sender.told => Since(sender.from, 1 .. searched) \subseteq read
=============================================================================
