------------------------------ MODULE MarketData ------------------------------
(***************************************************************************)
(* Prices of instruments: PricesService and MarketDataCron over the limiter *)
(* of RateLimiter, whose steps are the calls the jobs here make.            *)
(*                                                                          *)
(* A request for history (requestBackfill) writes the date it needs in the  *)
(* instrument's own row; it tries at once if the day's budget allows, and   *)
(* otherwise the nightly job, or a user's refresh, finds the row marked.    *)
(* Every job works on entities it loaded some time ago and saves them       *)
(* whole.  A date is the number of a trading day.                           *)
(***************************************************************************)
EXTENDS RateLimiter, FiniteSetsExt, Functions, Rows

CONSTANTS
  Instruments,  \* those held by somebody (needs_daily_price): one batch
  Crons,        \* tasks: MarketDataCron.refreshPrices, one per process
  Manuals,      \* tasks: refreshPrices(userId)
  Requests,     \* tasks: requestBackfill
  AskDates,     \* the dates history is asked from
  FirstDay,     \* today, when the behaviour begins
  WINDOW,       \* how many days back refreshLatest asks for
  OPPORTUNISTIC_BACKFILL_THRESHOLD,
  StoredBars,   \* the histories an instrument may begin with
  MaxJobs,      \* bound: jobs started in a behaviour
  None          \* SQL NULL

ASSUME MarketAssumption ==
  /\ Tasks = Crons \cup Manuals \cup Requests
  /\ Crons \cap Manuals = {} /\ Requests \cap (Crons \cup Manuals) = {}
  /\ IsFiniteSet(Instruments) /\ Cardinality(Instruments) \in 1 .. MaxCharge
  /\ AskDates \subseteq 0 .. FirstDay
  /\ FirstDay \in Nat /\ WINDOW \in 0 .. FirstDay
  /\ OPPORTUNISTIC_BACKFILL_THRESHOLD \in Nat
  /\ StoredBars \subseteq SUBSET (0 .. FirstDay)
  /\ MaxJobs \in Nat
  /\ None \notin Nat

VARIABLES
  instrument,  \* instruments: the date asked for, the day of the last price
  bars,        \* instrument_prices: the days with a stored close
  job,         \* what each task is doing, and the rows it loaded
  lock,        \* the process whose connection holds the advisory lock, or None
  jobs,        \* jobs started so far
  asked,       \* history: the dates requested, per instrument
  disturbed    \* history: instruments two jobs held at once, or whose request
               \* the provider answered with nothing, or that a crash or an
               \* error caught between the bars and the row

vars == <<limiterVars, instrument, bars, job, lock, jobs, asked, disturbed>>
marketVars == <<instrument, bars, job, lock, jobs, asked, disturbed>>

Today == FirstDay + Day(minute)
Remaining == IF usage.day < CreditsPerDay THEN CreditsPerDay - usage.day ELSE 0

(* wanted: backfill_requested_from;  last: last_price_on *)
InstrumentRow == [wanted : Nat \cup {None}, last : Nat \cup {None}]

(* ask: about to save the date;  budget: about to look at what is left;      *)
(* range: about to see what is missing;  calling: in the limiter;  insert,   *)
(* price: bars on their way to the table and to the row;  clear: about to    *)
(* take the request off the row;  next: about to take the next instrument    *)
Steps == {"off", "ask", "budget", "range", "calling", "insert", "price", "clear", "next"}

(* stage: a request, or the part of a refresh at work *)
JobStages == {"request", "latest", "pending"}

NoJob == [at |-> "off", stage |-> "request", todo |-> <<>>, current |-> None, gap |-> {}]

Idle(t) == job[t].at = "off" /\ call[t].at = "idle"
At(t, step) == job[t].at = step
Copy(t) == job[t].todo[job[t].current]
Held(i) == \E t \in Tasks : ~At(t, "off") /\ i \in DOMAIN job[t].todo
Disturb(S) == disturbed' = disturbed \cup S
Goto(t, step) == job' = [job EXCEPT ![t].at = step]

(* save() of an entity loaded before: all the columns it was loaded with    *)
Save(i, copy) == instrument' = [instrument EXCEPT ![i] = Over(copy, @)]

(* the job is over, and its instrument leaves the list *)
Done(t) == job' = [job EXCEPT ![t] = NoJob]
Drop(j) == [j EXCEPT !.todo = Restrict(@, DOMAIN @ \ {j.current}), !.current = None, !.at = "next"]

(* pg_advisory_unlock goes through the pool: it frees the lock only if it    *)
(* gets the connection that took it                                         *)
Unlock(t) == lock' \in IF t \in Crons THEN {None, lock} ELSE {lock}

-----------------------------------------------------------------------------

Init ==
  /\ LimiterInit
  /\ bars \in [Instruments -> StoredBars]
  /\ instrument = [i \in Instruments |->
       [wanted |-> None, last |-> IF bars[i] = {} THEN None ELSE Max(bars[i])]]
  /\ job = [t \in Tasks |-> NoJob]
  /\ lock = None
  /\ jobs = 0
  /\ asked = [i \in Instruments |-> {}]
  /\ disturbed = {}

(* requestBackfill finds a request that already reaches as far back *)
AlreadyAsked(i, from) == instrument[i].wanted # None /\ instrument[i].wanted <= from

Request(t, i, from) ==
  /\ Idle(t) /\ jobs < MaxJobs /\ jobs' = jobs + 1
  /\ IF AlreadyAsked(i, from)
     THEN /\ asked' = [asked EXCEPT ![i] = @ \cup {from}]
          /\ UNCHANGED <<job, disturbed>>
     ELSE /\ job' = [job EXCEPT ![t] =
               [NoJob EXCEPT !.at = "ask", !.current = i,
                             !.todo = [x \in {i} |-> [instrument[x] EXCEPT !.wanted = from]]]]
          /\ Disturb({i} \cap {h \in Instruments : Held(h)})
          /\ UNCHANGED asked
  /\ UNCHANGED <<limiterVars, instrument, bars, lock>>

Ask(t) ==
  /\ At(t, "ask")
  /\ Save(job[t].current, Copy(t))
  /\ asked' = [asked EXCEPT ![job[t].current] = @ \cup {Copy(t).wanted}]
  /\ Goto(t, "budget")
  /\ UNCHANGED <<limiterVars, bars, lock, jobs, disturbed>>

Opportune(t) ==
  /\ At(t, "budget")
  /\ IF Remaining > OPPORTUNISTIC_BACKFILL_THRESHOLD THEN Goto(t, "range") ELSE Done(t)
  /\ UNCHANGED <<limiterVars, instrument, bars, lock, jobs, asked, disturbed>>

-----------------------------------------------------------------------------
(* ensureHistory and storeBars *)

(* missingRange compares the first and the last day stored in the range *)
MissingRange(i, from, to) ==
  IF {from, to} \subseteq bars[i] THEN {} ELSE from .. to

EnsureHistory(t) ==
  LET gap == MissingRange(job[t].current, Copy(t).wanted, Today) IN
  /\ At(t, "range")
  /\ IF gap = {}
     THEN Goto(t, "clear") /\ UNCHANGED limiterVars
     ELSE /\ job' = [job EXCEPT ![t].at = "calling", ![t].gap = gap]
          /\ Schedule(t, 1)
  /\ UNCHANGED <<instrument, bars, lock, jobs, asked, disturbed>>

(* the provider answers with the days asked for, or with none of them *)
HistoryAnswer(t) ==
  /\ At(t, "calling") /\ job[t].stage # "latest"
  /\ Send(t)
  /\ \/ Goto(t, "insert") /\ UNCHANGED disturbed
     \/ job' = [job EXCEPT ![t].at = "clear", ![t].gap = {}] /\ Disturb({job[t].current})
  /\ UNCHANGED <<instrument, bars, lock, jobs, asked>>

(* refreshLatest: of the batch, some symbols have an answer *)
LatestAnswer(t) ==
  /\ At(t, "calling") /\ job[t].stage = "latest"
  /\ Send(t)
  /\ \E answered \in SUBSET Instruments :
       job' = [job EXCEPT ![t].at = "next", ![t].todo = Restrict(@, answered)]
  /\ UNCHANGED <<instrument, bars, lock, jobs, asked, disturbed>>

(* mutant: a failed call takes the request off the row *)
CallFails_Forgets(t) ==
  /\ At(t, "calling") /\ (Send(t) \/ Refuse(t))
  /\ IF job[t].stage = "latest" THEN UNCHANGED instrument
     ELSE Save(job[t].current, [Copy(t) EXCEPT !.wanted = None])
  /\ Done(t) /\ Unlock(t)
  /\ UNCHANGED <<bars, jobs, asked, disturbed>>

(* the call failed: requestBackfill and refreshPrices catch it and stop *)
CallFails(t) ==
  /\ At(t, "calling") /\ (Send(t) \/ Refuse(t))
  /\ Done(t) /\ Unlock(t)
  /\ UNCHANGED <<instrument, bars, jobs, asked, disturbed>>

(* mutant: the provider's order taken for descending *)
LatestOf_First(days) == Min(days)

(* the last bar of an answer, which comes in ascending order *)
LatestOf(days) == Max(days)

Fresher(copy, day) == copy.last = None \/ day >= copy.last

(* where a job goes once the bars of its instrument are stored *)
Stored(j) == IF j.stage = "latest" THEN Drop(j) ELSE [j EXCEPT !.at = "clear", !.gap = {}]

InsertBars(t) ==
  LET latest == LatestOf(job[t].gap) IN
  /\ At(t, "insert")
  /\ bars' = [bars EXCEPT ![job[t].current] = @ \cup job[t].gap]
  /\ job' = [job EXCEPT ![t] =
       IF Fresher(Copy(t), latest)
       THEN [@ EXCEPT !.at = "price", !.todo[job[t].current].last = latest]
       ELSE Stored(@)]
  /\ UNCHANGED <<limiterVars, instrument, lock, jobs, asked, disturbed>>

SavePrice(t) ==
  /\ At(t, "price")
  /\ Save(job[t].current, Copy(t))
  /\ job' = [job EXCEPT ![t] = Stored(@)]
  /\ UNCHANGED <<limiterVars, bars, lock, jobs, asked, disturbed>>

(* the request is taken as served, whether or not bars came *)
ClearRequest(t) ==
  /\ At(t, "clear")
  /\ Save(job[t].current, [Copy(t) EXCEPT !.wanted = None])
  /\ IF job[t].stage = "request" THEN Done(t) ELSE job' = [job EXCEPT ![t] = Drop(@)]
  /\ UNCHANGED <<limiterVars, bars, lock, jobs, asked, disturbed>>

-----------------------------------------------------------------------------
(* refreshPrices *)

(* the rows dailyTargets loads: entities, or raw rows whose columns the code *)
(* does not find under the names of the entity                              *)
DailyTargets(t) ==
  [i \in Instruments |-> IF t \in Crons THEN instrument[i] ELSE [last |-> None]]

RefreshPrices(t) ==
  /\ t \in Crons \cup Manuals /\ Idle(t)
  /\ jobs < MaxJobs /\ jobs' = jobs + 1
  /\ IF t \in Crons THEN lock \in {None, Home[t]} /\ lock' = Home[t] ELSE UNCHANGED lock
  /\ job' = [job EXCEPT ![t] = [NoJob EXCEPT !.at = "calling", !.stage = "latest",
                                             !.todo = DailyTargets(t),
                                             !.gap = (Today - WINDOW) .. Today]]
  /\ Schedule(t, Cardinality(Instruments))
  /\ Disturb({i \in Instruments : Held(i)})
  /\ UNCHANGED <<instrument, bars, asked>>

TakeLatest(t) ==
  /\ At(t, "next") /\ job[t].stage = "latest"
  /\ \E i \in DOMAIN job[t].todo :
       job' = [job EXCEPT ![t].at = "insert", ![t].current = i]
  /\ UNCHANGED <<limiterVars, instrument, bars, lock, jobs, asked, disturbed>>

LoadPending(t) ==
  LET ids == {i \in Instruments : instrument[i].wanted # None} IN
  /\ At(t, "next") /\ job[t].stage = "latest" /\ DOMAIN job[t].todo = {}
  /\ job' = [job EXCEPT ![t].stage = "pending", ![t].gap = {},
                             ![t].todo = Restrict(instrument, ids)]
  /\ Disturb({i \in ids : Held(i)})
  /\ UNCHANGED <<limiterVars, instrument, bars, lock, jobs, asked>>

TakePending(t) ==
  /\ At(t, "next") /\ job[t].stage = "pending" /\ Remaining > 0
  /\ \E i \in DOMAIN job[t].todo :
       job' = [job EXCEPT ![t].at = "range", ![t].current = i]
  /\ UNCHANGED <<limiterVars, instrument, bars, lock, jobs, asked, disturbed>>

EndRefresh(t) ==
  /\ At(t, "next") /\ job[t].stage = "pending"
  /\ DOMAIN job[t].todo = {} \/ Remaining = 0
  /\ Done(t) /\ Unlock(t)
  /\ UNCHANGED <<limiterVars, instrument, bars, jobs, asked, disturbed>>

-----------------------------------------------------------------------------

Crash(p) ==
  /\ Restart(p)
  /\ job' = [t \in Tasks |-> IF Home[t] = p THEN NoJob ELSE job[t]]
  /\ lock' = IF lock = p THEN None ELSE lock
  /\ Disturb({job[t].current : t \in {u \in Tasks : Home[u] = p /\ At(u, "price")}})
  /\ UNCHANGED <<instrument, bars, jobs, asked>>

(* the limiter and the clock move on their own *)
Limit ==
  /\ Tick \/ \E t \in Tasks : Charge(t)
  /\ UNCHANGED marketVars

Step(t) ==
  \/ Ask(t) \/ Opportune(t) \/ EnsureHistory(t) \/ HistoryAnswer(t)
  \/ LatestAnswer(t) \/ CallFails(t) \/ InsertBars(t) \/ SavePrice(t)
  \/ ClearRequest(t) \/ TakeLatest(t) \/ LoadPending(t) \/ TakePending(t)
  \/ EndRefresh(t)

Next ==
  \/ \E t \in Requests, i \in Instruments, from \in AskDates : Request(t, i, from)
  \/ \E t \in Tasks : RefreshPrices(t)
  \/ \E t \in Tasks : Step(t)
  \/ \E p \in Processes : Crash(p)
  \/ Limit

Spec == Init /\ [][Next]_vars

-----------------------------------------------------------------------------
(* Properties *)

(* The limiter's variables and the jobs keep their shape; a task in the      *)
(* limiter is a job that awaits it.                                          *)
TypeOK ==
  /\ LimiterTypeOK
  /\ instrument \in [Instruments -> InstrumentRow]
  /\ bars \in [Instruments -> SUBSET Nat]
  /\ \A t \in Tasks : job[t].at \in Steps /\ job[t].stage \in JobStages
  /\ \A t \in Tasks : At(t, "calling") <=> call[t].at # "idle"
  /\ lock \in Processes \cup {None}
  /\ asked \in [Instruments -> SUBSET AskDates]
  /\ disturbed \subseteq Instruments /\ jobs \in 0 .. MaxJobs

(* what no two jobs, no empty answer and no crash have disturbed *)
Quiet(i) == i \notin disturbed /\ ~Held(i)

(* "la escritura para y retoma sola al dia siguiente, porque la lista de     *)
(* trabajo sale del estado" (API.md 1040): an exhausted budget, a failed     *)
(* call or a restart never loses a request.  The row still asks for history  *)
(* from that day or from before, or such a day has its close stored.         *)
RequestServed ==
  \A i \in Instruments : Quiet(i) =>
    \A from \in asked[i] :
      \E day \in 0 .. from :
        day = instrument[i].wanted \/ day \in asked[i] \cap bars[i]

(* The price the positions are valued at is the latest stored close, also    *)
(* when the bars that came last are the oldest ones.                         *)
PriceCurrent ==
  \A i \in Instruments : Quiet(i) /\ bars[i] # {} => instrument[i].last = Max(bars[i])

(* "Asegura que el rango pedido esta en cache" (prices.service.ts:76): once a *)
(* request is served, every day from the one asked for is stored.            *)
RangeCached ==
  \A i \in Instruments : Quiet(i) =>
    \A from \in asked[i] :
      \/ from .. FirstDay \subseteq bars[i]
      \/ instrument[i].wanted # None /\ instrument[i].wanted <= from

=============================================================================
