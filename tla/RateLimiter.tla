----------------------------- MODULE RateLimiter -----------------------------
(***************************************************************************)
(* The limiter of calls to the market data provider.  Inside one process a  *)
(* chain of promises serves one call at a time; between processes, and      *)
(* across restarts, the credits spent live in the table market_data_usage,  *)
(* one row per minute, which the code reads only through two sums: that of  *)
(* the current minute and that of the current day.                          *)
(*                                                                          *)
(* Every statement on the table is a step of its own, and so is each wait,  *)
(* so the other process, the clock or a crash may come between any two.     *)
(***************************************************************************)
EXTENDS Integers, Sequences, FiniteSets

CONSTANTS
  Processes,         \* instances of the backend
  Tasks,             \* who may ask for a call
  Home,              \* the process each task runs in
  MaxCharge,         \* the most credits one call costs
  CreditsPerMinute,
  CreditsPerDay,
  MinutesPerDay,     \* how many minutes the modelled day has
  MaxMinute,         \* bound: the clock stops there
  MaxCrashes         \* bound: restarts in a behaviour

ASSUME LimiterAssumption ==
  /\ IsFiniteSet(Processes) /\ Home \in [Tasks -> Processes]
  /\ MaxCharge \in Nat \ {0}
  /\ CreditsPerMinute \in Nat /\ MaxCharge <= CreditsPerMinute
  /\ CreditsPerDay \in Nat
  /\ MinutesPerDay \in Nat \ {0}
  /\ MaxMinute \in Nat /\ MaxCrashes \in Nat

VARIABLES
  minute,   \* the clock of the database
  usage,    \* credits charged in the current minute and in the current day
  chain,    \* per process: the calls scheduled, the first one in service
  call,     \* what each task's call is at
  granted,  \* history: the credits of today that calls let through today hold,
            \* each one a position in the count of the day
  crashes

limiterVars == <<minute, usage, chain, call, granted, crashes>>

Day(m) == m \div MinutesPerDay

(* queued: in the chain, not looked at yet;  asleep: waits for the next      *)
(* minute;  due: about to charge;  charged: the row is written, the sum of   *)
(* the day not read yet;  ready: the call may go out;  refused: the budget   *)
(* error is on its way to the caller                                        *)
Stages == {"idle", "queued", "asleep", "due", "charged", "ready", "refused"}

(* since: the minute at which the call fell asleep, or was charged;  last:   *)
(* the position its last credit took in the count of the day; both while     *)
(* they are needed                                                          *)
Call == [at : Stages, credits : 0 .. MaxCharge, since : Nat, last : Nat]

CallAt(at, credits, since, last) ==
  [at |-> at, credits |-> credits, since |-> since, last |-> last]
NoCall == CallAt("idle", 0, 0, 0)

(* the call of t goes on to another stage *)
Move(t, at, since, last) ==
  call' = [call EXCEPT ![t] = CallAt(at, @.credits, since, last)]

InService(t) == chain[Home[t]] # <<>> /\ Head(chain[Home[t]]) = t

(* the next promise of the chain starts when this one settles, either way   *)
Settle(t) == chain' = [chain EXCEPT ![Home[t]] = Tail(@)]

-----------------------------------------------------------------------------

LimiterInit ==
  /\ minute = 0
  /\ usage = [minute |-> 0, day |-> 0]
  /\ chain = [p \in Processes |-> <<>>]
  /\ call = [t \in Tasks |-> NoCall]
  /\ granted = {}
  /\ crashes = 0

(* schedule *)
Schedule(t, credits) ==
  /\ call[t].at = "idle"
  /\ chain' = [chain EXCEPT ![Home[t]] = Append(@, t)]
  /\ call' = [call EXCEPT ![t] = CallAt("queued", credits, 0, 0)]
  /\ UNCHANGED <<minute, usage, granted, crashes>>

(* mutant: the minute is not looked at *)
Peek_DayOnly(t) ==
  /\ call[t].at = "queued" /\ InService(t)
  /\ IF usage.day + call[t].credits > CreditsPerDay
     THEN /\ Move(t, "refused", 0, 0)
          /\ Settle(t)
     ELSE /\ Move(t, "due", 0, 0)
          /\ UNCHANGED chain
  /\ UNCHANGED <<minute, usage, granted, crashes>>

(* charge, up to its first wait *)
Peek(t) ==
  /\ call[t].at = "queued" /\ InService(t)
  /\ IF usage.day + call[t].credits > CreditsPerDay
     THEN /\ Move(t, "refused", 0, 0)
          /\ Settle(t)
     ELSE /\ IF usage.minute + call[t].credits > CreditsPerMinute
             THEN Move(t, "asleep", minute, 0)
             ELSE Move(t, "due", 0, 0)
          /\ UNCHANGED chain
  /\ UNCHANGED <<minute, usage, granted, crashes>>

(* the sleep ends in a later minute, which is not looked at again *)
Wake(t) ==
  /\ call[t].at = "asleep" /\ call[t].since < minute
  /\ Move(t, "due", 0, 0)
  /\ UNCHANGED <<minute, usage, chain, granted, crashes>>

(* addCredits: INSERT .. ON CONFLICT DO UPDATE *)
Add(t) ==
  LET total == usage.day + call[t].credits IN
  /\ call[t].at = "due"
  /\ usage' = [minute |-> usage.minute + call[t].credits, day |-> total]
  /\ Move(t, "charged", minute, total)
  /\ UNCHANGED <<minute, chain, granted, crashes>>

(* the positions the credits of t took *)
Positions(t) == (call[t].last - call[t].credits + 1) .. call[t].last

(* mutant: what was peeked before charging is trusted *)
Check_Trusting(t) ==
  /\ call[t].at = "charged"
  /\ Move(t, "ready", 0, 0)
  /\ granted' = IF Day(call[t].since) = Day(minute)
                THEN granted \cup Positions(t) ELSE granted
  /\ UNCHANGED <<minute, usage, chain, crashes>>

(* mutant: a call refused after the charge does not settle its promise *)
Check_Jams(t) ==
  /\ call[t].at = "charged"
  /\ IF usage.day > CreditsPerDay
     THEN /\ Move(t, "refused", 0, 0)
          /\ UNCHANGED <<chain, granted>>
     ELSE /\ Move(t, "ready", 0, 0)
          /\ granted' = IF Day(call[t].since) = Day(minute)
                        THEN granted \cup Positions(t) ELSE granted
          /\ UNCHANGED chain
  /\ UNCHANGED <<minute, usage, crashes>>

(* addCredits: the SELECT of the day's sum, then the second check, and the   *)
(* wait that spaces the calls                                               *)
Check(t) ==
  /\ call[t].at = "charged"
  /\ IF usage.day > CreditsPerDay
     THEN /\ Move(t, "refused", 0, 0)
          /\ Settle(t)
          /\ UNCHANGED granted
     ELSE /\ Move(t, "ready", 0, 0)
          /\ granted' = IF Day(call[t].since) = Day(minute)
                        THEN granted \cup Positions(t) ELSE granted
          /\ UNCHANGED chain
  /\ UNCHANGED <<minute, usage, crashes>>

(* the call goes out, and settles with an answer or with an error *)
Send(t) ==
  /\ call[t].at = "ready"
  /\ call' = [call EXCEPT ![t] = NoCall]
  /\ Settle(t)
  /\ UNCHANGED <<minute, usage, granted, crashes>>

(* MarketDataBudgetExhaustedError reaches the caller *)
Refuse(t) ==
  /\ call[t].at = "refused"
  /\ call' = [call EXCEPT ![t] = NoCall]
  /\ UNCHANGED <<minute, usage, chain, granted, crashes>>

(* a process dies and starts again: its chain was in memory *)
Restart(p) ==
  /\ crashes < MaxCrashes
  /\ chain' = [chain EXCEPT ![p] = <<>>]
  /\ call' = [t \in Tasks |-> IF Home[t] = p THEN NoCall ELSE call[t]]
  /\ crashes' = crashes + 1
  /\ UNCHANGED <<minute, usage, granted>>

(* the clock: a new minute has no row yet, a new day no rows *)
Tick ==
  /\ minute < MaxMinute
  /\ minute' = minute + 1
  /\ IF Day(minute + 1) = Day(minute)
     THEN usage' = [usage EXCEPT !.minute = 0] /\ UNCHANGED granted
     ELSE usage' = [minute |-> 0, day |-> 0] /\ granted' = {}
  /\ UNCHANGED <<chain, call, crashes>>

Charge(t) == Peek(t) \/ Wake(t) \/ Add(t) \/ Check(t)

LimiterNext ==
  \/ \E t \in Tasks : \E credits \in 1 .. MaxCharge : Schedule(t, credits)
  \/ \E t \in Tasks : Charge(t) \/ Send(t) \/ Refuse(t)
  \/ \E p \in Processes : Restart(p)
  \/ Tick

LimiterSpec == LimiterInit /\ [][LimiterNext]_limiterVars

-----------------------------------------------------------------------------
(* Properties *)

(* Every variable keeps its shape, and a call that is being served is the    *)
(* first of its chain.                                                      *)
LimiterTypeOK ==
  /\ minute \in Nat /\ crashes \in Nat
  /\ usage \in [minute : Nat, day : Nat]
  /\ chain \in [Processes -> Seq(Tasks)]
  /\ call \in [Tasks -> Call]
  /\ granted \subseteq Nat \ {0}

(* "ni un reinicio ni un job caido a medias pueden reventar la cuota" (API.md *)
(* 1039): however many processes charge at once, whatever the crashes, the   *)
(* calls charged and checked on one day cost at most the budget of the day.  *)
(* A call that midnight catches between the charge and the check is charged  *)
(* to the day before and escapes both sums; it is not counted here.          *)
DayQuotaKept == Cardinality(granted) <= CreditsPerDay

(* The minute is looked at only before the charge, so processes that looked  *)
(* at once pass together: the row of a minute exceeds the limit by at most   *)
(* one call per process besides the first, and never with one process.       *)
MinuteOvershootBounded ==
  usage.minute <= CreditsPerMinute + (Cardinality(Processes) - 1) * MaxCharge

(* "la cola no debe romperse porque una llamada falle" (162): a task is in    *)
(* the chain of its process once while its call waits or is served, and not  *)
(* at all once the call has settled, whatever it settled with; what is       *)
(* charged or waiting for a minute is at the head.                           *)
ChainServes ==
  \A t \in Tasks :
    LET places == {k \in DOMAIN chain[Home[t]] : chain[Home[t]][k] = t} IN
    CASE call[t].at \in {"idle", "refused"} -> places = {}
      [] call[t].at = "queued" -> \E k \in places : places = {k}
      [] OTHER -> places = {1}

=============================================================================
