--------------------------- MODULE MarketDataProofs ---------------------------
(***************************************************************************)
(* Proofs about the limiter, for any number of processes and tasks, and     *)
(* about the jobs of MarketData, which use it as it is meant to be used: so *)
(* what is proved of the limiter holds of their calls.                      *)
(***************************************************************************)
EXTENDS MarketData, FiniteSetTheorems, WellFoundedInduction, TLAPS

-----------------------------------------------------------------------------
(* The limiter. *)

(* A credit counted today lies within the sum of today, so within the budget *)
(* once that sum has been checked.                                           *)
Counted(t) ==
  call[t].at = "charged" =>
    /\ call[t].since <= minute
    /\ call[t].credits <= call[t].last
    /\ Day(call[t].since) = Day(minute) => call[t].last <= usage.day

(* What has left the queue is at the head of its chain.                      *)
Active(t) == call[t].at \in {"asleep", "due", "charged", "ready"}
Served(t) == Active(t) => InService(t)

BudgetInv ==
  /\ LimiterTypeOK
  /\ \A t \in Tasks : Served(t)
  /\ granted \subseteq 1 .. CreditsPerDay
  /\ \A t \in Tasks : Counted(t)

(* The days do not run backwards: a minute of an earlier day is not of a day *)
(* that begins later.                                                        *)
LEMMA DayMonotone ==
  ASSUME NEW s \in Nat, NEW m \in Nat, s <= m
  PROVE  /\ Day(s) \in Nat
         /\ Day(m + 1) # Day(m) => Day(s) # Day(m + 1)
<1> DEFINE k == MinutesPerDay
<1>0. k \in Nat \ {0}
  BY LimiterAssumption
<1> HIDE DEF k
<1>1. \A n \in Nat : n \div k \in Nat /\ (n \div k) * k <= n /\ n < (n \div k) * k + k
  BY <1>0, Z3
<1> QED
  BY <1>0, <1>1, Z3 DEF Day, k

(* At most the credits of the budget are granted when each is a position     *)
(* within it.                                                                *)
LEMMA PositionsWithinBudget ==
  ASSUME granted \subseteq 1 .. CreditsPerDay
  PROVE  Cardinality(granted) <= CreditsPerDay
<1>1. CreditsPerDay \in Nat
  BY LimiterAssumption
<1>2. IsFiniteSet(1 .. CreditsPerDay) /\ Cardinality(1 .. CreditsPerDay) = CreditsPerDay
  BY <1>1, FS_Interval, Z3
<1>3. Cardinality(granted) <= Cardinality(1 .. CreditsPerDay)
  BY <1>2, FS_Subset
<1> QED
  BY <1>2, <1>3

(* The limiter begins with nothing charged.                                  *)
LEMMA BudgetInit == LimiterInit => BudgetInv
<1> SUFFICES ASSUME LimiterInit PROVE BudgetInv
  OBVIOUS
<1>1. LimiterTypeOK
  <2>1. NoCall \in Call
    BY LimiterAssumption DEF NoCall, CallAt, Call, Stages
  <2>2. call \in [Tasks -> Call]
    BY <2>1 DEF LimiterInit
  <2>3. chain \in [Processes -> Seq(Tasks)]
    BY DEF LimiterInit
  <2> QED
    BY <2>2, <2>3 DEF LimiterInit, LimiterTypeOK
<1>2. \A t \in Tasks : Counted(t) /\ Served(t)
  BY DEF LimiterInit, Counted, Served, Active, NoCall, CallAt
<1> QED
  BY <1>1, <1>2 DEF BudgetInv, LimiterInit

(* Settling the call that is served keeps the chains sequences of tasks, and *)
(* nobody else's place at the head.                                          *)
LEMMA Settling ==
  ASSUME BudgetInv, NEW t \in Tasks, InService(t), Settle(t), ~Active(t)',
         \A u \in Tasks \ {t} : call'[u] = call[u]
  PROVE  /\ chain' \in [Processes -> Seq(Tasks)]
         /\ \A u \in Tasks : Served(u)'
<1>1. Home[t] \in Processes /\ Home \in [Tasks -> Processes]
  BY LimiterAssumption
<1>2. chain \in [Processes -> Seq(Tasks)] /\ chain[Home[t]] # <<>>
  BY DEF BudgetInv, LimiterTypeOK, InService
<1>3. chain[Home[t]] \in Seq(Tasks) /\ Tail(chain[Home[t]]) \in Seq(Tasks)
  BY <1>1, <1>2
<1>4. chain' \in [Processes -> Seq(Tasks)]
  BY <1>1, <1>2, <1>3 DEF Settle
<1>5. ASSUME NEW u \in Tasks \ {t}, Active(u)'
      PROVE  InService(u)'
  <2>1. Active(u)
    BY <1>5 DEF Active
  <2>2. InService(u)
    BY <2>1 DEF BudgetInv, Served
  <2>3. Home[u] # Home[t]
    BY <2>2 DEF InService
  <2> QED
    BY <1>1, <1>2, <2>2, <2>3 DEF InService, Settle
<1> QED
  BY <1>4, <1>5 DEF Served

(* A step that keeps the chains keeps the places too, if only a call that is *)
(* served moves.                                                             *)
LEMMA Staying ==
  ASSUME BudgetInv, NEW t \in Tasks, InService(t) \/ ~Active(t)', chain' = chain,
         \A u \in Tasks \ {t} : call'[u] = call[u]
  PROVE  /\ chain' \in [Processes -> Seq(Tasks)]
         /\ \A u \in Tasks : Served(u)'
  BY DEF BudgetInv, LimiterTypeOK, Served, Active, InService

(* What a step leaves of the other calls, when the count of the day does not *)
(* go down.                                                                  *)
LEMMA Counting ==
  ASSUME BudgetInv, NEW t \in Tasks, minute' = minute, usage'.day \in Nat,
         usage.day <= usage'.day, Counted(t)',
         \A u \in Tasks \ {t} : call'[u] = call[u]
  PROVE  \A u \in Tasks : Counted(u)'
<1> SUFFICES ASSUME NEW u \in Tasks \ {t} PROVE Counted(u)'
  OBVIOUS
<1>1. Counted(u) /\ call[u] \in Call /\ usage.day \in Nat /\ call'[u] = call[u]
  BY DEF BudgetInv, LimiterTypeOK
<1> QED
  BY <1>1 DEF Counted, Call, Day

-----------------------------------------------------------------------------

(* A call that joins the chain does not overtake its first one.              *)
LEMMA HeadStays ==
  ASSUME NEW S, NEW s \in Seq(S), NEW x \in S, s # <<>>
  PROVE  Head(Append(s, x)) = Head(s) /\ Append(s, x) # <<>>
<1>1. Len(s) \in Nat /\ 1 <= Len(s)
  OBVIOUS
<1>2. Append(s, x)[1] = s[1] /\ Len(Append(s, x)) = Len(s) + 1
  BY <1>1
<1> QED
  BY <1>1, <1>2

LEMMA SchedulePreserves ==
  ASSUME BudgetInv, NEW t \in Tasks, NEW credits \in 1 .. MaxCharge, Schedule(t, credits)
  PROVE  BudgetInv'
<1>1. Home \in [Tasks -> Processes] /\ MaxCharge \in Nat
  BY LimiterAssumption
<1>2. call \in [Tasks -> Call] /\ chain \in [Processes -> Seq(Tasks)]
  BY DEF BudgetInv, LimiterTypeOK
<1>3. CallAt("queued", credits, 0, 0) \in Call
  BY <1>1 DEF CallAt, Call, Stages
<1>4. call' \in [Tasks -> Call]
  BY <1>2, <1>3 DEF Schedule
<1>5. chain[Home[t]] \in Seq(Tasks)
  BY <1>1, <1>2
<1>6. chain' \in [Processes -> Seq(Tasks)]
  BY <1>1, <1>2, <1>5 DEF Schedule
<1>7. LimiterTypeOK'
  BY <1>4, <1>6 DEF BudgetInv, LimiterTypeOK, Schedule
<1>8. ASSUME NEW u \in Tasks, Active(u)' PROVE InService(u)'
  <2>1. u # t
    BY <1>2, <1>8 DEF Active, Schedule, CallAt
  <2>2. Active(u)
    BY <1>2, <1>8, <2>1 DEF Active, Schedule, CallAt
  <2>3. InService(u)
    BY <2>2 DEF BudgetInv, Served
  <2>4. Home[u] \in Processes /\ chain[Home[u]] \in Seq(Tasks) /\ chain[Home[u]] # <<>>
    BY <1>1, <1>2, <2>3 DEF InService
  <2>5. CASE Home[u] = Home[t]
    <3>1. chain'[Home[u]] = Append(chain[Home[u]], t)
      BY <1>1, <1>2, <2>5 DEF Schedule
    <3>2. Head(Append(chain[Home[u]], t)) = Head(chain[Home[u]])
          /\ Append(chain[Home[u]], t) # <<>>
      BY <2>4, HeadStays
    <3> QED
      BY <2>3, <3>1, <3>2 DEF InService
  <2>6. CASE Home[u] # Home[t]
    BY <1>2, <2>3, <2>4, <2>6 DEF InService, Schedule
  <2> QED
    BY <2>5, <2>6
<1>9. \A u \in Tasks : Counted(u)'
  <2>1. Counted(t)' /\ usage'.day \in Nat /\ usage'.day = usage.day
    BY <1>2 DEF Schedule, Counted, CallAt, BudgetInv, LimiterTypeOK
  <2> QED
    BY <1>2, <2>1, Counting DEF Schedule
<1> QED
  BY <1>7, <1>8, <1>9 DEF BudgetInv, Served, Schedule

(* A move of one call keeps the calls what they are.                         *)
LEMMA Moving ==
  ASSUME BudgetInv, NEW t \in Tasks, NEW at \in Stages, NEW since \in Nat,
         NEW last \in Nat, Move(t, at, since, last)
  PROVE  /\ call' \in [Tasks -> Call]
         /\ call'[t].at = at /\ call'[t].credits = call[t].credits
         /\ call'[t].since = since /\ call'[t].last = last
         /\ \A u \in Tasks \ {t} : call'[u] = call[u]
<1>1. call \in [Tasks -> Call] /\ call[t] \in Call
  BY DEF BudgetInv, LimiterTypeOK
<1>2. CallAt(at, call[t].credits, since, last) \in Call
  BY <1>1 DEF CallAt, Call
<1>3. call' = [call EXCEPT ![t] = CallAt(at, call[t].credits, since, last)]
  BY DEF Move
<1>4. call'[t] = CallAt(at, call[t].credits, since, last)
  BY <1>1, <1>3
<1> QED
  BY <1>1, <1>2, <1>3, <1>4 DEF CallAt

LEMMA PeekPreserves ==
  ASSUME BudgetInv, NEW t \in Tasks, Peek(t)
  PROVE  BudgetInv'
<1>1. InService(t) /\ minute \in Nat /\ usage \in [minute : Nat, day : Nat]
  BY DEF Peek, BudgetInv, LimiterTypeOK
<1>2. CASE Move(t, "refused", 0, 0) /\ Settle(t)
  <2>1. /\ call' \in [Tasks -> Call]
        /\ call'[t].at = "refused"
        /\ \A u \in Tasks \ {t} : call'[u] = call[u]
    <3>1. "refused" \in Stages
      BY DEF Stages
    <3> QED
      BY <1>2, <3>1, Moving
  <2>2. ~Active(t)' /\ Counted(t)'
    BY <2>1 DEF Active, Counted
  <2>3. chain' \in [Processes -> Seq(Tasks)] /\ \A u \in Tasks : Served(u)'
    BY <1>1, <1>2, <2>1, <2>2, Settling
  <2>4. \A u \in Tasks : Counted(u)'
    BY <1>1, <2>1, <2>2, Counting DEF Peek
  <2> QED
    BY <2>1, <2>3, <2>4 DEF BudgetInv, LimiterTypeOK, Peek
<1>3. ASSUME NEW at \in {"asleep", "due"}, NEW since \in Nat,
             Move(t, at, since, 0), UNCHANGED chain
      PROVE  BudgetInv'
  <2>1. /\ call' \in [Tasks -> Call]
        /\ call'[t].at = at
        /\ \A u \in Tasks \ {t} : call'[u] = call[u]
    <3>1. at \in Stages
      BY DEF Stages
    <3> QED
      BY <1>3, <3>1, Moving
  <2>2. Counted(t)'
    BY <2>1 DEF Counted
  <2>3. chain' \in [Processes -> Seq(Tasks)] /\ \A u \in Tasks : Served(u)'
    BY <1>1, <1>3, <2>1, Staying
  <2>4. \A u \in Tasks : Counted(u)'
    BY <1>1, <2>1, <2>2, Counting DEF Peek
  <2> QED
    BY <2>1, <2>3, <2>4 DEF BudgetInv, LimiterTypeOK, Peek
<1> QED
  BY <1>1, <1>2, <1>3 DEF Peek

LEMMA WakePreserves ==
  ASSUME BudgetInv, NEW t \in Tasks, Wake(t)
  PROVE  BudgetInv'
<1>1. InService(t) /\ usage \in [minute : Nat, day : Nat]
  BY DEF Wake, BudgetInv, LimiterTypeOK, Served, Active
<1>2. /\ call' \in [Tasks -> Call]
      /\ call'[t].at = "due"
      /\ \A u \in Tasks \ {t} : call'[u] = call[u]
  <2>1. "due" \in Stages /\ Move(t, "due", 0, 0)
    BY DEF Stages, Wake
  <2> QED
    BY <2>1, Moving
<1>3. \A u \in Tasks : Counted(u)'
  BY <1>1, <1>2, Counting DEF Wake, Counted
<1>4. chain' \in [Processes -> Seq(Tasks)] /\ \A u \in Tasks : Served(u)'
  BY <1>1, <1>2, Staying DEF Wake
<1> QED
  BY <1>2, <1>3, <1>4 DEF BudgetInv, LimiterTypeOK, Wake

LEMMA AddPreserves ==
  ASSUME BudgetInv, NEW t \in Tasks, Add(t)
  PROVE  BudgetInv'
<1> DEFINE total == usage.day + call[t].credits
<1>1. InService(t) /\ minute \in Nat /\ usage \in [minute : Nat, day : Nat]
  BY DEF Add, BudgetInv, LimiterTypeOK, Served, Active
<1>2. call[t].credits \in Nat /\ total \in Nat /\ usage.minute + call[t].credits \in Nat
  BY <1>1, LimiterAssumption DEF BudgetInv, LimiterTypeOK, Call
<1>3. usage' = [minute |-> usage.minute + call[t].credits, day |-> total]
      /\ Move(t, "charged", minute, total)
  BY DEF Add
<1> HIDE DEF total
<1>4. /\ call' \in [Tasks -> Call]
      /\ call'[t].at = "charged" /\ call'[t].credits = call[t].credits
      /\ call'[t].since = minute /\ call'[t].last = total
      /\ \A u \in Tasks \ {t} : call'[u] = call[u]
  <2>1. "charged" \in Stages
    BY DEF Stages
  <2> QED
    BY <1>1, <1>2, <1>3, <2>1, Moving
<1>5. usage' \in [minute : Nat, day : Nat] /\ usage'.day = total
      /\ usage.day <= total /\ call[t].credits <= total
  BY <1>1, <1>2, <1>3 DEF total
<1>6. Counted(t)'
  BY <1>1, <1>2, <1>4, <1>5 DEF Counted, Add
<1>7. \A u \in Tasks : Counted(u)'
  BY <1>1, <1>2, <1>4, <1>5, <1>6, Counting DEF Add
<1>8. chain' \in [Processes -> Seq(Tasks)] /\ \A u \in Tasks : Served(u)'
  BY <1>1, <1>4, Staying DEF Add
<1> QED
  BY <1>4, <1>5, <1>7, <1>8 DEF BudgetInv, LimiterTypeOK, Add

(* The second check is what bounds the credits granted: they were charged    *)
(* today, within a sum that is within the budget.                            *)
LEMMA CheckPreserves ==
  ASSUME BudgetInv, NEW t \in Tasks, Check(t)
  PROVE  BudgetInv'
<1>1. InService(t) /\ minute \in Nat /\ usage \in [minute : Nat, day : Nat]
  BY DEF Check, BudgetInv, LimiterTypeOK, Served, Active
<1>2. CASE usage.day > CreditsPerDay
  <2>1. Move(t, "refused", 0, 0) /\ Settle(t) /\ UNCHANGED granted
    BY <1>2 DEF Check
  <2>2. /\ call' \in [Tasks -> Call] /\ call'[t].at = "refused"
        /\ \A u \in Tasks \ {t} : call'[u] = call[u]
    <3>1. "refused" \in Stages
      BY DEF Stages
    <3> QED
      BY <2>1, <3>1, Moving
  <2>3. ~Active(t)' /\ Counted(t)'
    BY <2>2 DEF Active, Counted
  <2>4. chain' \in [Processes -> Seq(Tasks)] /\ \A u \in Tasks : Served(u)'
    BY <1>1, <2>1, <2>2, <2>3, Settling
  <2>5. \A u \in Tasks : Counted(u)'
    BY <1>1, <2>2, <2>3, Counting DEF Check
  <2> QED
    BY <2>1, <2>2, <2>4, <2>5 DEF BudgetInv, LimiterTypeOK, Check
<1>3. CASE ~(usage.day > CreditsPerDay)
  <2>1. Move(t, "ready", 0, 0) /\ UNCHANGED chain
    BY <1>3 DEF Check
  <2>2. /\ call' \in [Tasks -> Call] /\ call'[t].at = "ready"
        /\ \A u \in Tasks \ {t} : call'[u] = call[u]
    <3>1. "ready" \in Stages
      BY DEF Stages
    <3> QED
      BY <2>1, <3>1, Moving
  <2>3. chain' \in [Processes -> Seq(Tasks)] /\ \A u \in Tasks : Served(u)'
    BY <1>1, <2>1, <2>2, Staying
  <2>4. \A u \in Tasks : Counted(u)'
    BY <1>1, <2>2, Counting DEF Check, Counted
  <2>5. granted' \subseteq 1 .. CreditsPerDay
    <3>1. CASE Day(call[t].since) = Day(minute)
      <4>1. call[t].last <= CreditsPerDay /\ call[t].credits <= call[t].last
            /\ call[t].last \in Nat /\ call[t].credits \in Nat
        BY <1>1, <1>3, <3>1, LimiterAssumption
        DEF BudgetInv, Counted, Check, LimiterTypeOK, Call
      <4>2. Positions(t) \subseteq 1 .. CreditsPerDay
        BY <4>1, LimiterAssumption DEF Positions
      <4> QED
        BY <1>3, <3>1, <4>2 DEF Check, BudgetInv
    <3>2. CASE Day(call[t].since) # Day(minute)
      BY <1>3, <3>2 DEF Check, BudgetInv
    <3> QED
      BY <3>1, <3>2
  <2>6. granted' \subseteq Nat \ {0}
    BY <2>5, LimiterAssumption
  <2> QED
    BY <2>2, <2>3, <2>4, <2>5, <2>6 DEF BudgetInv, LimiterTypeOK, Check
<1> QED
  BY <1>2, <1>3

(* A call that ends: the calls keep their shape and only t's changes.        *)
LEMMA Ending ==
  ASSUME BudgetInv, NEW t \in Tasks, call' = [call EXCEPT ![t] = NoCall]
  PROVE  /\ call' \in [Tasks -> Call] /\ call'[t].at = "idle"
         /\ \A u \in Tasks \ {t} : call'[u] = call[u]
<1>1. NoCall \in Call /\ NoCall.at = "idle"
  BY LimiterAssumption DEF NoCall, CallAt, Call, Stages
<1> QED
  BY <1>1 DEF BudgetInv, LimiterTypeOK

LEMMA SendPreserves ==
  ASSUME BudgetInv, NEW t \in Tasks, Send(t)
  PROVE  BudgetInv'
<1>1. InService(t) /\ usage \in [minute : Nat, day : Nat]
  BY DEF Send, BudgetInv, LimiterTypeOK, Served, Active
<1>2. /\ call' \in [Tasks -> Call] /\ call'[t].at = "idle"
      /\ \A u \in Tasks \ {t} : call'[u] = call[u]
  BY Ending DEF Send
<1>3. ~Active(t)' /\ Counted(t)'
  BY <1>2 DEF Active, Counted
<1>4. chain' \in [Processes -> Seq(Tasks)] /\ \A u \in Tasks : Served(u)'
  BY <1>1, <1>2, <1>3, Settling DEF Send
<1>5. \A u \in Tasks : Counted(u)'
  BY <1>1, <1>2, <1>3, Counting DEF Send
<1> QED
  BY <1>2, <1>4, <1>5 DEF BudgetInv, LimiterTypeOK, Send

LEMMA RefusePreserves ==
  ASSUME BudgetInv, NEW t \in Tasks, Refuse(t)
  PROVE  BudgetInv'
<1>1. usage \in [minute : Nat, day : Nat]
  BY DEF BudgetInv, LimiterTypeOK
<1>2. /\ call' \in [Tasks -> Call] /\ call'[t].at = "idle"
      /\ \A u \in Tasks \ {t} : call'[u] = call[u]
  BY Ending DEF Refuse
<1>3. ~Active(t)' /\ Counted(t)'
  BY <1>2 DEF Active, Counted
<1>4. chain' \in [Processes -> Seq(Tasks)] /\ \A u \in Tasks : Served(u)'
  BY <1>2, <1>3, Staying DEF Refuse
<1>5. \A u \in Tasks : Counted(u)'
  BY <1>1, <1>2, <1>3, Counting DEF Refuse
<1> QED
  BY <1>2, <1>4, <1>5 DEF BudgetInv, LimiterTypeOK, Refuse

LEMMA RestartPreserves ==
  ASSUME BudgetInv, NEW p \in Processes, Restart(p)
  PROVE  BudgetInv'
<1>1. NoCall \in Call /\ NoCall.at = "idle"
  BY LimiterAssumption DEF NoCall, CallAt, Call, Stages
<1>2. call \in [Tasks -> Call] /\ chain \in [Processes -> Seq(Tasks)] /\ crashes \in Nat
  BY DEF BudgetInv, LimiterTypeOK
<1>3. call' \in [Tasks -> Call]
  BY <1>1, <1>2 DEF Restart
<1>4. <<>> \in Seq(Tasks)
  OBVIOUS
<1>5. chain' \in [Processes -> Seq(Tasks)]
  BY <1>2, <1>4 DEF Restart
<1>6. ASSUME NEW u \in Tasks PROVE Served(u)' /\ Counted(u)'
  <2>1. CASE Home[u] = p
    BY <1>1, <2>1 DEF Restart, Served, Active, Counted
  <2>2. CASE Home[u] # p
    <3>1. call'[u] = call[u] /\ chain'[Home[u]] = chain[Home[u]]
      BY <1>2, <2>2, LimiterAssumption DEF Restart
    <3>2. Served(u) /\ Counted(u)
      BY DEF BudgetInv
    <3>3. Served(u)'
      BY <3>1, <3>2 DEF Served, Active, InService
    <3>4. Counted(u)'
      BY <3>1, <3>2 DEF Counted, Restart, Day
    <3> QED
      BY <3>3, <3>4
  <2> QED
    BY <2>1, <2>2
<1>7. crashes' \in Nat
  BY <1>2 DEF Restart
<1> QED
  BY <1>3, <1>5, <1>6, <1>7 DEF BudgetInv, LimiterTypeOK, Restart

LEMMA TickPreserves ==
  ASSUME BudgetInv, Tick
  PROVE  BudgetInv'
<1>1. /\ minute \in Nat /\ minute' = minute + 1 /\ usage \in [minute : Nat, day : Nat]
      /\ call \in [Tasks -> Call] /\ UNCHANGED <<chain, call, crashes>>
  BY DEF BudgetInv, LimiterTypeOK, Tick
<1>2. usage' \in [minute : Nat, day : Nat]
  BY <1>1 DEF Tick
<1>3. granted' \subseteq 1 .. CreditsPerDay /\ granted' \subseteq Nat \ {0}
  BY DEF Tick, BudgetInv, LimiterTypeOK
<1>4. ASSUME NEW u \in Tasks PROVE Counted(u)'
  <2>1. call[u] \in Call /\ Counted(u)
    BY <1>1 DEF BudgetInv
  <2>2. CASE call[u].at = "charged"
    <3>1. /\ call[u].since \in Nat /\ call[u].since <= minute
          /\ call[u].credits <= call[u].last
          /\ Day(call[u].since) = Day(minute) => call[u].last <= usage.day
      BY <2>1, <2>2 DEF Call, Counted
    <3>2. Day(minute + 1) # Day(minute) => Day(call[u].since) # Day(minute + 1)
      BY <1>1, <3>1, DayMonotone
    <3>3. Day(minute + 1) = Day(minute) => usage'.day = usage.day
      BY <1>1 DEF Tick
    <3>4. call[u].since <= minute + 1
      BY <1>1, <3>1
    <3>5. (Day(call[u].since) = Day(minute))' <=> Day(call[u].since) = Day(minute + 1)
      BY <1>1 DEF Day
    <3> QED
      BY <1>1, <3>1, <3>2, <3>3, <3>4, <3>5 DEF Counted
  <2>3. CASE call[u].at # "charged"
    BY <1>1, <2>3 DEF Counted
  <2> QED
    BY <2>2, <2>3
<1>5. \A u \in Tasks : Served(u)'
  BY <1>1 DEF BudgetInv, Served, Active, InService
<1> QED
  BY <1>1, <1>2, <1>3, <1>4, <1>5 DEF BudgetInv, LimiterTypeOK

-----------------------------------------------------------------------------

LEMMA BudgetStep == BudgetInv /\ [LimiterNext]_limiterVars => BudgetInv'
<1> SUFFICES ASSUME BudgetInv, [LimiterNext]_limiterVars PROVE BudgetInv'
  OBVIOUS
<1>1. CASE UNCHANGED limiterVars
  BY <1>1 DEF limiterVars, BudgetInv, LimiterTypeOK, Served, Active, InService, Counted, Day
<1>2. ASSUME NEW t \in Tasks, NEW credits \in 1 .. MaxCharge, Schedule(t, credits)
      PROVE  BudgetInv'
  BY <1>2, SchedulePreserves
<1>3. ASSUME NEW t \in Tasks, Charge(t) \/ Send(t) \/ Refuse(t) PROVE BudgetInv'
  BY <1>3, PeekPreserves, WakePreserves, AddPreserves, CheckPreserves, SendPreserves,
     RefusePreserves DEF Charge
<1>4. ASSUME NEW p \in Processes, Restart(p) PROVE BudgetInv'
  BY <1>4, RestartPreserves
<1>5. CASE Tick
  BY <1>5, TickPreserves
<1> QED
  BY <1>1, <1>2, <1>3, <1>4, <1>5 DEF LimiterNext

(* However many processes charge at once and whatever the crashes, the calls *)
(* charged and checked on one day never cost more than the day's budget.     *)
THEOREM DayBudget == LimiterSpec => []DayQuotaKept
<1>1. BudgetInv => DayQuotaKept
  BY PositionsWithinBudget DEF BudgetInv, DayQuotaKept
<1> QED
  BY <1>1, BudgetInit, BudgetStep, PTL DEF LimiterSpec

(* The limiter's variables keep their shape.                                 *)
THEOREM LimiterTypes == LimiterSpec => []LimiterTypeOK
<1>1. BudgetInv => LimiterTypeOK
  BY DEF BudgetInv
<1> QED
  BY <1>1, BudgetInit, BudgetStep, PTL DEF LimiterSpec

-----------------------------------------------------------------------------
(* With one process the minute is kept too: between the look at the row and  *)
(* the charge nobody else charges, since what is not at the head waits.      *)

OneProcess == \E p : Processes = {p}

(* a call that is due still fits in the minute, and one that slept through   *)
(* to a later minute finds it empty                                          *)
Fits(t) ==
  /\ call[t].at = "due" => usage.minute + call[t].credits <= CreditsPerMinute
  /\ call[t].at = "asleep" /\ call[t].since < minute => usage.minute = 0

MinuteInv ==
  /\ BudgetInv
  /\ usage.minute <= CreditsPerMinute
  /\ \A t \in Tasks : Fits(t)

LEMMA OneServed ==
  ASSUME OneProcess, BudgetInv, NEW t \in Tasks, NEW u \in Tasks,
         InService(t), Active(u)
  PROVE  u = t
<1>1. Home[t] = Home[u]
  BY LimiterAssumption DEF OneProcess
<1> QED
  BY <1>1 DEF BudgetInv, Served, InService

(* Only t's call changes and the sum of the minute stays.                    *)
LEMMA FitsStays ==
  ASSUME MinuteInv, NEW t \in Tasks, minute' = minute, usage' = usage, Fits(t)',
         \A u \in Tasks \ {t} : call'[u] = call[u]
  PROVE  usage'.minute <= CreditsPerMinute /\ \A u \in Tasks : Fits(u)'
<1>1. ASSUME NEW u \in Tasks \ {t} PROVE Fits(u)'
  <2>1. Fits(u) /\ call'[u] = call[u]
    BY DEF MinuteInv
  <2> QED
    BY <2>1 DEF Fits
<1> QED
  BY <1>1 DEF MinuteInv

LEMMA MinuteStep ==
  ASSUME OneProcess, MinuteInv, [LimiterNext]_limiterVars
  PROVE  MinuteInv'
<1> DEFINE Kept == usage'.minute <= CreditsPerMinute /\ \A u \in Tasks : Fits(u)'
<1>0. BudgetInv /\ BudgetInv'
  BY BudgetStep DEF MinuteInv
<1>1. /\ call \in [Tasks -> Call] /\ usage \in [minute : Nat, day : Nat]
      /\ minute \in Nat /\ CreditsPerMinute \in Nat
  BY <1>0, LimiterAssumption DEF BudgetInv, LimiterTypeOK
<1>2. \A t \in Tasks : call[t].credits \in Nat /\ call[t].credits <= CreditsPerMinute
  BY <1>1, LimiterAssumption DEF Call
<1>3. ASSUME NEW t \in Tasks, NEW credits \in 1 .. MaxCharge, Schedule(t, credits)
      PROVE  Kept
  <2>1. Fits(t)' /\ \A u \in Tasks \ {t} : call'[u] = call[u]
    BY <1>1, <1>3 DEF Schedule, CallAt, Fits
  <2> QED
    BY <1>3, <2>1, FitsStays DEF Schedule
<1>4. ASSUME NEW t \in Tasks, Peek(t) PROVE Kept
  <2>1. call[t].credits \in Nat
    BY <1>2
  <2>2. \A u \in Tasks \ {t} : call'[u] = call[u]
    BY <1>1, <1>4 DEF Peek, Move
  <2>3. Fits(t)'
    <3>1. CASE Move(t, "refused", 0, 0)
      BY <1>1, <3>1 DEF Move, CallAt, Fits
    <3>2. CASE Move(t, "asleep", minute, 0)
      BY <1>1, <1>4, <3>2 DEF Move, CallAt, Fits, Peek
    <3>3. CASE Move(t, "due", 0, 0) /\ ~(usage.minute + call[t].credits > CreditsPerMinute)
      BY <1>1, <1>4, <2>1, <3>3 DEF Move, CallAt, Fits, Peek
    <3> QED
      BY <1>4, <3>1, <3>2, <3>3 DEF Peek
  <2> QED
    BY <1>4, <2>2, <2>3, FitsStays DEF Peek
<1>5. ASSUME NEW t \in Tasks, Wake(t) PROVE Kept
  <2>1. usage.minute = 0 /\ call[t].credits \in Nat /\ call[t].credits <= CreditsPerMinute
    BY <1>2, <1>5 DEF MinuteInv, Fits, Wake
  <2>2. \A u \in Tasks \ {t} : call'[u] = call[u]
    BY <1>1, <1>5 DEF Wake, Move
  <2>3. Fits(t)'
    BY <1>1, <1>5, <2>1 DEF Wake, Move, CallAt, Fits
  <2> QED
    BY <1>5, <2>2, <2>3, FitsStays DEF Wake
<1>6. ASSUME NEW t \in Tasks, Add(t) PROVE Kept
  <2>1. InService(t) /\ usage.minute + call[t].credits <= CreditsPerMinute
    BY <1>0, <1>6 DEF Add, BudgetInv, Served, Active, MinuteInv, Fits
  <2>2. usage'.minute <= CreditsPerMinute
    BY <1>6, <2>1 DEF Add
  <2>3. \A u \in Tasks \ {t} : call[u].at \notin {"due", "asleep"}
    BY <1>0, <2>1, OneServed DEF Active
  <2>4. call'[t].at = "charged" /\ \A u \in Tasks \ {t} : call'[u] = call[u]
    BY <1>1, <1>6 DEF Add, Move, CallAt
  <2> QED
    BY <2>2, <2>3, <2>4 DEF Fits
<1>7. ASSUME NEW t \in Tasks, Check(t) PROVE Kept
  <2>1. call'[t].at \in {"refused", "ready"} /\ \A u \in Tasks \ {t} : call'[u] = call[u]
    BY <1>1, <1>7 DEF Check, Move, CallAt
  <2> QED
    BY <1>7, <2>1, FitsStays DEF Check, Fits
<1>8. ASSUME NEW t \in Tasks, Send(t) \/ Refuse(t) PROVE Kept
  <2>1. call'[t].at = "idle" /\ \A u \in Tasks \ {t} : call'[u] = call[u]
    BY <1>0, <1>8, Ending DEF Send, Refuse
  <2> QED
    BY <1>8, <2>1, FitsStays DEF Send, Refuse, Fits
<1>9. ASSUME NEW p \in Processes, Restart(p) PROVE Kept
  <2>1. \A u \in Tasks : call'[u] = NoCall \/ call'[u] = call[u]
    BY <1>9 DEF Restart
  <2>2. UNCHANGED <<minute, usage>>
    BY <1>9 DEF Restart
  <2>3. \A u \in Tasks : Fits(u)'
    BY <2>1, <2>2 DEF MinuteInv, Fits, NoCall, CallAt
  <2> QED
    BY <2>2, <2>3 DEF MinuteInv
<1>10. ASSUME Tick PROVE Kept
  <2>1. usage'.minute = 0 /\ call' = call
    BY <1>1, <1>10 DEF Tick
  <2> QED
    BY <1>1, <1>2, <2>1 DEF Fits
<1>11. ASSUME UNCHANGED limiterVars PROVE Kept
  BY <1>11 DEF limiterVars, MinuteInv, Fits
<1> HIDE DEF Kept
<1>12. Kept
  BY <1>3, <1>4, <1>5, <1>6, <1>7, <1>8, <1>9, <1>10, <1>11 DEF LimiterNext, Charge
<1> QED
  BY <1>0, <1>12 DEF Kept, MinuteInv

(* A single process never charges a minute with more than its credits.       *)
THEOREM MinuteBudgetOfOne ==
  ASSUME OneProcess
  PROVE  LimiterSpec => []MinuteOvershootBounded
<1>1. LimiterInit => MinuteInv
  <2> SUFFICES ASSUME LimiterInit PROVE MinuteInv
    OBVIOUS
  <2>1. BudgetInv
    BY BudgetInit
  <2>2. usage.minute = 0 /\ \A t \in Tasks : call[t].at = "idle"
    BY DEF LimiterInit, NoCall, CallAt
  <2> QED
    BY <2>1, <2>2, LimiterAssumption DEF MinuteInv, Fits
<1>2. MinuteInv /\ [LimiterNext]_limiterVars => MinuteInv'
  BY MinuteStep
<1>3. MinuteInv => MinuteOvershootBounded
  <2> SUFFICES ASSUME MinuteInv PROVE MinuteOvershootBounded
    OBVIOUS
  <2>1. Cardinality(Processes) = 1
    BY FS_Singleton DEF OneProcess
  <2>2. MaxCharge \in Nat /\ CreditsPerMinute \in Nat
    BY LimiterAssumption
  <2>3. (Cardinality(Processes) - 1) * MaxCharge = 0
    BY <2>1, <2>2
  <2> QED
    BY <2>2, <2>3 DEF MinuteInv, MinuteOvershootBounded
<1> QED
  BY <1>1, <1>2, <1>3, PTL DEF LimiterSpec

-----------------------------------------------------------------------------
(* Every call that waits or is served has one place, in the chain of its      *)
(* process, and nothing else is in a chain.                                  *)

(* what a call that waits or is served is at *)
Lined(c) == c.at \notin {"idle", "refused"}

Places(t) == {k \in DOMAIN chain[Home[t]] : chain[Home[t]][k] = t}

(* what stands in the chain of p: calls of p that are in line, each once     *)
Orderly(p) ==
  /\ \A k \in DOMAIN chain[p] : Home[chain[p][k]] = p /\ Lined(call[chain[p][k]])
  /\ \A k, l \in DOMAIN chain[p] : chain[p][k] = chain[p][l] => k = l

ChainInv ==
  /\ BudgetInv
  /\ \A p \in Processes : Orderly(p)
  /\ \A t \in Tasks : Lined(call[t]) => Places(t) # {}

LEMMA ChainTyped ==
  ASSUME BudgetInv
  PROVE  /\ \A p \in Processes : chain[p] \in Seq(Tasks)
         /\ \A p \in Processes : \A k \in DOMAIN chain[p] : chain[p][k] \in Tasks
         /\ \A t \in Tasks : Home[t] \in Processes
<1>1. chain \in [Processes -> Seq(Tasks)] /\ Home \in [Tasks -> Processes]
  BY LimiterAssumption DEF BudgetInv, LimiterTypeOK
<1>2. \A p \in Processes : chain[p] \in Seq(Tasks)
  BY <1>1
<1>3. ASSUME NEW p \in Processes, NEW k \in DOMAIN chain[p] PROVE chain[p][k] \in Tasks
  BY <1>2
<1> QED
  BY <1>1, <1>2, <1>3

(* The chains stand still, and nobody joins or leaves.                       *)
LEMMA ChainStill ==
  ASSUME ChainInv, chain' = chain, \A t \in Tasks : Lined(call'[t]) <=> Lined(call[t])
  PROVE  /\ \A p \in Processes : Orderly(p)'
         /\ \A t \in Tasks : Lined(call'[t]) => Places(t)' # {}
<1>1. \A p \in Processes : \A k \in DOMAIN chain[p] : chain[p][k] \in Tasks
  BY ChainTyped DEF ChainInv
<1>2. ASSUME NEW p \in Processes PROVE Orderly(p)'
  <2>1. Orderly(p)
    BY DEF ChainInv
  <2>2. \A k \in DOMAIN chain[p] : Lined(call'[chain[p][k]])
    BY <1>1, <2>1 DEF Orderly
  <2> QED
    BY <2>1, <2>2 DEF Orderly
<1>3. ASSUME NEW t \in Tasks, Lined(call'[t]) PROVE Places(t)' # {}
  BY <1>3 DEF ChainInv, Places
<1> QED
  BY <1>2, <1>3

(* A call joins the chain of its process at the end.                         *)
LEMMA ChainJoin ==
  ASSUME ChainInv, NEW t \in Tasks, ~Lined(call[t]), Lined(call'[t]),
         chain' = [chain EXCEPT ![Home[t]] = Append(@, t)],
         \A u \in Tasks \ {t} : Lined(call'[u]) <=> Lined(call[u])
  PROVE  /\ \A p \in Processes : Orderly(p)'
         /\ \A u \in Tasks : Lined(call'[u]) => Places(u)' # {}
<1> DEFINE h == Home[t]
           n == Len(chain[h])
<1>1. /\ h \in Processes /\ chain[h] \in Seq(Tasks) /\ n \in Nat
      /\ DOMAIN chain[h] = 1 .. n
      /\ \A p \in Processes : chain[p] \in Seq(Tasks)
      /\ \A p \in Processes : \A k \in DOMAIN chain[p] : chain[p][k] \in Tasks
      /\ \A u \in Tasks : Home[u] \in Processes
      /\ chain \in [Processes -> Seq(Tasks)]
  BY ChainTyped DEF ChainInv, BudgetInv, LimiterTypeOK
<1>2. /\ chain'[h] = Append(chain[h], t)
      /\ \A p \in Processes \ {h} : chain'[p] = chain[p]
  BY <1>1
<1>3. /\ DOMAIN chain'[h] = 1 .. (n + 1)
      /\ chain'[h][n + 1] = t
      /\ \A k \in 1 .. n : chain'[h][k] = chain[h][k]
  BY <1>1, <1>2
<1> HIDE DEF n, h
<1>4. \A p \in Processes : \A k \in DOMAIN chain[p] :
         chain[p][k] # t /\ Home[chain[p][k]] = p /\ Lined(call'[chain[p][k]])
  <2> SUFFICES ASSUME NEW p \in Processes, NEW k \in DOMAIN chain[p]
               PROVE  chain[p][k] # t /\ Home[chain[p][k]] = p /\ Lined(call'[chain[p][k]])
    OBVIOUS
  <2>1. Lined(call[chain[p][k]]) /\ Home[chain[p][k]] = p /\ chain[p][k] \in Tasks
    BY <1>1 DEF ChainInv, Orderly
  <2> QED
    BY <2>1
<1>5. ASSUME NEW p \in Processes PROVE Orderly(p)'
  <2>1. CASE p = h
    <3>1. \A k \in DOMAIN chain'[h] : Home[chain'[h][k]] = h
      BY <1>1, <1>3, <1>4 DEF h
    <3>2. \A k \in DOMAIN chain'[h] : Lined(call'[chain'[h][k]])
      <4>1. \A k \in 1 .. n : Lined(call'[chain'[h][k]])
        <5>1. \A k \in 1 .. n : Lined(call'[chain[h][k]])
          BY <1>1, <1>4
        <5> QED
          BY <1>3, <5>1
      <4>2. Lined(call'[chain'[h][n + 1]])
        BY <1>3
      <4>3. \A k \in 1 .. (n + 1) : k \in 1 .. n \/ k = n + 1
        BY <1>1
      <4> QED
        BY <1>3, <4>1, <4>2, <4>3
    <3>3. \A k, l \in DOMAIN chain'[h] : chain'[h][k] = chain'[h][l] => k = l
      <4>1. \A k, l \in 1 .. n : chain[h][k] = chain[h][l] => k = l
        BY <1>1 DEF ChainInv, Orderly
      <4>2. \A k \in 1 .. n : chain'[h][k] # t
        BY <1>1, <1>3, <1>4
      <4>3. \A k, l \in 1 .. n : chain'[h][k] = chain'[h][l] => k = l
        BY <1>3, <4>1
      <4> SUFFICES ASSUME NEW k \in 1 .. (n + 1), NEW l \in 1 .. (n + 1),
                          chain'[h][k] = chain'[h][l]
                   PROVE  k = l
        BY <1>3
      <4>4. (k \in 1 .. n \/ k = n + 1) /\ (l \in 1 .. n \/ l = n + 1)
        BY <1>1
      <4> QED
        BY <1>3, <4>2, <4>3, <4>4
    <3> QED
      BY <2>1, <3>1, <3>2, <3>3 DEF Orderly
  <2>2. CASE p # h
    <3>1. chain'[p] = chain[p] /\ Orderly(p)
      BY <1>2, <2>2 DEF ChainInv
    <3>2. \A k \in DOMAIN chain'[p] : Lined(call'[chain'[p][k]])
      <4>1. \A k \in DOMAIN chain[p] : Lined(call'[chain[p][k]])
        BY <1>4
      <4> QED
        BY <3>1, <4>1
    <3> QED
      BY <3>1, <3>2 DEF Orderly
  <2> QED
    BY <2>1, <2>2
<1>6. ASSUME NEW u \in Tasks, Lined(call'[u]) PROVE Places(u)' # {}
  <2>1. CASE u = t
    <3>1. n + 1 \in DOMAIN chain'[Home[u]] /\ chain'[Home[u]][n + 1] = u
      BY <1>1, <1>3, <2>1 DEF h
    <3> QED
      BY <3>1 DEF Places
  <2>2. CASE u # t
    <3>1. Lined(call[u]) /\ Home[u] \in Processes
      BY <1>1, <1>6, <2>2
    <3>2. PICK k \in DOMAIN chain[Home[u]] : chain[Home[u]][k] = u
      BY <3>1 DEF ChainInv, Places
    <3>3. k \in DOMAIN chain'[Home[u]] /\ chain'[Home[u]][k] = u
      <4>1. CASE Home[u] = h
        <5>1. k \in 1 .. n /\ chain[h][k] = u
          BY <1>1, <3>2, <4>1
        <5> QED
          BY <1>1, <1>3, <4>1, <5>1
      <4>2. CASE Home[u] # h
        BY <1>2, <3>1, <3>2, <4>2
      <4> QED
        BY <4>1, <4>2
    <3> QED
      BY <3>3 DEF Places
  <2> QED
    BY <2>1, <2>2
<1> QED
  BY <1>5, <1>6

(* The call at the head settles and leaves the chain.                        *)
LEMMA ChainLeave ==
  ASSUME ChainInv, NEW t \in Tasks, InService(t), Settle(t), ~Lined(call'[t]),
         \A u \in Tasks \ {t} : Lined(call'[u]) <=> Lined(call[u])
  PROVE  /\ \A p \in Processes : Orderly(p)'
         /\ \A u \in Tasks : Lined(call'[u]) => Places(u)' # {}
<1> DEFINE h == Home[t]
           n == Len(chain[h])
<1>1. /\ h \in Processes /\ chain[h] \in Seq(Tasks) /\ n \in Nat
      /\ DOMAIN chain[h] = 1 .. n
      /\ \A p \in Processes : \A k \in DOMAIN chain[p] : chain[p][k] \in Tasks
      /\ \A u \in Tasks : Home[u] \in Processes
      /\ chain \in [Processes -> Seq(Tasks)]
  BY ChainTyped DEF ChainInv, BudgetInv, LimiterTypeOK
<1>2. /\ chain'[h] = Tail(chain[h])
      /\ \A p \in Processes \ {h} : chain'[p] = chain[p]
  BY <1>1 DEF Settle
<1>3. /\ 1 <= n /\ chain[h][1] = t
      /\ DOMAIN chain'[h] = 1 .. (n - 1)
      /\ \A k \in 1 .. (n - 1) : chain'[h][k] = chain[h][k + 1]
  <2>1. chain[h] # <<>> /\ Head(chain[h]) = t
    BY DEF InService
  <2> QED
    BY <1>1, <1>2, <2>1
<1>4. /\ \A k \in 1 .. n : Home[chain[h][k]] = h /\ Lined(call[chain[h][k]]) /\ chain[h][k] \in Tasks
      /\ \A k, l \in 1 .. n : chain[h][k] = chain[h][l] => k = l
  BY <1>1 DEF ChainInv, Orderly
<1>h. h = Home[t]
  OBVIOUS
<1> HIDE DEF n, h
<1>5. ASSUME NEW p \in Processes PROVE Orderly(p)'
  <2>1. CASE p = h
    <3>1. \A k \in 1 .. (n - 1) : k + 1 \in 1 .. n /\ k + 1 # 1 /\ 1 \in 1 .. n
      BY <1>1, <1>3
    <3>2. \A k \in 1 .. (n - 1) : chain[h][k + 1] \in Tasks \ {t} /\ Lined(call[chain[h][k + 1]])
      BY <1>3, <1>4, <3>1
    <3>3. \A k \in 1 .. (n - 1) : Lined(call'[chain[h][k + 1]])
      BY <3>2
    <3>4. \A k \in DOMAIN chain'[h] : Lined(call'[chain'[h][k]])
      BY <1>3, <3>3
    <3>5. \A k \in DOMAIN chain'[h] : Home[chain'[h][k]] = h
      BY <1>3, <1>4, <3>1
    <3>6. \A k, l \in DOMAIN chain'[h] : chain'[h][k] = chain'[h][l] => k = l
      <4> SUFFICES ASSUME NEW k \in 1 .. (n - 1), NEW l \in 1 .. (n - 1),
                          chain'[h][k] = chain'[h][l]
                   PROVE  k = l
        BY <1>3
      <4>1. k + 1 = l + 1
        BY <1>3, <1>4, <3>1
      <4> QED
        BY <1>1, <4>1
    <3> QED
      BY <2>1, <3>4, <3>5, <3>6 DEF Orderly
  <2>2. CASE p # h
    <3>1. chain'[p] = chain[p] /\ Orderly(p)
      BY <1>2, <2>2 DEF ChainInv
    <3>2. \A k \in DOMAIN chain[p] : chain[p][k] \in Tasks \ {t} /\ Lined(call[chain[p][k]])
      BY <1>1, <1>h, <2>2, <3>1 DEF Orderly
    <3>3. \A k \in DOMAIN chain'[p] : Lined(call'[chain'[p][k]])
      <4>1. \A k \in DOMAIN chain[p] : Lined(call'[chain[p][k]])
        BY <3>2
      <4> QED
        BY <3>1, <4>1
    <3> QED
      BY <3>1, <3>3 DEF Orderly
  <2> QED
    BY <2>1, <2>2
<1>6. ASSUME NEW u \in Tasks, Lined(call'[u]) PROVE Places(u)' # {}
  <2>1. u # t /\ Lined(call[u]) /\ Home[u] \in Processes
    BY <1>1, <1>6
  <2>2. PICK k \in DOMAIN chain[Home[u]] : chain[Home[u]][k] = u
    BY <2>1 DEF ChainInv, Places
  <2>3. \E l \in DOMAIN chain'[Home[u]] : chain'[Home[u]][l] = u
    <3>1. CASE Home[u] = h
      <4>1. k \in 1 .. n /\ k # 1 /\ chain[h][k] = u
        BY <1>1, <1>3, <2>1, <2>2, <3>1
      <4>2. k - 1 \in 1 .. (n - 1) /\ (k - 1) + 1 = k
        BY <1>1, <4>1
      <4>3. chain'[h][k - 1] = u
        BY <1>3, <4>1, <4>2
      <4> QED
        BY <1>3, <3>1, <4>2, <4>3
    <3>2. CASE Home[u] # h
      BY <1>2, <2>1, <2>2, <3>2
    <3> QED
      BY <3>1, <3>2
  <2> QED
    BY <2>3 DEF Places
<1> QED
  BY <1>5, <1>6

(* One step of the limiter, by what it does to the chains.                   *)
LEMMA ChainStep ==
  ASSUME ChainInv, [LimiterNext]_limiterVars
  PROVE  ChainInv'
<1> DEFINE Kept == /\ \A p \in Processes : Orderly(p)'
                   /\ \A t \in Tasks : Lined(call'[t]) => Places(t)' # {}
<1>0. BudgetInv /\ BudgetInv'
  BY BudgetStep DEF ChainInv
<1>1. call \in [Tasks -> Call]
  BY <1>0 DEF BudgetInv, LimiterTypeOK
<1>2. ASSUME NEW t \in Tasks, NEW credits \in 1 .. MaxCharge, Schedule(t, credits)
      PROVE  Kept
  <2>1. /\ ~Lined(call[t]) /\ Lined(call'[t])
        /\ \A u \in Tasks \ {t} : call'[u] = call[u]
    BY <1>1, <1>2 DEF Schedule, CallAt, Lined
  <2>2. chain' = [chain EXCEPT ![Home[t]] = Append(@, t)]
    BY <1>2 DEF Schedule
  <2> QED
    BY <2>1, <2>2, ChainJoin
<1>3. ASSUME NEW t \in Tasks, Peek(t) PROVE Kept
  <2>1. InService(t) /\ Lined(call[t]) /\ \A u \in Tasks \ {t} : call'[u] = call[u]
    BY <1>1, <1>3 DEF Peek, Move, Lined
  <2>2. CASE Move(t, "refused", 0, 0) /\ Settle(t)
    <3>1. ~Lined(call'[t])
      BY <1>1, <2>2 DEF Move, CallAt, Lined
    <3> QED
      BY <2>1, <2>2, <3>1, ChainLeave
  <2>3. CASE (Move(t, "asleep", minute, 0) \/ Move(t, "due", 0, 0)) /\ UNCHANGED chain
    <3>1. Lined(call'[t])
      BY <1>1, <2>3 DEF Move, CallAt, Lined
    <3> QED
      BY <2>1, <2>3, <3>1, ChainStill
  <2> QED
    BY <1>3, <2>2, <2>3 DEF Peek
<1>4. ASSUME NEW t \in Tasks, Wake(t) \/ Add(t) PROVE Kept
  <2>1. /\ Lined(call[t]) /\ Lined(call'[t]) /\ UNCHANGED chain
        /\ \A u \in Tasks \ {t} : call'[u] = call[u]
    BY <1>1, <1>4 DEF Wake, Add, Move, CallAt, Lined
  <2> QED
    BY <2>1, ChainStill
<1>5. ASSUME NEW t \in Tasks, Check(t) PROVE Kept
  <2>1. /\ InService(t) /\ Lined(call[t])
        /\ \A u \in Tasks \ {t} : call'[u] = call[u]
    BY <1>0, <1>1, <1>5 DEF Check, Move, Lined, BudgetInv, Served, Active
  <2>2. CASE Move(t, "refused", 0, 0) /\ Settle(t)
    <3>1. ~Lined(call'[t])
      BY <1>1, <2>2 DEF Move, CallAt, Lined
    <3> QED
      BY <2>1, <2>2, <3>1, ChainLeave
  <2>3. CASE Move(t, "ready", 0, 0) /\ UNCHANGED chain
    <3>1. Lined(call'[t])
      BY <1>1, <2>3 DEF Move, CallAt, Lined
    <3> QED
      BY <2>1, <2>3, <3>1, ChainStill
  <2> QED
    BY <1>5, <2>2, <2>3 DEF Check
<1>6. ASSUME NEW t \in Tasks, Send(t) PROVE Kept
  <2>1. InService(t) /\ Settle(t)
    BY <1>0, <1>6 DEF Send, BudgetInv, Served, Active
  <2>2. call'[t].at = "idle" /\ \A u \in Tasks \ {t} : call'[u] = call[u]
    BY <1>0, <1>6, Ending DEF Send
  <2> QED
    BY <2>1, <2>2, ChainLeave DEF Lined
<1>7. ASSUME NEW t \in Tasks, Refuse(t) PROVE Kept
  <2>1. call'[t].at = "idle" /\ \A u \in Tasks \ {t} : call'[u] = call[u]
    BY <1>0, <1>7, Ending DEF Refuse
  <2>2. call[t].at = "refused" /\ chain' = chain
    BY <1>7 DEF Refuse
  <2> QED
    BY <2>1, <2>2, ChainStill DEF Lined
<1>8. ASSUME NEW p \in Processes, Restart(p) PROVE Kept
  <2>1. chain \in [Processes -> Seq(Tasks)]
    BY <1>0 DEF BudgetInv, LimiterTypeOK
  <2>2. chain'[p] = <<>> /\ \A q \in Processes \ {p} : chain'[q] = chain[q]
    BY <1>8, <2>1 DEF Restart
  <2>3. \A t \in Tasks : Home[t] # p => call'[t] = call[t]
    BY <1>8 DEF Restart
  <2>4. \A t \in Tasks : Home[t] = p => ~Lined(call'[t])
    BY <1>8 DEF Restart, NoCall, CallAt, Lined
  <2>5. ASSUME NEW q \in Processes PROVE Orderly(q)'
    <3>1. CASE q = p
      <4>1. DOMAIN chain'[q] = {}
        BY <2>2, <3>1
      <4> QED
        BY <4>1 DEF Orderly
    <3>2. CASE q # p
      <4>1. Orderly(q) /\ chain'[q] = chain[q]
        BY <2>2, <3>2 DEF ChainInv
      <4>2. \A k \in DOMAIN chain[q] : Lined(call'[chain[q][k]])
        BY <1>0, <2>3, <3>2, <4>1, ChainTyped DEF Orderly
      <4> QED
        BY <4>1, <4>2 DEF Orderly
    <3> QED
      BY <3>1, <3>2
  <2>6. ASSUME NEW t \in Tasks, Lined(call'[t]) PROVE Places(t)' # {}
    <3>1. Home[t] \in Processes \ {p} /\ Lined(call[t])
      BY <1>0, <2>3, <2>4, <2>6, ChainTyped
    <3> QED
      BY <2>2, <3>1 DEF ChainInv, Places
  <2> QED
    BY <2>5, <2>6
<1>9. ASSUME Tick \/ UNCHANGED limiterVars PROVE Kept
  <2>1. UNCHANGED <<chain, call>>
    BY <1>9 DEF Tick, limiterVars
  <2> QED
    BY <2>1, ChainStill
<1>10. Kept
  <2> HIDE DEF Kept
  <2> QED
    BY <1>2, <1>3, <1>4, <1>5, <1>6, <1>7, <1>8, <1>9 DEF LimiterNext, Charge
<1> QED
  BY <1>0, <1>10 DEF ChainInv

LEMMA ChainServesHolds == ChainInv => ChainServes
<1> SUFFICES ASSUME ChainInv, NEW t \in Tasks
             PROVE  LET places == {k \in DOMAIN chain[Home[t]] : chain[Home[t]][k] = t} IN
                    CASE call[t].at \in {"idle", "refused"} -> places = {}
                      [] call[t].at = "queued" -> \E k \in places : places = {k}
                      [] OTHER -> places = {1}
  BY DEF ChainServes
<1>1. call[t] \in Call /\ Home[t] \in Processes /\ chain[Home[t]] \in Seq(Tasks)
  BY ChainTyped DEF ChainInv, BudgetInv, LimiterTypeOK
<1>2. Orderly(Home[t])
  BY <1>1 DEF ChainInv
<1>3. ~Lined(call[t]) => Places(t) = {}
  BY <1>2 DEF Orderly, Places
<1>4. Lined(call[t]) => \E k \in Places(t) : Places(t) = {k}
  BY <1>2 DEF ChainInv, Orderly, Places
<1>5. Active(t) => Places(t) = {1}
  <2> SUFFICES ASSUME Active(t) PROVE Places(t) = {1}
    OBVIOUS
  <2>1. InService(t) /\ Lined(call[t])
    BY DEF ChainInv, BudgetInv, Served, Active, Lined
  <2>2. 1 \in Places(t)
    BY <1>1, <2>1 DEF InService, Places
  <2> QED
    BY <1>4, <2>1, <2>2
<1>6. call[t].at \in {"idle", "refused", "queued"} \/ Active(t)
  BY <1>1 DEF Call, Stages, Active
<1>7. {k \in DOMAIN chain[Home[t]] : chain[Home[t]][k] = t} = Places(t)
  BY DEF Places
<1>8. CASE call[t].at \in {"idle", "refused"}
  BY <1>3, <1>7, <1>8 DEF Lined
<1>9. CASE call[t].at = "queued"
  BY <1>4, <1>7, <1>9 DEF Lined
<1>10. CASE Active(t)
  <2>1. call[t].at \notin {"idle", "refused", "queued"}
    BY <1>10 DEF Active
  <2> QED
    BY <1>5, <1>7, <1>10, <2>1
<1> QED
  BY <1>6, <1>8, <1>9, <1>10

(* A task is in its chain once while its call waits or is served and not at  *)
(* all afterwards, and what is served is at the head: a call that failed or  *)
(* was refused never holds up the queue behind it.                           *)
THEOREM QueueServes == LimiterSpec => []ChainServes
<1>1. LimiterInit => ChainInv
  <2> SUFFICES ASSUME LimiterInit PROVE ChainInv
    OBVIOUS
  <2>1. BudgetInv
    BY BudgetInit
  <2>2. \A t \in Tasks : ~Lined(call[t])
    BY DEF LimiterInit, NoCall, CallAt, Lined
  <2>3. \A p \in Processes : DOMAIN chain[p] = {}
    BY DEF LimiterInit
  <2> QED
    BY <2>1, <2>2, <2>3 DEF ChainInv, Orderly
<1>2. ChainInv /\ [LimiterNext]_limiterVars => ChainInv'
  BY ChainStep
<1> QED
  BY <1>1, <1>2, ChainServesHolds, PTL DEF LimiterSpec

-----------------------------------------------------------------------------
(* The jobs. *)

LEMMA StepIsLimiters ==
  ASSUME NEW t \in Tasks, Step(t)
  PROVE  LimiterNext \/ UNCHANGED limiterVars
<1>1. 1 \in 1 .. MaxCharge
  BY LimiterAssumption
<1>2. CASE EnsureHistory(t)
  BY <1>1, <1>2 DEF EnsureHistory, LimiterNext
<1>3. CASE HistoryAnswer(t) \/ LatestAnswer(t) \/ CallFails(t)
  BY <1>3 DEF HistoryAnswer, LatestAnswer, CallFails, LimiterNext
<1>4. CASE Ask(t) \/ Opportune(t) \/ InsertBars(t) \/ SavePrice(t) \/ ClearRequest(t)
           \/ TakeLatest(t) \/ LoadPending(t) \/ TakePending(t) \/ EndRefresh(t)
  BY <1>4 DEF Ask, Opportune, InsertBars, SavePrice, ClearRequest, TakeLatest, LoadPending,
              TakePending, EndRefresh
<1> QED
  BY <1>2, <1>3, <1>4 DEF Step

(* Every step of the jobs is a step of the limiter, or leaves it alone: no    *)
(* job calls the provider past it.                                           *)
THEOREM MarketUsesLimiter == Spec => LimiterSpec
<1>1. Init => LimiterInit
  BY DEF Init
<1>2. [Next]_vars => [LimiterNext]_limiterVars
  <2> SUFFICES ASSUME [Next]_vars PROVE LimiterNext \/ UNCHANGED limiterVars
    OBVIOUS
  <2>1. CASE UNCHANGED vars
    BY <2>1 DEF vars
  <2>2. ASSUME NEW t \in Requests, NEW i \in Instruments, NEW from \in AskDates,
               Request(t, i, from)
        PROVE  UNCHANGED limiterVars
    BY <2>2 DEF Request
  <2>3. ASSUME NEW t \in Tasks, RefreshPrices(t)
        PROVE  LimiterNext
    <3>1. Cardinality(Instruments) \in 1 .. MaxCharge
      BY MarketAssumption
    <3>2. Schedule(t, Cardinality(Instruments))
      BY <2>3 DEF RefreshPrices
    <3> QED
      BY <3>1, <3>2 DEF LimiterNext
  <2>4. ASSUME NEW t \in Tasks, Step(t)
        PROVE  LimiterNext \/ UNCHANGED limiterVars
    BY <2>4, StepIsLimiters
  <2>5. ASSUME NEW p \in Processes, Crash(p)
        PROVE  LimiterNext
    BY <2>5 DEF Crash, LimiterNext
  <2>6. CASE Limit
    BY <2>6 DEF Limit, LimiterNext
  <2> QED
    BY <2>1, <2>2, <2>3, <2>4, <2>5, <2>6 DEF Next
<1> QED
  BY <1>1, <1>2, PTL DEF Spec, LimiterSpec

(* Whatever jobs run, in whatever processes, the calls charged and checked on *)
(* one day keep to the budget of the day.                                    *)
THEOREM MarketBudget == Spec => []DayQuotaKept
  BY MarketUsesLimiter, DayBudget, PTL

-----------------------------------------------------------------------------
(* The rows of the instruments: what the jobs leave of them.                 *)

(* Least numbers exist, hence greatest ones of bounded sets: the theorem on  *)
(* well-founded relations stands for the induction.                          *)
NatLess == {pair \in Nat \X Nat : pair[1] < pair[2]}

LEMMA NatLessIsWellFounded == IsWellFoundedOn(NatLess, Nat)
<1>1. OpToRel(<, Nat) = NatLess
  BY DEF OpToRel, NatLess
<1> QED
  BY <1>1, NatLessThanWellFounded

LEMMA Least ==
  ASSUME NEW S, S \subseteq Nat, S # {}
  PROVE  \E x \in S : \A y \in S : x <= y
<1>1. PICK x \in S : \A y \in S : ~(<<y, x>> \in NatLess)
  BY NatLessIsWellFounded, WFMin, Zenon
<1>2. \A y \in S : y < x => <<y, x>> \in NatLess
  BY DEF NatLess
<1>3. \A y \in S : ~(y < x)
  BY <1>1, <1>2, Zenon
<1> QED
  BY <1>3

IsMax(S, m) == m \in S /\ \A x \in S : x <= m

LEMMA Greatest ==
  ASSUME NEW n \in Nat, NEW S, S \subseteq 0 .. n, S # {}
  PROVE  \E m \in 0 .. n : IsMax(S, m)
<1> DEFINE T == {k \in Nat : n - k \in S}
<1>1. T \subseteq Nat
  OBVIOUS
<1>2. PICK y \in S : TRUE
  OBVIOUS
<1>3. n - y \in T
  BY <1>2
<1>4. PICK z \in T : \A k \in T : z <= k
  BY <1>1, <1>3, Least
<1>5. ASSUME NEW x \in S PROVE n - x \in T /\ z <= n - x
  <2>1. x \in 0 .. n /\ n - x \in Nat /\ n - (n - x) = x
    OBVIOUS
  <2>2. n - x \in T
    BY <2>1
  <2> QED
    BY <1>4, <2>2
<1>6. n - z \in S /\ z \in Nat
  BY <1>4
<1>7. \A x \in S : x <= n - z
  BY <1>5, <1>6
<1> QED
  BY <1>6, <1>7 DEF IsMax

LEMMA MaxIs ==
  ASSUME NEW S, S \subseteq Nat, NEW m, IsMax(S, m)
  PROVE  Max(S) = m
<1>1. m \in S /\ \A y \in S : m >= y
  BY DEF IsMax
<1>2. \A x \in S : (\A y \in S : x >= y) => x = m
  BY <1>1
<1>3. Max(S) \in S /\ \A y \in S : Max(S) >= y
  BY <1>1, Zenon DEF Max
<1> QED
  BY <1>2, <1>3

(* The days a bounded set of days ends with.                                 *)
LEMMA MaxOfDays ==
  ASSUME NEW n \in Nat, NEW S, S \subseteq 0 .. n, S # {}
  PROVE  Max(S) \in 0 .. n /\ IsMax(S, Max(S))
<1>1. PICK m \in 0 .. n : IsMax(S, m)
  BY Greatest
<1>2. S \subseteq Nat
  OBVIOUS
<1>3. Max(S) = m
  BY <1>1, <1>2, MaxIs
<1> QED
  BY <1>1, <1>3

(* The days do not run backwards.                                            *)
LEMMA DayGrows ==
  ASSUME NEW m \in Nat
  PROVE  Day(m) \in Nat /\ Day(m + 1) \in Nat /\ Day(m) <= Day(m + 1)
<1> DEFINE k == MinutesPerDay
<1>0. k \in Nat \ {0}
  BY LimiterAssumption
<1> HIDE DEF k
<1>1. \A n \in Nat : n \div k \in Nat /\ (n \div k) * k <= n /\ n < (n \div k) * k + k
  BY <1>0, Z3
<1> QED
  BY <1>0, <1>1, Z3 DEF Day, k

-----------------------------------------------------------------------------

IsRow(r) == DOMAIN r = {"wanted", "last"} /\ r.wanted \in AskDates \cup {None}
Full(copy) == "wanted" \in DOMAIN copy
IsCopy(r) == IsRow(r) \/ DOMAIN r = {"last"}

(* What a save leaves in the row.                                            *)
LEMMA Saved ==
  ASSUME NEW copy, NEW row, IsCopy(copy), IsRow(row)
  PROVE  /\ IsRow(Over(copy, row))
         /\ Over(copy, row).last = copy.last
         /\ Over(copy, row).wanted = IF Full(copy) THEN copy.wanted ELSE row.wanted
  BY DEF IsCopy, IsRow, Over, Full

(* where a job has an instrument in hand                                     *)
Working == {"ask", "budget", "range", "insert", "price", "clear"}

JobFields == {"at", "stage", "todo", "current", "gap"}

JobShape(j) ==
  /\ j.at \in Working \/ (j.at = "calling" /\ j.stage # "latest") => j.current \in DOMAIN j.todo
  /\ j.stage = "request" => j.at # "next" /\ DOMAIN j.todo = {j.current}
  /\ j.stage = "latest" => /\ j.at \notin {"ask", "budget", "range", "clear"}
                           /\ j.at = "calling" => DOMAIN j.todo = Instruments
  /\ j.stage = "pending" => j.at \notin {"ask", "budget"}
  /\ j.gap # {} <=> (j.stage = "latest" \/ j.at \in {"calling", "insert", "price"})
  /\ j.stage # "latest" =>
       \A i \in DOMAIN j.todo : Full(j.todo[i]) /\ j.todo[i].wanted \in AskDates

JobOk(j, today) ==
  /\ DOMAIN j = JobFields /\ j.at \in Steps /\ j.stage \in JobStages
  /\ DOMAIN j.todo \subseteq Instruments /\ \A i \in DOMAIN j.todo : IsCopy(j.todo[i])
  /\ j.gap \subseteq 0 .. today
  /\ j.at # "off" => JobShape(j)

Has(j, i) == j.at # "off" /\ i \in DOMAIN j.todo
Flying(j, i) == j.at = "price" /\ j.current = i

(* A job that holds an instrument which nobody else disturbs knows its row:  *)
(* what it asks for, its last price, and that the days in hand are its last. *)
Agrees(j, i, row, days) ==
  LET copy == j.todo[i] IN
  /\ Full(copy) => IF j.at = "ask" THEN row.wanted = None \/ copy.wanted < row.wanted
                   ELSE copy.wanted = row.wanted
  /\ IF Flying(j, i) THEN IsMax(days, copy.last)
     ELSE copy.last = IF Full(copy) THEN row.last ELSE None
  /\ j.at \in {"price", "clear"} /\ j.stage # "latest" /\ j.current = i => copy.wanted \in days
  /\ j.gap # {} /\ (j.stage = "latest" \/ j.current = i) =>
       \A d \in days : \E g \in j.gap : d <= g
  /\ j.at \in {"calling", "insert"} /\ j.stage # "latest" /\ j.current = i => copy.wanted \in j.gap

(* the requests of a row stand, or are answered *)
Answers(wanted, days, dates) ==
  /\ wanted # None => wanted \in dates
  /\ \A from \in dates : \E day \in 0 .. from : day = wanted \/ day \in dates \cap days

Latest(days, last) == IF days = {} THEN last = None ELSE IsMax(days, last)

RowsTyped ==
  /\ DOMAIN instrument = Instruments /\ \A i \in Instruments : IsRow(instrument[i])
  /\ bars \in [Instruments -> SUBSET (0 .. Today)]
  /\ asked \in [Instruments -> SUBSET AskDates]
  /\ disturbed \subseteq Instruments
  /\ DOMAIN job = Tasks

RowSound(i) ==
  /\ Answers(instrument[i].wanted, bars[i], asked[i])
  /\ (\A t \in Tasks : ~Flying(job[t], i)) => Latest(bars[i], instrument[i].last)
  /\ \A t, u \in Tasks : Has(job[t], i) /\ Has(job[u], i) => t = u
  /\ \A t \in Tasks : Has(job[t], i) => Agrees(job[t], i, instrument[i], bars[i])

MarketInv ==
  /\ minute \in Nat
  /\ RowsTyped
  /\ \A t \in Tasks : JobOk(job[t], Today)
  /\ \A i \in Instruments \ disturbed : RowSound(i)

LEMMA TodayIs ==
  ASSUME minute \in Nat
  PROVE  Today \in Nat /\ FirstDay \in Nat /\ FirstDay <= Today
<1>1. Day(minute) \in Nat /\ FirstDay \in Nat
  BY DayGrows, MarketAssumption
<1> QED
  BY <1>1 DEF Today

(* A step of one task: it changes its own job, and rows it holds.  What it    *)
(* begins to hold is held by nobody else, or counts as disturbed.            *)
LEMMA TaskStep ==
  ASSUME MarketInv, NEW t \in Tasks, NEW j, job' = [job EXCEPT ![t] = j],
         UNCHANGED minute, JobOk(j, Today), RowsTyped',
         disturbed \subseteq disturbed',
         NEW C, \A i \in C : Has(job[t], i),
         \A i \in Instruments \ C :
           instrument'[i] = instrument[i] /\ bars'[i] = bars[i] /\ asked'[i] = asked[i],
         \A i \in Instruments \ disturbed' :
           /\ Has(j, i) => Has(job[t], i) \/ ~Held(i)
           /\ Has(j, i) => Agrees(j, i, instrument'[i], bars'[i])
           /\ i \in C => Answers(instrument'[i].wanted, bars'[i], asked'[i])
           /\ i \in C \/ Flying(job[t], i) =>
                Flying(j, i) \/ Latest(bars'[i], instrument'[i].last)
  PROVE  MarketInv'
<1>1. /\ DOMAIN job = Tasks /\ minute \in Nat /\ minute' = minute /\ Today' = Today
      /\ \A u \in Tasks : JobOk(job[u], Today)
  BY DEF MarketInv, RowsTyped, Today, Day
<1>2. job'[t] = j /\ \A u \in Tasks \ {t} : job'[u] = job[u]
  BY <1>1
<1>3. \A u \in Tasks : JobOk(job'[u], Today)
  BY <1>1, <1>2
<1>4. \A u \in Tasks : JobOk(job[u], Today)'
  BY <1>1, <1>3 DEF JobOk, JobShape
<1>5. ASSUME NEW i \in Instruments \ disturbed' PROVE RowSound(i)'
  <2>1. RowSound(i)
    BY <1>5 DEF MarketInv
  <2>2. \A u \in Tasks : Flying(job[u], i) => Has(job[u], i)
    BY <1>1 DEF Flying, Has, JobOk, JobShape, Working
  <2>3. \A u \in Tasks : Has(job'[u], i) => u = t \/ Has(job[u], i)
    BY <1>2
  <2>4. \A u, v \in Tasks : Has(job'[u], i) /\ Has(job'[v], i) => u = v
    <3>1. Has(j, i) => Has(job[t], i) \/ \A u \in Tasks : ~Has(job[u], i)
      BY <1>5 DEF Held, Has, At
    <3> QED
      BY <1>2, <2>1, <2>3, <3>1 DEF RowSound
  <2>5. i \in C => \A u \in Tasks \ {t} : ~Has(job[u], i)
    BY <2>1 DEF RowSound
  <2>6. \A u \in Tasks : Has(job'[u], i) => Agrees(job'[u], i, instrument'[i], bars'[i])
    <3> SUFFICES ASSUME NEW u \in Tasks, Has(job'[u], i)
                 PROVE  Agrees(job'[u], i, instrument'[i], bars'[i])
      OBVIOUS
    <3>1. CASE u = t
      BY <1>2, <1>5, <3>1
    <3>2. CASE u # t
      BY <1>2, <1>5, <2>1, <2>5, <3>2 DEF RowSound
    <3> QED
      BY <3>1, <3>2
  <2>7. Answers(instrument'[i].wanted, bars'[i], asked'[i])
    BY <1>5, <2>1 DEF RowSound
  <2>8. (\A u \in Tasks : ~Flying(job'[u], i)) => Latest(bars'[i], instrument'[i].last)
    <3> SUFFICES ASSUME \A u \in Tasks : ~Flying(job'[u], i)
                 PROVE  Latest(bars'[i], instrument'[i].last)
      OBVIOUS
    <3>1. CASE i \in C \/ Flying(job[t], i)
      BY <1>2, <1>5, <3>1
    <3>2. CASE i \notin C /\ ~Flying(job[t], i)
      <4>1. \A u \in Tasks : ~Flying(job[u], i)
        BY <1>2, <3>2
      <4> QED
        BY <1>5, <2>1, <3>2, <4>1 DEF RowSound
    <3> QED
      BY <3>1, <3>2
  <2> QED
    BY <2>4, <2>6, <2>7, <2>8 DEF RowSound, Has, Flying, Agrees, Answers, Latest
<1> QED
  BY <1>1, <1>4, <1>5 DEF MarketInv

(* A step that writes the row, or the days, of the instrument in hand.       *)
LEMMA RowStep ==
  ASSUME MarketInv, NEW t \in Tasks, NEW j, job' = [job EXCEPT ![t] = j],
         JobOk(j, Today), RowsTyped', UNCHANGED <<minute, disturbed>>,
         NEW c \in Instruments, Has(job[t], c),
         \A i \in Instruments \ {c} :
           /\ instrument'[i] = instrument[i] /\ bars'[i] = bars[i] /\ asked'[i] = asked[i]
           /\ ~Flying(job[t], i)
           /\ Has(j, i) => /\ Has(job[t], i)
                           /\ Agrees(job[t], i, instrument[i], bars[i]) =>
                                Agrees(j, i, instrument[i], bars[i]),
         c \notin disturbed =>
           /\ Has(j, c) => Agrees(j, c, instrument'[c], bars'[c])
           /\ Answers(instrument'[c].wanted, bars'[c], asked'[c])
           /\ Flying(j, c) \/ Latest(bars'[c], instrument'[c].last)
  PROVE  MarketInv'
<1>1. \A i \in Instruments \ disturbed : Has(job[t], i) => Agrees(job[t], i, instrument[i], bars[i])
  BY DEF MarketInv, RowSound
<1> DEFINE C == {c}
<1>2. /\ \A i \in C : Has(job[t], i)
      /\ \A i \in Instruments \ C :
           instrument'[i] = instrument[i] /\ bars'[i] = bars[i] /\ asked'[i] = asked[i]
      /\ disturbed \subseteq disturbed' /\ UNCHANGED minute
  OBVIOUS
<1>3. \A i \in Instruments \ disturbed' :
        /\ Has(j, i) => Has(job[t], i) \/ ~Held(i)
        /\ Has(j, i) => Agrees(j, i, instrument'[i], bars'[i])
        /\ i \in C => Answers(instrument'[i].wanted, bars'[i], asked'[i])
        /\ i \in C \/ Flying(job[t], i) =>
             Flying(j, i) \/ Latest(bars'[i], instrument'[i].last)
  BY <1>1
<1> HIDE DEF C
<1> QED
  BY <1>2, <1>3, TaskStep, Zenon

(* The job at work on an instrument that nobody disturbs.                    *)
LEMMA Undisturbed ==
  ASSUME MarketInv, NEW t \in Tasks, NEW c \in Instruments \ disturbed, Has(job[t], c)
  PROVE  /\ Agrees(job[t], c, instrument[c], bars[c])
         /\ Answers(instrument[c].wanted, bars[c], asked[c])
         /\ Flying(job[t], c) \/ Latest(bars[c], instrument[c].last)
<1>1. RowSound(c)
  BY DEF MarketInv
<1>2. \A u \in Tasks : Flying(job[u], c) => Has(job[u], c)
  BY DEF MarketInv, Flying, Has, JobOk, JobShape, Working
<1>3. \A u \in Tasks : Flying(job[u], c) => u = t
  BY <1>1, <1>2 DEF RowSound
<1> QED
  BY <1>1, <1>3 DEF RowSound

-----------------------------------------------------------------------------
(* The steps of a job, one by one                                           *)

(* A step that moves a job on without new rows or days.                      *)
LEMMA QuietStep ==
  ASSUME MarketInv, NEW t \in Tasks, NEW j, job' = [job EXCEPT ![t] = j], JobOk(j, Today),
         UNCHANGED <<minute, instrument, bars, asked>>,
         disturbed \subseteq disturbed', disturbed' \subseteq Instruments,
         \A i \in Instruments \ disturbed' :
           /\ Flying(job[t], i) => Flying(j, i)
           /\ Has(j, i) => Has(job[t], i) \/ ~Held(i)
           /\ Has(j, i) /\ (Has(job[t], i) => Agrees(job[t], i, instrument[i], bars[i])) =>
                Agrees(j, i, instrument[i], bars[i])
  PROVE  MarketInv'
<1>1. RowsTyped'
  BY DEF MarketInv, RowsTyped, Today, Day
<1>2. \A i \in Instruments \ disturbed : Has(job[t], i) => Agrees(job[t], i, instrument[i], bars[i])
  BY DEF MarketInv, RowSound
<1> DEFINE C == {}
<1>3. /\ \A i \in C : Has(job[t], i)
      /\ \A i \in Instruments \ C :
           instrument'[i] = instrument[i] /\ bars'[i] = bars[i] /\ asked'[i] = asked[i]
      /\ \A i \in Instruments \ disturbed' :
           /\ Has(j, i) => Has(job[t], i) \/ ~Held(i)
           /\ Has(j, i) => Agrees(j, i, instrument'[i], bars'[i])
           /\ i \in C => Answers(instrument'[i].wanted, bars'[i], asked'[i])
           /\ i \in C \/ Flying(job[t], i) =>
                Flying(j, i) \/ Latest(bars'[i], instrument'[i].last)
  BY <1>2
<1>4. UNCHANGED minute
  OBVIOUS
<1> HIDE DEF C
<1> QED
  BY <1>1, <1>3, <1>4, TaskStep, Zenon

(* A job that ends holds nothing any more; what it had saved is saved.       *)
LEMMA NoJobOk == JobOk(NoJob, Today) /\ \A i : ~Has(NoJob, i) /\ ~Flying(NoJob, i)
  BY DEF JobOk, NoJob, JobFields, Steps, JobStages, Has, Flying

LEMMA DoneStep ==
  ASSUME MarketInv, NEW t \in Tasks, job[t].at # "price", Done(t),
         UNCHANGED <<minute, instrument, bars, asked, disturbed>>
  PROVE  MarketInv'
<1>1. \A i : ~Flying(job[t], i)
  BY DEF Flying
<1>2. disturbed' \subseteq Instruments /\ job' = [job EXCEPT ![t] = NoJob]
  BY DEF MarketInv, RowsTyped, Done
<1> QED
  BY <1>1, <1>2, NoJobOk, QuietStep

(* What the shape of the job of t tells.                                     *)
LEMMA JobFacts ==
  ASSUME MarketInv, NEW t \in Tasks
  PROVE  /\ JobOk(job[t], Today) /\ DOMAIN job = Tasks /\ DOMAIN job[t] = JobFields
          /\ disturbed \subseteq Instruments
         /\ \A step : Goto(t, step) => job' = [job EXCEPT ![t] = [job[t] EXCEPT !.at = step]]
<1>1. JobOk(job[t], Today) /\ DOMAIN job = Tasks /\ disturbed \subseteq Instruments
  BY DEF MarketInv, RowsTyped
<1> QED
  BY <1>1 DEF JobOk, Goto

LEMMA OpportunePreserves ==
  ASSUME MarketInv, NEW t \in Tasks, Opportune(t)
  PROVE  MarketInv'
<1>1. /\ job[t].at = "budget" /\ UNCHANGED <<minute, instrument, bars, asked, disturbed>>
  BY DEF Opportune, At, limiterVars
<1>2. CASE Done(t)
  BY <1>1, <1>2, DoneStep
<1>3. CASE Goto(t, "range")
  <2> DEFINE j == [job[t] EXCEPT !.at = "range"]
  <2>1. /\ job' = [job EXCEPT ![t] = j] /\ JobOk(job[t], Today)
        /\ DOMAIN j = JobFields /\ j.at = "range" /\ j.stage = job[t].stage
        /\ j.todo = job[t].todo /\ j.current = job[t].current /\ j.gap = job[t].gap
        /\ disturbed \subseteq Instruments
    BY <1>3, JobFacts DEF JobFields
  <2> HIDE DEF j
  <2>2. JobOk(j, Today)
    BY <1>1, <2>1 DEF JobOk, JobShape, Working, Steps
  <2>3. \A i \in Instruments :
          /\ ~Flying(job[t], i)
          /\ Has(j, i) => Has(job[t], i)
          /\ Agrees(job[t], i, instrument[i], bars[i]) => Agrees(j, i, instrument[i], bars[i])
    BY <1>1, <2>1 DEF Has, Flying, Agrees
  <2> QED
    BY <1>1, <2>1, <2>2, <2>3, QuietStep
<1> QED
  BY <1>2, <1>3 DEF Opportune

LEMMA EnsureHistoryPreserves ==
  ASSUME MarketInv, NEW t \in Tasks, EnsureHistory(t)
  PROVE  MarketInv'
<1> DEFINE c == job[t].current
           from == job[t].todo[c].wanted
           gap == MissingRange(c, from, Today)
<1>1. /\ job[t].at = "range" /\ UNCHANGED <<minute, instrument, bars, asked, disturbed>>
      /\ JobOk(job[t], Today) /\ disturbed \subseteq Instruments /\ DOMAIN job[t] = JobFields
  BY JobFacts DEF EnsureHistory, At, limiterVars, Schedule
<1>2. /\ job[t].stage # "latest" /\ c \in Instruments /\ from \in AskDates /\ job[t].gap = {}
  BY <1>1 DEF JobOk, JobShape, Working
<1> HIDE DEF c, from
<1>t. Today \in Nat /\ FirstDay \in Nat /\ FirstDay <= Today
  BY TodayIs DEF MarketInv
<1>3. Today \in Nat /\ from \in 0 .. Today
  <2>1. from \in 0 .. FirstDay
    BY <1>2, MarketAssumption
  <2> QED
    BY <1>t, <2>1
<1>4. CASE gap = {}
  <2> DEFINE j == [job[t] EXCEPT !.at = "clear"]
  <2>1. /\ job' = [job EXCEPT ![t] = j]
        /\ DOMAIN j = JobFields /\ j.at = "clear" /\ j.stage = job[t].stage
        /\ j.todo = job[t].todo /\ j.current = c /\ j.gap = {}
    BY <1>1, <1>2, <1>4, JobFacts DEF JobFields, EnsureHistory, Copy, c, from
  <2>2. from \in bars[c]
    BY <1>3, <1>4 DEF MissingRange
  <2> HIDE DEF j
  <2>3. JobOk(j, Today)
    BY <1>1, <2>1 DEF JobOk, JobShape, Working, Steps, c
  <2>4. \A i \in Instruments :
          /\ ~Flying(job[t], i)
          /\ Has(j, i) => Has(job[t], i)
          /\ Agrees(job[t], i, instrument[i], bars[i]) => Agrees(j, i, instrument[i], bars[i])
    BY <1>1, <2>1, <2>2 DEF Has, Flying, Agrees, from
  <2> QED
    BY <1>1, <2>1, <2>3, <2>4, QuietStep
<1>5. CASE gap # {}
  <2> DEFINE j == [[job[t] EXCEPT !.at = "calling"] EXCEPT !.gap = gap]
  <2>1. /\ job' = [job EXCEPT ![t] = j]
        /\ DOMAIN j = JobFields /\ j.at = "calling" /\ j.stage = job[t].stage
        /\ j.todo = job[t].todo /\ j.current = c /\ j.gap = gap
    BY <1>1, <1>2, <1>5, JobFacts DEF JobFields, EnsureHistory, Copy, c, from
  <2>2. gap = from .. Today /\ bars[c] \subseteq 0 .. Today
    BY <1>2, <1>5 DEF MissingRange, MarketInv, RowsTyped
  <2>3. from \in gap /\ Today \in gap /\ gap \subseteq 0 .. Today
        /\ \A d \in bars[c] : d <= Today
    BY <1>3, <2>2
  <2> HIDE DEF j, gap
  <2>4. JobOk(j, Today)
    BY <1>1, <1>5, <2>1, <2>3 DEF JobOk, JobShape, Working, Steps, c
  <2>5. \A i \in Instruments :
          /\ ~Flying(job[t], i)
          /\ Has(j, i) => Has(job[t], i)
          /\ Agrees(job[t], i, instrument[i], bars[i]) => Agrees(j, i, instrument[i], bars[i])
    BY <1>1, <1>2, <2>1, <2>3 DEF Has, Flying, Agrees, from
  <2> QED
    BY <1>1, <2>1, <2>4, <2>5, QuietStep
<1> QED
  BY <1>4, <1>5

LEMMA HistoryAnswerPreserves ==
  ASSUME MarketInv, NEW t \in Tasks, HistoryAnswer(t)
  PROVE  MarketInv'
<1>1. /\ job[t].at = "calling" /\ job[t].stage # "latest"
      /\ UNCHANGED <<minute, instrument, bars, asked>>
      /\ JobOk(job[t], Today) /\ disturbed \subseteq Instruments /\ DOMAIN job[t] = JobFields
      /\ job[t].current \in Instruments
  BY JobFacts DEF HistoryAnswer, At, Send, JobOk, JobShape
<1>2. CASE Goto(t, "insert") /\ UNCHANGED disturbed
  <2> DEFINE j == [job[t] EXCEPT !.at = "insert"]
  <2>1. /\ job' = [job EXCEPT ![t] = j]
        /\ DOMAIN j = JobFields /\ j.at = "insert" /\ j.stage = job[t].stage
        /\ j.todo = job[t].todo /\ j.current = job[t].current /\ j.gap = job[t].gap
    BY <1>1, <1>2, JobFacts DEF JobFields
  <2> HIDE DEF j
  <2>2. JobOk(j, Today)
    BY <1>1, <2>1 DEF JobOk, JobShape, Working, Steps
  <2>3. \A i \in Instruments :
          /\ ~Flying(job[t], i)
          /\ Has(j, i) => Has(job[t], i)
          /\ Agrees(job[t], i, instrument[i], bars[i]) => Agrees(j, i, instrument[i], bars[i])
    BY <1>1, <2>1 DEF Has, Flying, Agrees
  <2> QED
    BY <1>1, <1>2, <2>1, <2>2, <2>3, QuietStep
<1>3. CASE /\ job' = [job EXCEPT ![t].at = "clear", ![t].gap = {}]
           /\ Disturb({job[t].current})
  <2> DEFINE j == [[job[t] EXCEPT !.at = "clear"] EXCEPT !.gap = {}]
  <2>1. /\ job' = [job EXCEPT ![t] = j]
        /\ DOMAIN j = JobFields /\ j.at = "clear" /\ j.stage = job[t].stage
        /\ j.todo = job[t].todo /\ j.current = job[t].current /\ j.gap = {}
    BY <1>1, <1>3, JobFacts DEF JobFields
  <2> HIDE DEF j
  <2>2. JobOk(j, Today)
    BY <1>1, <2>1 DEF JobOk, JobShape, Working, Steps
  <2>3. disturbed' = disturbed \cup {job[t].current}
    BY <1>3 DEF Disturb
  <2>4. \A i \in Instruments \ disturbed' :
          /\ ~Flying(job[t], i)
          /\ Has(j, i) => Has(job[t], i)
          /\ Agrees(job[t], i, instrument[i], bars[i]) => Agrees(j, i, instrument[i], bars[i])
    BY <1>1, <2>1, <2>3 DEF Has, Flying, Agrees
  <2> QED
    BY <1>1, <2>1, <2>2, <2>3, <2>4, QuietStep
<1> QED
  BY <1>2, <1>3 DEF HistoryAnswer

LEMMA LatestAnswerPreserves ==
  ASSUME MarketInv, NEW t \in Tasks, LatestAnswer(t)
  PROVE  MarketInv'
<1>1. /\ job[t].at = "calling" /\ job[t].stage = "latest"
      /\ UNCHANGED <<minute, instrument, bars, asked, disturbed>>
      /\ JobOk(job[t], Today) /\ disturbed \subseteq Instruments /\ DOMAIN job[t] = JobFields
  BY JobFacts DEF LatestAnswer, At, Send
<1>2. PICK answered \in SUBSET Instruments :
        job' = [job EXCEPT ![t].at = "next", ![t].todo = Restrict(@, answered)]
  BY DEF LatestAnswer
<1> DEFINE j == [[job[t] EXCEPT !.at = "next"] EXCEPT !.todo = Restrict(job[t].todo, answered)]
<1>3. /\ job' = [job EXCEPT ![t] = j]
      /\ DOMAIN j = JobFields /\ j.at = "next" /\ j.stage = "latest"
      /\ j.todo = Restrict(job[t].todo, answered)
      /\ j.current = job[t].current /\ j.gap = job[t].gap
  BY <1>1, <1>2, JobFacts DEF JobFields
<1>4. /\ DOMAIN job[t].todo = Instruments
      /\ DOMAIN j.todo = answered
      /\ \A i \in answered : j.todo[i] = job[t].todo[i]
  BY <1>1, <1>3 DEF Restrict, JobOk, JobShape
<1> HIDE DEF j
<1>5. JobOk(j, Today)
  BY <1>1, <1>3, <1>4 DEF JobOk, JobShape, Working, Steps
<1>6. \A i \in Instruments :
        /\ ~Flying(job[t], i)
        /\ Has(j, i) => Has(job[t], i)
        /\ Has(j, i) /\ Agrees(job[t], i, instrument[i], bars[i]) =>
             Agrees(j, i, instrument[i], bars[i])
  BY <1>1, <1>3, <1>4 DEF Has, Flying, Agrees
<1> QED
  BY <1>1, <1>3, <1>5, <1>6, QuietStep

LEMMA CallFailsPreserves ==
  ASSUME MarketInv, NEW t \in Tasks, CallFails(t)
  PROVE  MarketInv'
<1>1. /\ job[t].at = "calling" /\ Done(t)
      /\ UNCHANGED <<minute, instrument, bars, asked, disturbed>>
  BY DEF CallFails, At, Send, Refuse
<1> QED
  BY <1>1, DoneStep

LEMMA EndRefreshPreserves ==
  ASSUME MarketInv, NEW t \in Tasks, EndRefresh(t)
  PROVE  MarketInv'
<1>1. /\ job[t].at = "next" /\ Done(t)
      /\ UNCHANGED <<minute, instrument, bars, asked, disturbed>>
  BY DEF EndRefresh, At, limiterVars
<1> QED
  BY <1>1, DoneStep

(* A refresh takes the next instrument of its list.                          *)
LEMMA TakePreserves ==
  ASSUME MarketInv, NEW t \in Tasks, TakeLatest(t) \/ TakePending(t)
  PROVE  MarketInv'
<1>1. /\ job[t].at = "next" /\ UNCHANGED <<minute, instrument, bars, asked, disturbed>>
      /\ JobOk(job[t], Today) /\ disturbed \subseteq Instruments /\ DOMAIN job[t] = JobFields
  BY JobFacts DEF TakeLatest, TakePending, At, limiterVars
<1>2. PICK step \in {"insert", "range"}, i \in DOMAIN job[t].todo :
        /\ job' = [job EXCEPT ![t].at = step, ![t].current = i]
        /\ step = IF job[t].stage = "latest" THEN "insert" ELSE "range"
        /\ job[t].stage \in {"latest", "pending"}
  BY DEF TakeLatest, TakePending
<1> DEFINE j == [[job[t] EXCEPT !.at = step] EXCEPT !.current = i]
<1>3. /\ job' = [job EXCEPT ![t] = j]
      /\ DOMAIN j = JobFields /\ j.at = step /\ j.stage = job[t].stage
      /\ j.todo = job[t].todo /\ j.current = i /\ j.gap = job[t].gap
  BY <1>1, <1>2, JobFacts DEF JobFields
<1> HIDE DEF j
<1>4. JobOk(j, Today)
  BY <1>1, <1>2, <1>3 DEF JobOk, JobShape, Working, Steps
<1>5. \A h \in Instruments :
        /\ ~Flying(job[t], h)
        /\ Has(j, h) => Has(job[t], h)
        /\ Agrees(job[t], h, instrument[h], bars[h]) => Agrees(j, h, instrument[h], bars[h])
  BY <1>1, <1>2, <1>3 DEF Has, Flying, Agrees, JobOk, JobShape
<1> QED
  BY <1>1, <1>3, <1>4, <1>5, QuietStep

-----------------------------------------------------------------------------
(* The steps that write rows and days                                       *)

(* The steps of a request before it looks for history.                       *)
LEMMA AskPreserves ==
  ASSUME MarketInv, NEW t \in Tasks, Ask(t)
  PROVE  MarketInv'
<1> DEFINE c == job[t].current
           copy == job[t].todo[c]
           row == instrument[c]
           j == [job[t] EXCEPT !.at = "budget"]
<1>1. /\ job[t].at = "ask" /\ UNCHANGED <<minute, bars, disturbed>>
      /\ JobOk(job[t], Today) /\ disturbed \subseteq Instruments /\ DOMAIN job[t] = JobFields
      /\ instrument' = [instrument EXCEPT ![c] = Over(copy, row)]
      /\ asked' = [asked EXCEPT ![c] = asked[c] \cup {copy.wanted}]
  BY JobFacts DEF Ask, At, limiterVars, Save, Copy
<1>2. /\ job[t].stage = "request" /\ c \in Instruments /\ DOMAIN job[t].todo = {c}
      /\ IsCopy(copy) /\ Full(copy) /\ copy.wanted \in AskDates /\ job[t].gap = {}
  BY <1>1 DEF JobOk, JobShape, Working, JobStages
<1>3. /\ job' = [job EXCEPT ![t] = j]
      /\ DOMAIN j = JobFields /\ j.at = "budget" /\ j.stage = "request"
      /\ j.todo = job[t].todo /\ j.current = c /\ j.gap = {}
  BY <1>1, <1>2, JobFacts DEF JobFields, Ask
<1> HIDE DEF j, c
<1>4. JobOk(j, Today)
  BY <1>1, <1>2, <1>3 DEF JobOk, JobShape, Working, Steps
<1>5. /\ DOMAIN instrument = Instruments /\ \A i \in Instruments : IsRow(instrument[i])
      /\ bars \in [Instruments -> SUBSET (0 .. Today)]
      /\ asked \in [Instruments -> SUBSET AskDates]
      /\ DOMAIN job = Tasks
  BY DEF MarketInv, RowsTyped
<1>6. /\ DOMAIN instrument' = Instruments
      /\ instrument'[c] = Over(copy, row) /\ asked'[c] = asked[c] \cup {copy.wanted}
      /\ \A i \in Instruments \ {c} : instrument'[i] = instrument[i] /\ asked'[i] = asked[i]
      /\ asked' \in [Instruments -> SUBSET AskDates]
  BY <1>1, <1>2, <1>5
<1>7. IsRow(instrument'[c]) /\ instrument'[c].wanted = copy.wanted /\ instrument'[c].last = copy.last
  BY <1>2, <1>5, <1>6, Saved
<1>8. RowsTyped'
  BY <1>1, <1>3, <1>5, <1>6, <1>7 DEF RowsTyped, Today, Day, IsRow
<1>9. Has(job[t], c) /\ \A i \in Instruments : Has(j, i) => i = c
  BY <1>1, <1>2, <1>3 DEF Has
<1>10. ASSUME c \notin disturbed
       PROVE  /\ Agrees(j, c, instrument'[c], bars'[c])
              /\ Answers(instrument'[c].wanted, bars'[c], asked'[c])
              /\ Latest(bars'[c], instrument'[c].last)
  <2>2. /\ Agrees(job[t], c, row, bars[c]) /\ ~Flying(job[t], c)
        /\ Answers(row.wanted, bars[c], asked[c]) /\ Latest(bars[c], row.last)
    BY <1>1, <1>2, <1>9, <1>10, Undisturbed DEF Flying
  <2>3. /\ row.wanted = None \/ copy.wanted < row.wanted
        /\ copy.last = row.last
    BY <1>1, <1>2, <2>2 DEF Agrees, Flying
  <2>4. Agrees(j, c, instrument'[c], bars'[c])
    BY <1>1, <1>2, <1>3, <1>7, <2>3 DEF Agrees, Flying
  <2>6. Latest(bars'[c], instrument'[c].last)
    BY <1>1, <1>7, <2>2, <2>3
  <2>7. Answers(instrument'[c].wanted, bars'[c], asked'[c])
    <3> DEFINE w == copy.wanted
    <3>2. AskDates \subseteq Nat /\ None \notin Nat
      BY MarketAssumption
    <3>3. asked[c] \subseteq Nat /\ w \in Nat
      BY <1>2, <1>5, <3>2
    <3>4. ASSUME NEW from \in asked'[c]
          PROVE  \E day \in 0 .. from : day = w \/ day \in asked'[c] \cap bars[c]
      <4>1. CASE from = w
        BY <3>3, <4>1
      <4>2. CASE from \in asked[c]
        <5>1. PICK day \in 0 .. from : day = row.wanted \/ day \in asked[c] \cap bars[c]
          BY <2>2, <4>2 DEF Answers
        <5>2. CASE day = row.wanted
          <6>1. w < day
            BY <2>3, <3>2, <5>1, <5>2
          <6>2. w \in 0 .. from
            BY <3>3, <4>2, <5>1, <6>1
          <6> QED
            BY <6>2
        <5>3. CASE day \in asked[c] \cap bars[c]
          BY <1>6, <5>1, <5>3
        <5> QED
          BY <5>1, <5>2, <5>3
      <4> QED
        BY <1>6, <4>1, <4>2
    <3> QED
      BY <1>1, <1>6, <1>7, <3>4 DEF Answers
  <2> QED
    BY <2>4, <2>6, <2>7
<1>11. \A i \in Instruments \ {c} :
         /\ instrument'[i] = instrument[i] /\ bars'[i] = bars[i] /\ asked'[i] = asked[i]
         /\ ~Flying(job[t], i) /\ ~Has(j, i)
  BY <1>1, <1>6, <1>9 DEF Flying
<1> QED
  BY <1>1, <1>2, <1>3, <1>4, <1>8, <1>9, <1>10, <1>11, RowStep

(* A job of which the current instrument is off the list goes on with the    *)
(* others as before.                                                        *)
LEMMA Dropped ==
  ASSUME NEW today, NEW k, JobOk(k, today), k.stage # "request", k.at \in {"insert", "price", "clear"},
         k.stage = "pending" => k.at = "clear"
  PROVE  /\ JobOk(Drop(k), today) /\ ~Has(Drop(k), k.current)
         /\ \A i : ~Flying(Drop(k), i)
         /\ \A i \in Instruments \ {k.current} : Has(Drop(k), i) =>
              /\ Has(k, i)
              /\ \A row, days : Agrees(k, i, row, days) => Agrees(Drop(k), i, row, days)
<1> DEFINE todo == Restrict(k.todo, DOMAIN k.todo \ {k.current})
           j == Drop(k)
<1>1. /\ DOMAIN k = JobFields
      /\ DOMAIN j = JobFields /\ j.at = "next" /\ j.stage = k.stage
      /\ j.todo = todo /\ j.current = None /\ j.gap = k.gap
  BY DEF JobOk, Drop, JobFields
<1>2. /\ DOMAIN todo = DOMAIN k.todo \ {k.current}
      /\ \A i \in DOMAIN todo : todo[i] = k.todo[i]
  BY DEF Restrict
<1> HIDE DEF j, todo
<1>3. JobOk(j, today)
  BY <1>1, <1>2 DEF JobOk, JobShape, Working, Steps, JobStages
<1>4. ~Has(j, k.current) /\ \A i : ~Flying(j, i)
  BY <1>1, <1>2 DEF Has, Flying
<1>5. ASSUME NEW i \in Instruments \ {k.current}, Has(j, i)
      PROVE  /\ Has(k, i)
             /\ \A row, days : Agrees(k, i, row, days) => Agrees(j, i, row, days)
  <2>1. Has(k, i) /\ j.todo[i] = k.todo[i] /\ ~Flying(k, i)
    BY <1>1, <1>2, <1>5 DEF Has, Flying
  <2>2. i # k.current /\ (j.stage # "latest" => j.gap = {})
    BY <1>1 DEF JobOk, JobShape, JobStages
  <2> QED
    BY <1>1, <1>4, <2>1, <2>2 DEF Agrees
<1> QED
  BY <1>3, <1>4, <1>5 DEF j

(* The bars of an instrument are stored: its job drops it, or clears its     *)
(* request next.                                                            *)
LEMMA StoredJob ==
  ASSUME NEW today, NEW k, JobOk(k, today), k.at \in {"insert", "price"}
  PROVE  /\ JobOk(Stored(k), today) /\ \A i : ~Flying(Stored(k), i)
         /\ \A i \in Instruments \ {k.current} : Has(Stored(k), i) =>
              /\ Has(k, i)
              /\ \A row, days : Agrees(k, i, row, days) => Agrees(Stored(k), i, row, days)
         /\ Has(Stored(k), k.current) =>
              /\ k.stage # "latest" /\ Stored(k).stage = k.stage /\ Stored(k).at = "clear"
              /\ Stored(k).todo = k.todo /\ Stored(k).gap = {}
<1>1. CASE k.stage = "latest"
  <2>1. Stored(k) = Drop(k)
    BY <1>1 DEF Stored
  <2> QED
    BY <1>1, <2>1, Dropped
<1>2. CASE k.stage # "latest"
  <2> DEFINE j == [[k EXCEPT !.at = "clear"] EXCEPT !.gap = {}]
  <2>1. /\ Stored(k) = j /\ DOMAIN j = JobFields /\ j.at = "clear" /\ j.stage = k.stage
        /\ j.todo = k.todo /\ j.current = k.current /\ j.gap = {}
    BY <1>2 DEF Stored, JobOk, JobFields
  <2> HIDE DEF j
  <2>2. JobOk(j, today)
    BY <1>2, <2>1 DEF JobOk, JobShape, Working, Steps, JobStages
  <2>3. \A i : ~Flying(j, i)
    BY <2>1 DEF Flying
  <2>4. \A i \in Instruments \ {k.current} : Has(j, i) =>
          /\ Has(k, i)
          /\ \A row, days : Agrees(k, i, row, days) => Agrees(j, i, row, days)
    BY <1>2, <2>1 DEF Has, Agrees, Flying
  <2> QED
    BY <1>2, <2>1, <2>2, <2>3, <2>4
<1> QED
  BY <1>1, <1>2

(* The bars of an answer: the last of them becomes the price when it is not  *)
(* older than the one the job knows.                                         *)
LEMMA InsertBarsPreserves ==
  ASSUME MarketInv, NEW t \in Tasks, InsertBars(t)
  PROVE  MarketInv'
<1> DEFINE c == job[t].current
           copy == job[t].todo[c]
           gap == job[t].gap
           latest == Max(gap)
           row == instrument[c]
<1>1. /\ job[t].at = "insert" /\ UNCHANGED <<minute, instrument, asked, disturbed>>
      /\ JobOk(job[t], Today) /\ DOMAIN job = Tasks /\ DOMAIN job[t] = JobFields
      /\ bars' = [bars EXCEPT ![c] = bars[c] \cup gap]
  BY JobFacts DEF InsertBars, At, limiterVars
<1>2. /\ c \in Instruments /\ c \in DOMAIN job[t].todo /\ IsCopy(copy)
      /\ gap # {} /\ gap \subseteq 0 .. Today
      /\ job[t].stage # "latest" => Full(copy) /\ copy.wanted \in AskDates
  BY <1>1 DEF JobOk, JobShape, Working
<1>3. Today \in Nat
  BY TodayIs DEF MarketInv
<1>4. latest \in 0 .. Today /\ IsMax(gap, latest)
  BY <1>2, <1>3, MaxOfDays
<1>5. /\ DOMAIN instrument = Instruments /\ \A i \in Instruments : IsRow(instrument[i])
      /\ bars \in [Instruments -> SUBSET (0 .. Today)]
      /\ asked \in [Instruments -> SUBSET AskDates]
      /\ disturbed \subseteq Instruments
  BY DEF MarketInv, RowsTyped
<1>6. /\ bars'[c] = bars[c] \cup gap /\ \A i \in Instruments \ {c} : bars'[i] = bars[i]
      /\ bars' \in [Instruments -> SUBSET (0 .. Today)]
  BY <1>1, <1>2, <1>5
<1> DEFINE fresh == [copy EXCEPT !.last = latest]
           todo == [job[t].todo EXCEPT ![c] = fresh]
           j == IF Fresher(copy, latest)
                THEN [[job[t] EXCEPT !.at = "price"] EXCEPT !.todo = todo]
                ELSE Stored(job[t])
<1>7. job' = [job EXCEPT ![t] = j]
  BY <1>1 DEF InsertBars, Copy, LatestOf, JobFields
<1>8. RowsTyped'
  BY <1>1, <1>5, <1>6, <1>7 DEF RowsTyped, Today, Day, IsRow
<1>9. Has(job[t], c) /\ \A i : ~Flying(job[t], i)
  BY <1>1, <1>2 DEF Has, Flying
<1> HIDE DEF latest
<1>10. c \notin disturbed =>
         /\ Agrees(job[t], c, row, bars[c])
         /\ Answers(row.wanted, bars[c], asked[c]) /\ Latest(bars[c], row.last)
  BY <1>2, <1>9, Undisturbed
<1>11. c \notin disturbed =>
         /\ IsMax(bars'[c], latest)
         /\ \A d \in bars'[c] : \E g \in gap : d <= g
         /\ job[t].stage # "latest" => copy.wanted \in bars'[c]
         /\ Answers(row.wanted, bars'[c], asked[c])
  <2> SUFFICES ASSUME c \notin disturbed
               PROVE  /\ IsMax(bars'[c], latest)
                      /\ \A d \in bars'[c] : \E g \in gap : d <= g
                      /\ job[t].stage # "latest" => copy.wanted \in bars'[c]
                      /\ Answers(row.wanted, bars'[c], asked[c])
    OBVIOUS
  <2>1. /\ \A d \in bars[c] : \E g \in gap : d <= g
        /\ job[t].stage # "latest" => copy.wanted \in gap
    BY <1>1, <1>2, <1>10 DEF Agrees
  <2>2. gap \subseteq Nat /\ bars[c] \subseteq Nat
    BY <1>2, <1>3, <1>5
  <2>3. \A d \in bars[c] : d <= latest
    BY <1>4, <2>1, <2>2 DEF IsMax
  <2>4. IsMax(bars'[c], latest)
    BY <1>4, <1>6, <2>3 DEF IsMax
  <2>5. \A d \in bars'[c] : \E g \in gap : d <= g
    BY <1>6, <2>1, <2>2
  <2>6. Answers(row.wanted, bars'[c], asked[c])
    BY <1>6, <1>10 DEF Answers
  <2> QED
    BY <1>6, <2>1, <2>4, <2>5, <2>6
<1> HIDE DEF c, gap
<1>12. CASE Fresher(copy, latest)
  <2>1. /\ DOMAIN j = JobFields /\ j.at = "price" /\ j.stage = job[t].stage
        /\ j.todo = todo /\ j.current = c /\ j.gap = gap
    BY <1>1, <1>12 DEF JobFields, c, gap
  <2>2. /\ DOMAIN todo = DOMAIN job[t].todo /\ todo[c] = fresh
        /\ \A i \in DOMAIN todo : i # c => todo[i] = job[t].todo[i]
    BY <1>2
  <2>3. /\ IsCopy(fresh) /\ fresh.last = latest /\ (Full(fresh) <=> Full(copy))
        /\ Full(copy) => fresh.wanted = copy.wanted
    BY <1>2 DEF IsCopy, IsRow, Full
  <2> HIDE DEF j, todo, fresh
  <2>4. JobOk(j, Today)
    <3>1. \A i \in DOMAIN todo : IsCopy(todo[i])
      BY <1>1, <2>2, <2>3 DEF JobOk
    <3>2. job[t].stage # "latest" =>
            \A i \in DOMAIN todo : Full(todo[i]) /\ todo[i].wanted \in AskDates
      BY <1>1, <1>2, <2>2, <2>3 DEF JobOk, JobShape
    <3>3. JobShape(j)
      BY <1>1, <1>2, <2>1, <2>2, <3>2 DEF JobOk, JobShape, Working, c
    <3> QED
      BY <1>1, <1>2, <2>1, <2>2, <3>1, <3>3 DEF JobOk, Steps
  <2>5. \A i \in Instruments \ {c} :
          /\ instrument'[i] = instrument[i] /\ bars'[i] = bars[i] /\ asked'[i] = asked[i]
          /\ ~Flying(job[t], i)
          /\ Has(j, i) => /\ Has(job[t], i)
                          /\ Agrees(job[t], i, instrument[i], bars[i]) =>
                               Agrees(j, i, instrument[i], bars[i])
    <3> SUFFICES ASSUME NEW i \in Instruments \ {c}
                 PROVE  Has(j, i) => /\ Has(job[t], i)
                                     /\ Agrees(job[t], i, instrument[i], bars[i]) =>
                                          Agrees(j, i, instrument[i], bars[i])
      BY <1>1, <1>6, <1>9
    <3>1. Has(j, i) => Has(job[t], i) /\ j.todo[i] = job[t].todo[i]
      BY <1>1, <2>1, <2>2 DEF Has
    <3> QED
      BY <1>1, <2>1, <3>1 DEF Agrees, Flying, c, gap
  <2>6. c \notin disturbed =>
          /\ Agrees(j, c, instrument'[c], bars'[c])
          /\ Answers(instrument'[c].wanted, bars'[c], asked'[c])
          /\ Flying(j, c)
    <3> SUFFICES ASSUME c \notin disturbed PROVE Agrees(j, c, instrument'[c], bars'[c])
      BY <1>1, <1>11, <2>1 DEF Flying
    <3>1. j.todo[c] = fresh /\ Flying(j, c)
      BY <2>1, <2>2 DEF Flying
    <3>2. Full(copy) => copy.wanted = row.wanted
      BY <1>1, <1>10 DEF Agrees, c
    <3>3. job[t].stage # "latest" => fresh.wanted \in bars'[c]
      BY <1>2, <1>11, <2>3
    <3> QED
      BY <1>1, <1>11, <2>1, <2>3, <3>1, <3>2, <3>3 DEF Agrees
  <2>7. c \notin disturbed =>
          /\ Has(j, c) => Agrees(j, c, instrument'[c], bars'[c])
          /\ Answers(instrument'[c].wanted, bars'[c], asked'[c])
          /\ Flying(j, c) \/ Latest(bars'[c], instrument'[c].last)
    BY <2>6
  <2>8. c \in Instruments /\ Has(job[t], c) /\ UNCHANGED <<minute, disturbed>>
    BY <1>1, <1>2, <1>9
  <2> HIDE DEF Fresher
  <2> QED
    BY <1>7, <1>8, <2>4, <2>5, <2>7, <2>8, RowStep
<1>13. CASE ~Fresher(copy, latest)
  <2>1. c \in disturbed
    <3> SUFFICES ASSUME c \notin disturbed PROVE FALSE
      BY <1>2
    <3>1. copy.last # None /\ ~(latest >= copy.last)
      BY <1>13 DEF Fresher
    <3>2. copy.last = row.last
      BY <1>9, <1>10, <3>1 DEF Agrees, c
    <3>3. IsMax(bars[c], copy.last)
      BY <1>10, <3>1, <3>2 DEF Latest
    <3>4. copy.last \in bars'[c] /\ copy.last \in Nat
      BY <1>3, <1>5, <1>6, <1>2, <3>3 DEF IsMax
    <3> QED
      BY <1>4, <1>11, <3>1, <3>4 DEF IsMax
  <2>2. j = Stored(job[t])
    BY <1>13
  <2>3. /\ JobOk(j, Today)
        /\ \A i \in Instruments \ {c} : Has(j, i) =>
             /\ Has(job[t], i)
             /\ Agrees(job[t], i, instrument[i], bars[i]) =>
                  Agrees(j, i, instrument[i], bars[i])
    BY <1>1, <2>2, StoredJob DEF c
  <2> HIDE DEF j
  <2>4. \A i \in Instruments \ {c} :
          /\ instrument'[i] = instrument[i] /\ bars'[i] = bars[i] /\ asked'[i] = asked[i]
          /\ ~Flying(job[t], i)
          /\ Has(j, i) => /\ Has(job[t], i)
                          /\ Agrees(job[t], i, instrument[i], bars[i]) =>
                               Agrees(j, i, instrument[i], bars[i])
    BY <1>1, <1>6, <1>9, <2>3
  <2> QED
    BY <1>1, <1>2, <1>7, <1>8, <1>9, <2>1, <2>3, <2>4, RowStep
<1> QED
  BY <1>12, <1>13

(* A save of the copy in hand, when the row is the one in hand.              *)
LEMMA SaveFacts ==
  ASSUME MarketInv, NEW c \in Instruments, NEW copy, IsCopy(copy), Save(c, copy),
         UNCHANGED <<minute, bars, asked, disturbed>>, DOMAIN job' = Tasks
  PROVE  /\ RowsTyped'
         /\ instrument'[c].last = copy.last
         /\ instrument'[c].wanted = IF Full(copy) THEN copy.wanted ELSE instrument[c].wanted
         /\ \A i \in Instruments \ {c} : instrument'[i] = instrument[i]
<1>1. /\ DOMAIN instrument = Instruments /\ \A i \in Instruments : IsRow(instrument[i])
      /\ bars \in [Instruments -> SUBSET (0 .. Today)]
      /\ asked \in [Instruments -> SUBSET AskDates]
      /\ disturbed \subseteq Instruments
  BY DEF MarketInv, RowsTyped
<1>2. /\ DOMAIN instrument' = Instruments /\ instrument'[c] = Over(copy, instrument[c])
      /\ \A i \in Instruments \ {c} : instrument'[i] = instrument[i]
  BY <1>1 DEF Save
<1>3. /\ IsRow(instrument'[c]) /\ instrument'[c].last = copy.last
      /\ instrument'[c].wanted = IF Full(copy) THEN copy.wanted ELSE instrument[c].wanted
  BY <1>1, <1>2, Saved
<1>4. RowsTyped'
  BY <1>1, <1>2, <1>3 DEF RowsTyped, Today, Day, IsRow
<1> QED
  BY <1>2, <1>3, <1>4

(* The new price reaches the row.                                            *)
LEMMA SavePricePreserves ==
  ASSUME MarketInv, NEW t \in Tasks, SavePrice(t)
  PROVE  MarketInv'
<1> DEFINE c == job[t].current
           copy == job[t].todo[c]
           row == instrument[c]
           j == Stored(job[t])
<1>1. /\ job[t].at = "price" /\ UNCHANGED <<minute, bars, asked, disturbed>>
      /\ JobOk(job[t], Today) /\ DOMAIN job = Tasks /\ DOMAIN job[t] = JobFields
      /\ Save(c, copy) /\ job' = [job EXCEPT ![t] = j]
  BY JobFacts DEF SavePrice, At, limiterVars, Copy
<1>2. /\ c \in Instruments /\ c \in DOMAIN job[t].todo /\ IsCopy(copy)
      /\ job[t].stage # "latest" => Full(copy)
  BY <1>1 DEF JobOk, JobShape, Working
<1>3. /\ Has(job[t], c) /\ Flying(job[t], c)
      /\ \A i \in Instruments \ {c} : ~Flying(job[t], i)
  BY <1>1, <1>2 DEF Has, Flying
<1>4. DOMAIN job' = Tasks
  BY <1>1
<1>5. /\ RowsTyped' /\ instrument'[c].last = copy.last
      /\ instrument'[c].wanted = IF Full(copy) THEN copy.wanted ELSE row.wanted
      /\ \A i \in Instruments \ {c} : instrument'[i] = instrument[i]
  BY <1>1, <1>2, <1>4, SaveFacts
<1> HIDE DEF c
<1>6. /\ JobOk(j, Today)
      /\ \A i \in Instruments \ {c} : Has(j, i) =>
           /\ Has(job[t], i)
           /\ Agrees(job[t], i, instrument[i], bars[i]) => Agrees(j, i, instrument[i], bars[i])
      /\ Has(j, c) => /\ job[t].stage # "latest" /\ j.stage = job[t].stage /\ j.at = "clear"
                      /\ j.todo = job[t].todo /\ j.gap = {}
      /\ ~Flying(j, c)
  BY <1>1, StoredJob DEF c
<1> HIDE DEF j
<1>7. ASSUME c \notin disturbed
      PROVE  /\ Has(j, c) => Agrees(j, c, instrument'[c], bars'[c])
             /\ Answers(instrument'[c].wanted, bars'[c], asked'[c])
             /\ Latest(bars'[c], instrument'[c].last)
  <2>1. Agrees(job[t], c, row, bars[c]) /\ Answers(row.wanted, bars[c], asked[c])
    BY <1>2, <1>3, <1>7, Undisturbed
  <2>2. /\ Full(copy) => copy.wanted = row.wanted
        /\ IsMax(bars[c], copy.last)
        /\ job[t].stage # "latest" => copy.wanted \in bars[c]
    BY <1>1, <1>3, <2>1 DEF Agrees, c
  <2>3. instrument'[c].wanted = row.wanted
    BY <1>5, <2>2
  <2>4. Latest(bars'[c], instrument'[c].last)
    BY <1>1, <1>5, <2>2 DEF Latest, IsMax
  <2>5. Has(j, c) => Agrees(j, c, instrument'[c], bars'[c])
    BY <1>1, <1>2, <1>5, <1>6, <2>2, <2>3 DEF Agrees
  <2> QED
    BY <1>1, <2>1, <2>3, <2>4, <2>5
<1>8. \A i \in Instruments \ {c} :
        /\ instrument'[i] = instrument[i] /\ bars'[i] = bars[i] /\ asked'[i] = asked[i]
        /\ ~Flying(job[t], i)
        /\ Has(j, i) => /\ Has(job[t], i)
                        /\ Agrees(job[t], i, instrument[i], bars[i]) =>
                             Agrees(j, i, instrument[i], bars[i])
  BY <1>1, <1>3, <1>5, <1>6
<1> QED
  BY <1>1, <1>2, <1>3, <1>5, <1>6, <1>7, <1>8, RowStep

(* The request leaves the row: the day it asked for is stored, or nothing    *)
(* came and the instrument counts as disturbed.                              *)
LEMMA ClearRequestPreserves ==
  ASSUME MarketInv, NEW t \in Tasks, ClearRequest(t)
  PROVE  MarketInv'
<1> DEFINE c == job[t].current
           copy == job[t].todo[c]
           cleared == [copy EXCEPT !.wanted = None]
           row == instrument[c]
           j == IF job[t].stage = "request" THEN NoJob ELSE Drop(job[t])
<1>1. /\ job[t].at = "clear" /\ UNCHANGED <<minute, bars, asked, disturbed>>
      /\ JobOk(job[t], Today) /\ DOMAIN job = Tasks /\ DOMAIN job[t] = JobFields
      /\ Save(c, cleared) /\ job' = [job EXCEPT ![t] = j]
  BY JobFacts DEF ClearRequest, At, limiterVars, Copy, Done
<1>2. /\ c \in Instruments /\ c \in DOMAIN job[t].todo /\ job[t].stage # "latest"
      /\ IsRow(copy) /\ Full(copy) /\ copy.wanted \in AskDates
      /\ job[t].stage = "request" => DOMAIN job[t].todo = {c}
  BY <1>1 DEF JobOk, JobShape, Working, IsCopy, Full
<1>3. /\ Has(job[t], c) /\ \A i : ~Flying(job[t], i)
  BY <1>1, <1>2 DEF Has, Flying
<1>4. DOMAIN job' = Tasks
  BY <1>1
<1>5. IsRow(cleared) /\ IsCopy(cleared) /\ Full(cleared) /\ cleared.wanted = None /\ cleared.last = copy.last
  BY <1>2 DEF IsCopy, IsRow, Full
<1> HIDE DEF c, cleared
<1>6. /\ RowsTyped' /\ instrument'[c].last = copy.last /\ instrument'[c].wanted = None
      /\ \A i \in Instruments \ {c} : instrument'[i] = instrument[i]
  BY <1>1, <1>2, <1>4, <1>5, SaveFacts
<1>7. /\ JobOk(j, Today) /\ ~Has(j, c)
      /\ \A i \in Instruments \ {c} : Has(j, i) =>
           /\ Has(job[t], i)
           /\ Agrees(job[t], i, instrument[i], bars[i]) => Agrees(j, i, instrument[i], bars[i])
  BY <1>1, NoJobOk, Dropped DEF c
<1> HIDE DEF j
<1>8. ASSUME c \notin disturbed
      PROVE  /\ Answers(instrument'[c].wanted, bars'[c], asked'[c])
             /\ Latest(bars'[c], instrument'[c].last)
  <2>1. /\ Agrees(job[t], c, row, bars[c]) /\ Answers(row.wanted, bars[c], asked[c])
        /\ Latest(bars[c], row.last)
    BY <1>2, <1>3, <1>8, Undisturbed
  <2>2. copy.wanted = row.wanted /\ copy.wanted \in bars[c] /\ copy.last = row.last
    BY <1>1, <1>2, <1>3, <2>1 DEF Agrees, c
  <2>3. row.wanted # None
    <3>1. AskDates \subseteq Nat /\ None \notin Nat
      BY MarketAssumption
    <3> HIDE DEF copy
    <3>2. copy.wanted \in Nat
      BY <1>2, <3>1
    <3> QED
      BY <2>2, <3>1, <3>2
  <2>4. row.wanted \in asked[c] \cap bars[c]
    BY <2>1, <2>2, <2>3 DEF Answers
  <2>5. Answers(None, bars[c], asked[c])
    BY <2>1, <2>4 DEF Answers
  <2> QED
    BY <1>1, <1>6, <2>1, <2>2, <2>5
<1>9. \A i \in Instruments \ {c} :
        /\ instrument'[i] = instrument[i] /\ bars'[i] = bars[i] /\ asked'[i] = asked[i]
        /\ ~Flying(job[t], i)
        /\ Has(j, i) => /\ Has(job[t], i)
                        /\ Agrees(job[t], i, instrument[i], bars[i]) =>
                             Agrees(j, i, instrument[i], bars[i])
  BY <1>1, <1>3, <1>6, <1>7
<1> QED
  BY <1>1, <1>2, <1>3, <1>6, <1>7, <1>8, <1>9, RowStep

-----------------------------------------------------------------------------
(* The steps that take rows in hand, and those of the processes             *)

LEMMA HeldIs == \A i : Held(i) <=> \E t \in Tasks : Has(job[t], i)
  BY DEF Held, Has, At

LEMMA RequestPreserves ==
  ASSUME MarketInv, NEW t \in Tasks, NEW c \in Instruments, NEW from \in AskDates,
         Request(t, c, from)
  PROVE  MarketInv'
<1>1. /\ job[t].at = "off" /\ UNCHANGED <<minute, instrument, bars>>
      /\ JobOk(job[t], Today) /\ DOMAIN job = Tasks /\ disturbed \subseteq Instruments
      /\ IsRow(instrument[c])
  BY JobFacts DEF Request, Idle, limiterVars, MarketInv, RowsTyped
<1>2. /\ bars \in [Instruments -> SUBSET (0 .. Today)]
      /\ asked \in [Instruments -> SUBSET AskDates]
      /\ DOMAIN instrument = Instruments /\ \A i \in Instruments : IsRow(instrument[i])
  BY DEF MarketInv, RowsTyped
<1>3. AskDates \subseteq Nat /\ None \notin Nat
  BY MarketAssumption
<1>4. CASE AlreadyAsked(c, from)
  <2>1. /\ asked' = [asked EXCEPT ![c] = asked[c] \cup {from}]
        /\ UNCHANGED <<job, disturbed>>
    BY <1>4 DEF Request
  <2>2. /\ asked'[c] = asked[c] \cup {from} /\ \A i \in Instruments \ {c} : asked'[i] = asked[i]
        /\ asked' \in [Instruments -> SUBSET AskDates]
    BY <1>2, <2>1
  <2>3. RowsTyped' /\ \A u \in Tasks : JobOk(job[u], Today)'
    BY <1>1, <1>2, <2>1, <2>2 DEF MarketInv, RowsTyped, Today, Day, JobOk, JobShape, IsRow
  <2>4. ASSUME NEW i \in Instruments, Answers(instrument[i].wanted, bars[i], asked[i])
        PROVE  Answers(instrument[i].wanted, bars[i], asked'[i])
    <3>1. CASE i # c
      BY <2>2, <2>4, <3>1
    <3>2. CASE i = c
      <4> DEFINE w == instrument[c].wanted
      <4>1. w # None /\ w <= from
        BY <1>4 DEF AlreadyAsked
      <4>2. w \in Nat /\ from \in Nat
        BY <1>1, <1>3, <4>1 DEF IsRow
      <4>3. w \in 0 .. from
        BY <4>1, <4>2
      <4> QED
        BY <2>2, <2>4, <3>2, <4>3 DEF Answers
    <3> QED
      BY <3>1, <3>2
  <2>5. ASSUME NEW i \in Instruments \ disturbed' PROVE RowSound(i)'
    <3>1. RowSound(i)
      BY <2>1, <2>5 DEF MarketInv
    <3>2. Answers(instrument'[i].wanted, bars'[i], asked'[i])
      BY <1>1, <2>4, <3>1 DEF RowSound
    <3> QED
      BY <1>1, <2>1, <3>1, <3>2 DEF RowSound, Has, Flying, Agrees, Answers, Latest
  <2> QED
    BY <1>1, <2>3, <2>5 DEF MarketInv
<1>5. CASE ~AlreadyAsked(c, from)
  <2> DEFINE copy == [instrument[c] EXCEPT !.wanted = from]
             j == [NoJob EXCEPT !.at = "ask", !.current = c, !.todo = [x \in {c} |-> copy]]
  <2>1. /\ job' = [job EXCEPT ![t] = j] /\ UNCHANGED asked
        /\ disturbed' = disturbed \cup ({c} \cap {h \in Instruments : Held(h)})
    <3>1. [x \in {c} |-> [instrument[x] EXCEPT !.wanted = from]] = [x \in {c} |-> copy]
      OBVIOUS
    <3> QED
      BY <1>5, <3>1 DEF Request, Disturb
  <2>2. /\ DOMAIN j = JobFields /\ j.at = "ask" /\ j.stage = "request"
        /\ DOMAIN j.todo = {c} /\ j.todo[c] = copy /\ j.current = c /\ j.gap = {}
    BY DEF NoJob, JobFields
  <2>3. IsRow(copy) /\ Full(copy) /\ copy.wanted = from /\ copy.last = instrument[c].last
    BY <1>1 DEF IsRow, Full
  <2> HIDE DEF j, copy
  <2>4. JobOk(j, Today)
    BY <2>2, <2>3 DEF JobOk, JobShape, Working, Steps, JobStages, IsCopy
  <2>5. instrument[c].wanted = None \/ from < instrument[c].wanted
    BY <1>1, <1>3, <1>5 DEF AlreadyAsked, IsRow
  <2>6. /\ Agrees(j, c, instrument[c], bars[c])
        /\ \A i : Has(j, i) => i = c
        /\ \A i : ~Flying(job[t], i) /\ ~Has(job[t], i)
    BY <1>1, <2>2, <2>3, <2>5 DEF Agrees, Has, Flying
  <2>7. \A i \in Instruments \ disturbed' :
          /\ Flying(job[t], i) => Flying(j, i)
          /\ Has(j, i) => Has(job[t], i) \/ ~Held(i)
          /\ Has(j, i) /\ (Has(job[t], i) => Agrees(job[t], i, instrument[i], bars[i])) =>
               Agrees(j, i, instrument[i], bars[i])
    BY <2>1, <2>6
  <2>8. disturbed \subseteq disturbed' /\ disturbed' \subseteq Instruments
    BY <1>1, <2>1
  <2> QED
    BY <1>1, <2>1, <2>4, <2>7, <2>8, QuietStep
<1> QED
  BY <1>4, <1>5

LEMMA RefreshPricesPreserves ==
  ASSUME MarketInv, NEW t \in Tasks, RefreshPrices(t)
  PROVE  MarketInv'
<1> DEFINE gap == (Today - WINDOW) .. Today
           j == [NoJob EXCEPT !.at = "calling", !.stage = "latest",
                              !.todo = DailyTargets(t), !.gap = gap]
<1>1. /\ job[t].at = "off" /\ UNCHANGED <<minute, instrument, bars, asked>>
      /\ DOMAIN job = Tasks /\ disturbed \subseteq Instruments
      /\ job' = [job EXCEPT ![t] = j]
      /\ disturbed' = disturbed \cup {i \in Instruments : Held(i)}
  BY JobFacts DEF RefreshPrices, Idle, Schedule, Disturb
<1>2. /\ bars \in [Instruments -> SUBSET (0 .. Today)]
      /\ \A i \in Instruments : IsRow(instrument[i])
  BY DEF MarketInv, RowsTyped
<1>3. /\ DOMAIN j = JobFields /\ j.at = "calling" /\ j.stage = "latest"
      /\ j.todo = DailyTargets(t) /\ j.current = None /\ j.gap = gap
  BY DEF NoJob, JobFields
<1>4. Today \in Nat /\ Today \in gap /\ gap \subseteq 0 .. Today
  <2>1. Today \in Nat /\ FirstDay \in Nat /\ FirstDay <= Today
    BY TodayIs DEF MarketInv
  <2>2. WINDOW \in 0 .. FirstDay
    BY MarketAssumption
  <2>3. WINDOW \in Nat /\ Today - WINDOW \in Nat /\ Today - WINDOW <= Today
    BY <2>1, <2>2
  <2> QED
    BY <2>1, <2>3
<1>5. /\ DOMAIN j.todo = Instruments
      /\ \A i \in Instruments : \/ j.todo[i] = instrument[i]
                                \/ j.todo[i] = [last |-> None]
  BY <1>3 DEF DailyTargets
<1>6. \A i \in Instruments :
        /\ IsCopy(j.todo[i])
        /\ Full(j.todo[i]) => j.todo[i].wanted = instrument[i].wanted
        /\ j.todo[i].last = IF Full(j.todo[i]) THEN instrument[i].last ELSE None
  <2> SUFFICES ASSUME NEW i \in Instruments
               PROVE  /\ IsCopy(j.todo[i])
                      /\ Full(j.todo[i]) => j.todo[i].wanted = instrument[i].wanted
                      /\ j.todo[i].last = IF Full(j.todo[i]) THEN instrument[i].last ELSE None
    OBVIOUS
  <2>1. CASE j.todo[i] = instrument[i]
    BY <1>2, <2>1 DEF IsCopy, IsRow, Full
  <2>2. CASE j.todo[i] = [last |-> None]
    BY <2>2 DEF IsCopy, Full
  <2> QED
    BY <1>5, <2>1, <2>2
<1> HIDE DEF j, gap
<1>7. JobOk(j, Today)
  BY <1>3, <1>4, <1>5, <1>6 DEF JobOk, JobShape, Working, Steps, JobStages
<1>8. ASSUME NEW i \in Instruments PROVE Agrees(j, i, instrument[i], bars[i])
  <2>1. \A d \in bars[i] : d <= Today
    BY <1>2, <1>4
  <2> QED
    BY <1>3, <1>4, <1>6, <2>1 DEF Agrees, Flying
<1>9. \A i \in Instruments \ disturbed' :
        /\ ~Flying(job[t], i)
        /\ Has(j, i) => Has(job[t], i) \/ ~Held(i)
        /\ Agrees(j, i, instrument[i], bars[i])
  BY <1>1, <1>8 DEF Flying
<1>10. disturbed \subseteq disturbed' /\ disturbed' \subseteq Instruments
  BY <1>1
<1> QED
  BY <1>1, <1>7, <1>9, <1>10, QuietStep

LEMMA LoadPendingPreserves ==
  ASSUME MarketInv, NEW t \in Tasks, LoadPending(t)
  PROVE  MarketInv'
<1> DEFINE ids == {i \in Instruments : instrument[i].wanted # None}
           todo == Restrict(instrument, ids)
           j == [[[job[t] EXCEPT !.stage = "pending"] EXCEPT !.gap = {}] EXCEPT !.todo = todo]
<1>1. /\ job[t].at = "next" /\ job[t].stage = "latest" /\ DOMAIN job[t].todo = {}
      /\ UNCHANGED <<minute, instrument, bars, asked>>
      /\ JobOk(job[t], Today) /\ DOMAIN job = Tasks /\ disturbed \subseteq Instruments
      /\ DOMAIN job[t] = JobFields /\ job' = [job EXCEPT ![t] = j]
      /\ disturbed' = disturbed \cup {i \in ids : Held(i)}
  BY JobFacts DEF LoadPending, At, limiterVars, Disturb, JobFields
<1>2. \A i \in Instruments : IsRow(instrument[i])
  BY DEF MarketInv, RowsTyped
<1>3. /\ DOMAIN j = JobFields /\ j.at = "next" /\ j.stage = "pending"
      /\ j.todo = todo /\ j.current = job[t].current /\ j.gap = {}
  BY <1>1 DEF JobFields
<1>4. /\ DOMAIN todo = ids
      /\ \A i \in ids : /\ todo[i] = instrument[i] /\ IsRow(todo[i]) /\ Full(todo[i])
                        /\ todo[i].wanted \in AskDates
  BY <1>2 DEF Restrict, IsRow, Full
<1>i. ids \subseteq Instruments
  OBVIOUS
<1> HIDE DEF j, todo, ids
<1>5. JobOk(j, Today)
  BY <1>1, <1>i, <1>3, <1>4 DEF JobOk, JobShape, Working, Steps, JobStages, IsCopy
<1>6. \A i \in Instruments \ disturbed' :
        /\ ~Flying(job[t], i)
        /\ Has(j, i) => ~Held(i)
        /\ Has(j, i) => Agrees(j, i, instrument[i], bars[i])
  BY <1>1, <1>3, <1>4 DEF Has, Flying, Agrees
<1>7. disturbed \subseteq disturbed' /\ disturbed' \subseteq Instruments
  BY <1>1, <1>i
<1> QED
  BY <1>1, <1>5, <1>6, <1>7, QuietStep

(* A crash ends the jobs of its process; the price it catches in flight      *)
(* counts as disturbed.                                                      *)
LEMMA CrashPreserves ==
  ASSUME MarketInv, NEW p \in Processes, Crash(p)
  PROVE  MarketInv'
<1> DEFINE lost == {job[t].current : t \in {u \in Tasks : Home[u] = p /\ At(u, "price")}}
<1>1. /\ UNCHANGED <<minute, instrument, bars, asked>>
      /\ job' = [t \in Tasks |-> IF Home[t] = p THEN NoJob ELSE job[t]]
      /\ disturbed' = disturbed \cup lost
  BY DEF Crash, Restart, Disturb
<1>2. /\ \A t \in Tasks : JobOk(job[t], Today)
      /\ RowsTyped
  BY DEF MarketInv
<1>3. lost \subseteq Instruments
  <2> SUFFICES ASSUME NEW u \in Tasks, At(u, "price") PROVE job[u].current \in Instruments
    OBVIOUS
  <2>1. JobOk(job[u], Today) /\ job[u].at = "price"
    BY <1>2 DEF At
  <2> QED
    BY <2>1 DEF JobOk, JobShape, Working
<1>4. RowsTyped'
  BY <1>1, <1>2, <1>3 DEF RowsTyped, Today, Day, IsRow
<1>5. \A t \in Tasks : job'[t] = job[t] \/ job'[t] = NoJob
  BY <1>1
<1>6. \A t \in Tasks : JobOk(job'[t], Today)
  BY <1>2, <1>5, NoJobOk
<1>7. \A t \in Tasks : JobOk(job[t], Today)'
  BY <1>1, <1>6 DEF JobOk, JobShape, Today, Day
<1>8. \A i : \A t \in Tasks : Has(job'[t], i) => Has(job[t], i) /\ job'[t] = job[t]
  BY <1>5, NoJobOk
<1>9. ASSUME NEW i \in Instruments \ disturbed' PROVE RowSound(i)'
  <2>1. RowSound(i)
    BY <1>1, <1>9 DEF MarketInv
  <2>2. \A t \in Tasks : Flying(job[t], i) => Flying(job'[t], i)
    <3> SUFFICES ASSUME NEW t \in Tasks, Flying(job[t], i) PROVE Flying(job'[t], i)
      OBVIOUS
    <3>1. Home[t] # p
      <4> SUFFICES ASSUME Home[t] = p PROVE FALSE
        OBVIOUS
      <4>1. job[t].current \in lost /\ job[t].current = i
        BY DEF Flying, At
      <4> QED
        BY <1>1, <1>9, <4>1
    <3> QED
      BY <1>1, <3>1
  <2>3. \A t, u \in Tasks : Has(job'[t], i) /\ Has(job'[u], i) => t = u
    BY <1>8, <2>1 DEF RowSound
  <2>4. \A t \in Tasks : Has(job'[t], i) => Agrees(job'[t], i, instrument'[i], bars'[i])
    BY <1>1, <1>8, <2>1 DEF RowSound
  <2>5. (\A t \in Tasks : ~Flying(job'[t], i)) => Latest(bars'[i], instrument'[i].last)
    BY <1>1, <2>1, <2>2 DEF RowSound
  <2>6. Answers(instrument'[i].wanted, bars'[i], asked'[i])
    BY <1>1, <2>1 DEF RowSound
  <2> QED
    BY <2>3, <2>4, <2>5, <2>6 DEF RowSound, Has, Flying, Agrees, Answers, Latest
<1>10. minute' \in Nat
  BY <1>1 DEF MarketInv
<1> QED
  BY <1>4, <1>7, <1>9, <1>10 DEF MarketInv

(* The clock and the limiter change no row; the day may move on.             *)
LEMMA LimitPreserves ==
  ASSUME MarketInv, Limit \/ UNCHANGED vars
  PROVE  MarketInv'
<1>1. UNCHANGED <<instrument, bars, job, asked, disturbed>>
  BY DEF Limit, vars, marketVars
<1>2. minute \in Nat /\ (minute' = minute \/ minute' = minute + 1)
  BY DEF MarketInv, Limit, vars, limiterVars, Tick, Charge, Peek, Wake, Add, Check
<1>3. Today \in Nat /\ Today' \in Nat /\ Today <= Today'
  <2>1. Day(minute) \in Nat /\ Day(minute + 1) \in Nat /\ Day(minute) <= Day(minute + 1)
        /\ FirstDay \in Nat
    BY <1>2, DayGrows, MarketAssumption
  <2>2. Day(minute)' = Day(minute) \/ Day(minute)' = Day(minute + 1)
    BY <1>2 DEF Day
  <2>3. Today' = FirstDay + Day(minute)'
    BY DEF Today
  <2> QED
    BY <2>1, <2>2, <2>3 DEF Today
<1>4. 0 .. Today \subseteq 0 .. Today'
  BY <1>3
<1>5. RowsTyped'
  BY <1>1, <1>4 DEF MarketInv, RowsTyped, IsRow
<1>6. \A t \in Tasks : JobOk(job[t], Today)'
  BY <1>1, <1>4 DEF MarketInv, JobOk, JobShape
<1>7. \A i \in Instruments \ disturbed' : RowSound(i)'
  BY <1>1 DEF MarketInv, RowSound, Has, Flying, Agrees, Answers, Latest
<1> QED
  BY <1>2, <1>5, <1>6, <1>7 DEF MarketInv

LEMMA MarketStart == Init => MarketInv
<1> SUFFICES ASSUME Init PROVE MarketInv
  OBVIOUS
<1>1. /\ minute = 0 /\ bars \in [Instruments -> StoredBars]
      /\ instrument = [i \in Instruments |->
           [wanted |-> None, last |-> IF bars[i] = {} THEN None ELSE Max(bars[i])]]
      /\ job = [t \in Tasks |-> NoJob] /\ asked = [i \in Instruments |-> {}]
      /\ disturbed = {}
  BY DEF Init, LimiterInit
<1>2. Today \in Nat /\ FirstDay \in Nat /\ FirstDay <= Today
  BY <1>1, TodayIs
<1>3. \A i \in Instruments : bars[i] \subseteq 0 .. FirstDay
  BY <1>1, MarketAssumption
<1>4. bars \in [Instruments -> SUBSET (0 .. Today)]
  BY <1>1, <1>2, <1>3
<1>5. RowsTyped
  BY <1>1, <1>4 DEF RowsTyped, IsRow
<1>6. \A t \in Tasks : job[t] = NoJob
  BY <1>1
<1>7. ASSUME NEW i \in Instruments PROVE RowSound(i)
  <2>1. instrument[i].wanted = None /\ asked[i] = {}
    BY <1>1
  <2>2. Latest(bars[i], instrument[i].last)
    <3>1. bars[i] # {} => IsMax(bars[i], Max(bars[i]))
      BY <1>2, <1>3, MaxOfDays
    <3> QED
      BY <1>1, <3>1 DEF Latest
  <2> QED
    BY <1>6, <2>1, <2>2, NoJobOk DEF RowSound, Answers
<1> QED
  BY <1>1, <1>5, <1>6, <1>7, NoJobOk DEF MarketInv

LEMMA MarketStep == MarketInv /\ [Next]_vars => MarketInv'
<1> SUFFICES ASSUME MarketInv, [Next]_vars PROVE MarketInv'
  OBVIOUS
<1>1. ASSUME NEW t \in Requests, NEW i \in Instruments, NEW from \in AskDates, Request(t, i, from)
      PROVE  MarketInv'
  BY <1>1, RequestPreserves, MarketAssumption
<1>2. ASSUME NEW t \in Tasks, RefreshPrices(t) PROVE MarketInv'
  BY <1>2, RefreshPricesPreserves
<1>3. ASSUME NEW t \in Tasks, Step(t) PROVE MarketInv'
  BY <1>3, AskPreserves, OpportunePreserves, EnsureHistoryPreserves, HistoryAnswerPreserves,
     LatestAnswerPreserves, CallFailsPreserves, InsertBarsPreserves, SavePricePreserves,
     ClearRequestPreserves, TakePreserves, LoadPendingPreserves, EndRefreshPreserves DEF Step
<1>4. ASSUME NEW p \in Processes, Crash(p) PROVE MarketInv'
  BY <1>4, CrashPreserves
<1>5. ASSUME Limit \/ UNCHANGED vars PROVE MarketInv'
  BY <1>5, LimitPreserves
<1> QED
  BY <1>1, <1>2, <1>3, <1>4, <1>5 DEF Next

-----------------------------------------------------------------------------

(* Whatever runs at once, runs out or crashes, a request for history that    *)
(* nobody else disturbed still stands in its row, or the day it asked for    *)
(* has its close stored.                                                     *)
THEOREM RequestsAreServed == Spec => []RequestServed
<1>1. MarketInv => RequestServed
  <2> SUFFICES ASSUME MarketInv, NEW i \in Instruments, Quiet(i), NEW from \in asked[i]
               PROVE  \E day \in 0 .. from :
                        day = instrument[i].wanted \/ day \in asked[i] \cap bars[i]
    BY DEF RequestServed
  <2>1. RowSound(i)
    BY DEF MarketInv, Quiet
  <2> QED
    BY <2>1 DEF RowSound, Answers
<1> QED
  BY <1>1, MarketStart, MarketStep, PTL DEF Spec

(* The price in the row of such an instrument is the close of the latest day *)
(* stored.                                                                   *)
THEOREM PricesAreCurrent == Spec => []PriceCurrent
<1>1. MarketInv => PriceCurrent
  <2> SUFFICES ASSUME MarketInv, NEW i \in Instruments, Quiet(i), bars[i] # {}
               PROVE  instrument[i].last = Max(bars[i])
    BY DEF PriceCurrent
  <2>1. RowSound(i)
    BY DEF MarketInv, Quiet
  <2>2. \A t \in Tasks : ~Flying(job[t], i)
    BY HeldIs DEF MarketInv, Quiet, Flying, Has, JobOk, JobShape, Working
  <2>3. IsMax(bars[i], instrument[i].last)
    BY <2>1, <2>2 DEF RowSound, Latest
  <2>4. bars[i] \subseteq 0 .. Today /\ Today \in Nat
    BY TodayIs DEF MarketInv, RowsTyped
  <2>5. bars[i] \subseteq Nat
    BY <2>4
  <2> QED
    BY <2>3, <2>5, MaxIs
<1> QED
  BY <1>1, MarketStart, MarketStep, PTL DEF Spec

(* The queue of the limiter serves the jobs: none holds it up.               *)
THEOREM MarketQueue == Spec => []ChainServes
  BY MarketUsesLimiter, QueueServes, PTL
=============================================================================
