---------------------------- MODULE ServicesProofs ----------------------------
(***************************************************************************)
(* Proofs about the services that share no table: the queue of the          *)
(* classifier, the templates of recurring expenses, the sessions of a user  *)
(* (Access), a session with XTB and the builds of the daily series of the   *)
(* portfolio (Snapshots); and the types of the five together.               *)
(***************************************************************************)
EXTENDS MCServices, FiniteSetTheorems, SequenceTheorems, NaturalsInduction,
        WellFoundedInduction, TLAPS

-----------------------------------------------------------------------------
(* The queue.  The invariant is the conjunction of the ones the runs check: *)
(* WorkConserving is what makes the others inductive, for it leaves the     *)
(* loop of pump at most one task to start.                                  *)

QueueInv ==
  /\ TypeOK
  /\ RunningBounded
  /\ WorkConserving
  /\ NoLostWakeUp
  /\ RunOnce

(* With every place taken, or nobody in line, pump starts nothing. *)
LEMMA StartsNone ==
  ASSUME NEW r \in Int, NEW w \in Seq(Tasks), r <= Concurrency,
         r = Concurrency \/ w = <<>>
  PROVE  Starting(r, w) = 0
<1>1. Len(w) \in Nat /\ (w = <<>> => Len(w) = 0)
  BY LenProperties, EmptySeq
<1> QED BY <1>1, QueueAssumption DEF Starting, AtMost

LEMMA OneIsLeast ==
  ASSUME NEW a \in Int, NEW b \in Int, a >= 1, b >= 1, a = 1 \/ b = 1
  PROVE  AtMost(a, b) = 1
<1>1. CASE a = 1
  BY <1>1 DEF AtMost
<1>2. CASE b = 1
  BY <1>2 DEF AtMost
<1> QED BY <1>1, <1>2

(* With one place free or one task in line, pump starts one. *)
LEMMA StartsOne ==
  ASSUME NEW r \in Int, NEW w \in Seq(Tasks), w # <<>>, r < Concurrency,
         r = Concurrency - 1 \/ Len(w) = 1
  PROVE  Starting(r, w) = 1
<1> DEFINE free == Concurrency - r
           len == Len(w)
<1>1. len \in Int /\ len >= 1
  BY EmptySeq
<1>2. free \in Int /\ free >= 1 /\ (free = 1 \/ len = 1)
  BY QueueAssumption
<1> HIDE DEF free, len
<1>3. AtMost(free, len) = 1
  BY <1>1, <1>2, OneIsLeast
<1> QED BY <1>3 DEF Starting, free, len

(* A task that joins the line was not in it, nor anywhere else. *)
LEMMA AppendProperty ==
  ASSUME NEW w \in Seq(Tasks), NEW t \in Tasks,
         \A i \in DOMAIN w : w[i] # t,
         \A i, j \in DOMAIN w : w[i] = w[j] => i = j
  PROVE  LET v == Append(w, t) IN
         /\ v \in Seq(Tasks) /\ v # <<>> /\ Len(v) = Len(w) + 1
         /\ DOMAIN v = 1 .. Len(w) + 1
         /\ \A i \in 1 .. Len(w) : v[i] = w[i]
         /\ v[Len(w) + 1] = t
         /\ \A i, j \in DOMAIN v : v[i] = v[j] => i = j
<1> DEFINE v == Append(w, t)
<1>1. /\ v \in Seq(Tasks) /\ v # <<>> /\ Len(v) = Len(w) + 1
      /\ \A i \in 1 .. Len(w) : v[i] = w[i]
      /\ v[Len(w) + 1] = t
  BY AppendProperties
<1>2. Len(w) \in Nat /\ DOMAIN w = 1 .. Len(w) /\ DOMAIN v = 1 .. Len(v)
  BY <1>1, LenProperties
<1>3. ASSUME NEW i \in DOMAIN v, NEW j \in DOMAIN v, v[i] = v[j] PROVE i = j
  BY <1>1, <1>2, <1>3
<1> QED BY <1>1, <1>2, <1>3

LEMMA QueueStart == Init => QueueInv
<1> SUFFICES ASSUME Init PROVE QueueInv
  OBVIOUS
<1>1. waiting \in Seq(Tasks) /\ Len(waiting) = 0 /\ DOMAIN waiting = {}
  BY EmptySeq DEF Init
<1>2. running = Cardinality(executing) /\ running <= Concurrency
  BY FS_EmptySet, QueueAssumption DEF Init
<1> QED BY <1>1, <1>2 DEF Init, QueueInv, TypeOK, RunningBounded, WorkConserving, NoLostWakeUp, RunOnce

(* The set of the tasks in course is finite. *)
LEMMA ExecutingFinite ==
  ASSUME TypeOK
  PROVE  IsFiniteSet(executing) /\ Cardinality(executing) \in Nat
  BY FS_Subset, FS_CardinalityType, QueueAssumption DEF TypeOK

LEMMA EnqueueKeepsQueueInv ==
  ASSUME QueueInv, NEW t \in Tasks, Enqueue(t)
  PROVE  QueueInv'
<1> DEFINE w == Append(waiting, t)
<1>1. t \notin executing /\ t \notin settled /\ \A i \in DOMAIN waiting : waiting[i] # t
  BY DEF Enqueue, Enqueued
<1>2. running \in Nat /\ running <= Concurrency
  BY DEF QueueInv, TypeOK, RunningBounded
<1>3. waiting \in Seq(Tasks) /\ Len(waiting) \in Nat /\ DOMAIN waiting = 1 .. Len(waiting)
  BY LenProperties DEF QueueInv, TypeOK
<1>4. /\ w \in Seq(Tasks) /\ w # <<>> /\ Len(w) = Len(waiting) + 1
      /\ DOMAIN w = 1 .. Len(waiting) + 1
      /\ \A i \in 1 .. Len(waiting) : w[i] = waiting[i]
      /\ w[Len(waiting) + 1] = t
      /\ \A i, j \in DOMAIN w : w[i] = w[j] => i = j
  BY <1>1, <1>3, AppendProperty DEF QueueInv, RunOnce
<1> HIDE DEF w
<1>5. CASE running = Concurrency
  <2>1. running' = running + 0 /\ executing' = executing \cup {w[i] : i \in 1 .. 0}
        /\ waiting' = SubSeq(w, 0 + 1, Len(w))
    <3>1. Starting(running, w) = 0
      BY <1>2, <1>4, <1>5, StartsNone
    <3>2. Pump(running, executing, w)
      BY DEF Enqueue, w
    <3> QED BY <3>1, <3>2, Zenon DEF Pump
  <2>2. running' = running /\ executing' = executing /\ waiting' = w
    BY <1>2, <1>4, <2>1, SubSeqFull
  <2>3. settled' = settled /\ drain' = drain
    BY DEF Enqueue
  <2>4. \A i \in DOMAIN w : w[i] \notin executing \cup settled
    BY <1>1, <1>3, <1>4 DEF QueueInv, RunOnce
  <2>5. Len(waiting') = Len(waiting) + 1 /\ Pending(running', waiting') > 0
    BY <1>2, <1>3, <1>4, <2>2 DEF Pending
  <2>6. RunOnce'
    BY <1>4, <2>2, <2>3, <2>4 DEF QueueInv, RunOnce
  <2> QED BY <1>2, <1>4, <1>5, <2>2, <2>3, <2>5, <2>6
          DEF QueueInv, TypeOK, RunningBounded, WorkConserving, NoLostWakeUp
<1>6. CASE running < Concurrency
  <2>1. waiting = <<>> /\ Len(waiting) = 0
    BY <1>2, <1>6, EmptySeq, QueueAssumption DEF QueueInv, WorkConserving
  <2>2. running' = running + 1 /\ executing' = executing \cup {w[i] : i \in 1 .. 1}
        /\ waiting' = SubSeq(w, 1 + 1, Len(w))
    <3>1. Starting(running, w) = 1
      BY <1>2, <1>4, <1>6, <2>1, StartsOne
    <3>2. Pump(running, executing, w)
      BY DEF Enqueue, w
    <3> QED BY <3>1, <3>2, Zenon DEF Pump
  <2>3. running' = running + 1 /\ executing' = executing \cup {t} /\ waiting' = <<>>
    BY <1>4, <2>1, <2>2, SubSeqEmpty
  <2>4. settled' = settled /\ drain' = drain
    BY DEF Enqueue
  <2>5. Cardinality(executing') = Cardinality(executing) + 1
    BY <1>1, <2>3, ExecutingFinite, FS_AddElement DEF QueueInv
  <2>6. Len(waiting') = 0 /\ DOMAIN waiting' = {} /\ waiting' \in Seq(Tasks)
    BY <2>3, EmptySeq
  <2> QED BY <1>1, <1>2, <1>6, <2>3, <2>4, <2>5, <2>6, QueueAssumption
          DEF QueueInv, TypeOK, RunningBounded, WorkConserving, NoLostWakeUp, RunOnce, Pending
<1> QED BY <1>2, <1>5, <1>6, QueueAssumption

LEMMA SettleKeepsQueueInv ==
  ASSUME QueueInv, NEW t \in Tasks, Settle(t)
  PROVE  QueueInv'
<1>1. t \in executing
  BY DEF Settle
<1>2. /\ running \in Nat /\ running <= Concurrency /\ running > 0
      /\ Cardinality(executing \ {t}) = running - 1
      /\ IsFiniteSet(executing \ {t})
  <2>1. running = Cardinality(executing) /\ running <= Concurrency /\ running \in Nat
    BY DEF QueueInv, TypeOK, RunningBounded
  <2>2. IsFiniteSet(executing)
    BY ExecutingFinite DEF QueueInv
  <2>3. IsFiniteSet(executing \ {t}) /\ Cardinality(executing \ {t}) = running - 1
    BY <1>1, <2>1, <2>2, FS_RemoveElement
  <2>4. running - 1 \in Nat
    BY <2>3, FS_CardinalityType
  <2> QED BY <2>1, <2>3, <2>4
<1>3. waiting \in Seq(Tasks) /\ Len(waiting) \in Nat /\ DOMAIN waiting = 1 .. Len(waiting)
  BY LenProperties DEF QueueInv, TypeOK
<1>4. /\ settled' = settled \cup {t}
      /\ drain' = IF drain = "waiting" /\ Pending(running', waiting') = 0
                  THEN "drained" ELSE drain
  BY DEF Settle
<1>5. CASE waiting = <<>>
  <2>1. running' = running - 1 + 0 /\ executing' = (executing \ {t}) \cup {waiting[i] : i \in 1 .. 0}
        /\ waiting' = SubSeq(waiting, 0 + 1, Len(waiting))
    <3>1. Starting(running - 1, waiting) = 0
      <4>1. running - 1 \in Int /\ running - 1 <= Concurrency
        BY <1>2, QueueAssumption
      <4> QED BY <1>3, <1>5, <4>1, StartsNone
    <3> QED BY <3>1, Zenon DEF Settle, Pump
  <2>2. running' = running - 1 /\ executing' = executing \ {t} /\ waiting' = <<>>
    BY <1>2, <1>3, <1>5, <2>1, SubSeqFull
  <2>3. Len(waiting') = 0 /\ DOMAIN waiting' = {} /\ waiting' \in Seq(Tasks)
    BY <2>2, EmptySeq
  <2> QED BY <1>1, <1>2, <1>4, <2>2, <2>3, QueueAssumption
          DEF QueueInv, TypeOK, RunningBounded, WorkConserving, NoLostWakeUp, RunOnce, Pending
<1>6. CASE waiting # <<>>
  <2> DEFINE u == waiting[1]
  <2>1. running = Concurrency
    BY <1>6 DEF QueueInv, WorkConserving
  <2>2. Len(waiting) \in Nat \ {0}
    BY <1>3, <1>6, EmptySeq
  <2>3. running' = running - 1 + 1 /\ executing' = (executing \ {t}) \cup {waiting[i] : i \in 1 .. 1}
        /\ waiting' = SubSeq(waiting, 1 + 1, Len(waiting))
    <3>1. Starting(running - 1, waiting) = 1
      BY <1>2, <1>3, <1>6, <2>1, StartsOne
    <3> QED BY <3>1, Zenon DEF Settle, Pump
  <2>4. waiting' = Tail(waiting)
    BY <1>3, <1>6, <2>3, TailIsSubSeq
  <2>5. /\ waiting' \in Seq(Tasks) /\ Len(waiting') = Len(waiting) - 1
        /\ DOMAIN waiting' = 1 .. Len(waiting) - 1
        /\ \A i \in 1 .. Len(waiting) - 1 : waiting'[i] = waiting[i + 1]
    BY <1>3, <1>6, <2>4, HeadTailProperties, LenProperties
  <2>6. running' = running /\ executing' = (executing \ {t}) \cup {u}
    BY <1>2, <2>3
  <2>7. u \in Tasks /\ u \notin executing /\ u \notin settled /\ u # t
    BY <1>1, <1>3, <2>2 DEF QueueInv, TypeOK, RunOnce
  <2>8. Cardinality(executing') = running
    <3>1. u \notin executing \ {t}
      BY <2>7
    <3>2. Cardinality((executing \ {t}) \cup {u}) = Cardinality(executing \ {t}) + 1
      BY <1>2, <3>1, FS_AddElement
    <3> QED BY <1>2, <2>6, <3>2
  <2>9. ASSUME NEW i \in DOMAIN waiting'
        PROVE  waiting'[i] \notin executing' \cup settled'
    <3>1. i + 1 \in DOMAIN waiting /\ 1 \in DOMAIN waiting /\ i + 1 # 1
      BY <1>3, <2>2, <2>5
    <3>2. waiting[i + 1] # u
      BY <3>1 DEF QueueInv, RunOnce
    <3>3. waiting[i + 1] \notin executing \cup settled
      BY <3>1 DEF QueueInv, RunOnce
    <3>4. waiting'[i] = waiting[i + 1]
      BY <2>5
    <3> QED BY <1>1, <1>4, <2>6, <3>2, <3>3, <3>4
  <2>10. ASSUME NEW i \in DOMAIN waiting', NEW j \in DOMAIN waiting', waiting'[i] = waiting'[j]
         PROVE  i = j
    <3>1. i \in Int /\ j \in Int /\ i + 1 \in DOMAIN waiting /\ j + 1 \in DOMAIN waiting
      BY <1>3, <2>2, <2>5
    <3>2. waiting[i + 1] = waiting[j + 1]
      BY <2>5, <2>10
    <3>3. i + 1 = j + 1
      BY <3>1, <3>2 DEF QueueInv, RunOnce
    <3> QED BY <3>1, <3>3
  <2>11. executing' \cap settled' = {}
    BY <1>1, <1>4, <2>6, <2>7 DEF QueueInv, RunOnce
  <2>12. Pending(running', waiting') > 0
    BY <1>2, <2>2, <2>5, <2>6 DEF Pending
  <2> QED BY <1>2, <1>4, <2>1, <2>5, <2>6, <2>7, <2>8, <2>9, <2>10, <2>11, <2>12
          DEF QueueInv, TypeOK, RunningBounded, WorkConserving, NoLostWakeUp, RunOnce
<1> QED BY <1>5, <1>6

LEMMA QueueStep == QueueInv /\ [Next]_vars => QueueInv'
<1> SUFFICES ASSUME QueueInv, [Next]_vars PROVE QueueInv'
  OBVIOUS
<1>1. ASSUME NEW t \in Tasks, Enqueue(t) PROVE QueueInv'
  BY <1>1, EnqueueKeepsQueueInv
<1>2. ASSUME NEW t \in Tasks, Settle(t) PROVE QueueInv'
  BY <1>2, SettleKeepsQueueInv
<1>3. CASE BeginDrain
  <2>1. Len(waiting) \in Nat /\ running \in Nat
    BY LenProperties DEF QueueInv, TypeOK
  <2> QED BY <1>3, <2>1 DEF BeginDrain, QueueInv, TypeOK, RunningBounded, WorkConserving,
                           NoLostWakeUp, RunOnce, Pending
<1>4. CASE TimeOut
  BY <1>4 DEF TimeOut, QueueInv, TypeOK, RunningBounded, WorkConserving, NoLostWakeUp, RunOnce
<1>5. CASE UNCHANGED vars
  BY <1>5 DEF vars, QueueInv, TypeOK, RunningBounded, WorkConserving, NoLostWakeUp, RunOnce, Pending
<1> QED BY <1>1, <1>2, <1>3, <1>4, <1>5 DEF Next

LEMMA QueueInductive == Spec => []QueueInv
  BY QueueStart, QueueStep, PTL DEF Spec

THEOREM QueueTypeOK == Spec => []TypeOK
  BY QueueInductive, PTL DEF QueueInv

(* However many tasks are enqueued and settle, in whatever order, at most    *)
(* Concurrency requests to the classifier are in course.                     *)
THEOREM QueueRunningBounded == Spec => []RunningBounded
  BY QueueInductive, PTL DEF QueueInv

(* No place stays free while a task waits for one. *)
THEOREM QueueWorkConserving == Spec => []WorkConserving
  BY QueueInductive, PTL DEF QueueInv

(* Whoever waits for the queue to be idle has something to wait for. *)
THEOREM QueueNoLostWakeUp == Spec => []NoLostWakeUp
  BY QueueInductive, PTL DEF QueueInv

(* No task is run twice, nor is in two places at once. *)
THEOREM QueueRunOnce == Spec => []RunOnce
  BY QueueInductive, PTL DEF QueueInv

(* A step starts no task of the line but the first. *)
LEMMA StartsTheFirst ==
  ASSUME QueueInv, Next, waiting # <<>>
  PROVE  executing' \subseteq executing \cup {waiting[1]}
<1>1. waiting \in Seq(Tasks) /\ running = Concurrency /\ Concurrency \in Nat \ {0}
  BY QueueAssumption DEF QueueInv, TypeOK, WorkConserving
<1>2. ASSUME NEW t \in Tasks, Enqueue(t) PROVE executing' = executing
  <2> DEFINE w == Append(waiting, t)
  <2>1. w \in Seq(Tasks)
    BY <1>1, AppendProperties
  <2> HIDE DEF w
  <2>2. Starting(running, w) = 0
    BY <1>1, <2>1, StartsNone
  <2>3. Pump(running, executing, w)
    BY <1>2 DEF Enqueue, w
  <2>4. executing' = executing \cup {w[i] : i \in 1 .. 0}
    BY <2>2, <2>3, Zenon DEF Pump
  <2> QED BY <2>4
<1>3. ASSUME NEW t \in Tasks, Settle(t) PROVE executing' = (executing \ {t}) \cup {waiting[1]}
  <2>1. running - 1 \in Int /\ running - 1 < Concurrency
    BY <1>1
  <2>2. Starting(running - 1, waiting) = 1
    BY <1>1, <2>1, StartsOne
  <2>3. executing' = (executing \ {t}) \cup {waiting[i] : i \in 1 .. 1}
    BY <1>3, <2>2, Zenon DEF Settle, Pump
  <2> QED BY <2>3
<1>4. CASE BeginDrain \/ TimeOut
  BY <1>4 DEF BeginDrain, TimeOut
<1> QED BY <1>2, <1>3, <1>4 DEF Next

(* No task overtakes another in the line. *)
THEOREM QueueFirstInFirstOut == Spec => FirstInFirstOut
<1>1. QueueInv /\ [Next]_vars => [InOrder]_vars
  <2> SUFFICES ASSUME QueueInv, Next, NEW i \in DOMAIN waiting, NEW j \in DOMAIN waiting,
                      i < j, waiting[j] \in executing'
               PROVE  FALSE
    BY DEF InOrder
  <2>1. DOMAIN waiting = 1 .. Len(waiting) /\ Len(waiting) \in Nat
    BY LenProperties DEF QueueInv, TypeOK
  <2>2. waiting # <<>>
    BY <2>1, EmptySeq
  <2>3. waiting[j] = waiting[1]
    BY <2>2, StartsTheFirst DEF QueueInv, RunOnce
  <2>4. 1 \in DOMAIN waiting /\ j # 1
    BY <2>1
  <2> QED BY <2>3, <2>4 DEF QueueInv, RunOnce
<1> QED BY <1>1, QueueInductive, PTL DEF Spec, FirstInFirstOut

-----------------------------------------------------------------------------
(* The calendar. *)

NatLess == {pair \in Nat \X Nat : pair[1] < pair[2]}

\* A set of numbers has a least one.
LEMMA Least ==
  ASSUME NEW S, S \subseteq Nat, S # {}
  PROVE  \E x \in S : \A y \in S : x <= y
<1>1. IsWellFoundedOn(NatLess, Nat)
  <2>1. OpToRel(<, Nat) = NatLess
    BY DEF OpToRel, NatLess
  <2> QED BY <2>1, NatLessThanWellFounded
<1>2. PICK x \in S : \A y \in S : ~(<<y, x>> \in NatLess)
  BY <1>1, WFMin, Zenon
<1>3. \A y \in S : y < x => <<y, x>> \in NatLess
  BY DEF NatLess
<1>4. \A y \in S : ~(y < x)
  BY <1>2, <1>3, Zenon
<1> QED BY <1>4

\* The month of a day: the last that began by then.
IsMonthOf(m, d) ==
  /\ m \in DOMAIN MonthStart /\ MonthStart[m] <= d
  /\ \A n \in DOMAIN MonthStart : MonthStart[n] <= d => n <= m

LEMMA Months ==
  /\ DOMAIN MonthStart = 1 .. Len(MonthStart) /\ Len(MonthStart) \in Nat /\ Len(MonthStart) > 12
  /\ \A m \in DOMAIN MonthStart : m \in Nat /\ MonthStart[m] \in Nat
  /\ \A m, n \in DOMAIN MonthStart : m < n => MonthStart[m] + 28 <= MonthStart[n]
  /\ Days \subseteq Nat
BY RecurringAssumption

LEMMA MonthUnique ==
  ASSUME NEW m, NEW n, NEW d, IsMonthOf(m, d), IsMonthOf(n, d)
  PROVE  m = n
<1>1. m \in Nat /\ n \in Nat /\ m <= n /\ n <= m
  BY Months DEF IsMonthOf
<1> QED BY <1>1

LEMMA MonthChosen ==
  ASSUME NEW m, NEW d, IsMonthOf(m, d)
  PROVE  MonthOf(d) = m
<1>1. IsMonthOf(MonthOf(d), d)
  BY Zenon DEF IsMonthOf, MonthOf
<1> QED BY <1>1, MonthUnique

LEMMA MonthExists ==
  ASSUME NEW d \in Nat, MonthStart[1] <= d
  PROVE  IsMonthOf(MonthOf(d), d)
<1> DEFINE L == Len(MonthStart)
           Since == {k \in 0 .. L - 1 : MonthStart[L - k] <= d}
<1>1. L - 1 \in 0 .. L - 1 /\ L - (L - 1) = 1
  BY Months
<1>2. L - 1 \in Since
  BY <1>1
<1>3. Since \subseteq Nat
  BY Months
<1>4. PICK k \in Since : \A j \in Since : k <= j
  BY <1>2, <1>3, Least
<1>5. L - k \in DOMAIN MonthStart /\ MonthStart[L - k] <= d
  BY <1>4, Months
<1>6. ASSUME NEW n \in DOMAIN MonthStart, MonthStart[n] <= d PROVE n <= L - k
  <2>1. L - n \in 0 .. L - 1 /\ L - (L - n) = n
    BY Months
  <2>2. L - n \in Since
    BY <1>6, <2>1
  <2> QED BY <1>4, <2>2, Months
<1>7. IsMonthOf(L - k, d)
  BY <1>5, <1>6 DEF IsMonthOf
<1> QED BY <1>7, MonthChosen

\* A day among the first twenty-eight of a month.
LEMMA MonthOfEarlyDay ==
  ASSUME NEW m \in DOMAIN MonthStart, NEW x \in 0 .. 27
  PROVE  MonthOf(MonthStart[m] + x) = m
<1>1. ASSUME NEW n \in DOMAIN MonthStart, MonthStart[n] <= MonthStart[m] + x PROVE n <= m
  <2>1. m < n => MonthStart[m] + 28 <= MonthStart[n]
    BY Months
  <2> QED BY <1>1, <2>1, Months
<1>2. IsMonthOf(m, MonthStart[m] + x)
  BY <1>1, Months DEF IsMonthOf
<1> QED BY <1>2, MonthChosen

\* The calendar goes on for a year after any of the days.
LEMMA YearAhead ==
  ASSUME NEW d \in Days, NEW x \in Nat, x <= d, NEW m \in DOMAIN MonthStart, MonthStart[m] <= x,
         NEW s \in 1 .. 12
  PROVE  m + s \in DOMAIN MonthStart
<1>1. /\ Len(MonthStart) - 12 \in DOMAIN MonthStart /\ d < MonthStart[Len(MonthStart) - 12]
      /\ MonthStart[Len(MonthStart) - 12] \in Nat /\ d \in Nat /\ MonthStart[m] \in Nat
  BY Months, RecurringAssumption
<1>2. Len(MonthStart) - 12 < m => MonthStart[Len(MonthStart) - 12] + 28 <= MonthStart[m]
  BY <1>1, Months
<1>3. m <= Len(MonthStart) - 12
  BY <1>1, <1>2, Months
<1> QED BY <1>3, Months

-----------------------------------------------------------------------------
(* The dates of a template. *)

Monthly(row) == row.every \in DOMAIN MONTHS_BY_RECURRENCE
Period(row) ==
  IF Monthly(row) THEN MONTHS_BY_RECURRENCE[row.every] ELSE DAYS_BY_RECURRENCE[row.every]
Offset(row) == row.start - MonthStart[MonthOf(row.start)]

RowOk(row) == row \in Row /\ MonthStart[1] <= row.start /\ MonthStart[1] <= row.next

LEMMA Periods ==
  ASSUME NEW row \in Row
  PROVE  /\ Period(row) \in 1 .. 14 /\ (Monthly(row) => Period(row) \in 1 .. 12)
         /\ row.start \in Nat /\ row.next \in Nat
BY DEF Row, Recurrences, Period, Monthly, MONTHS_BY_RECURRENCE, DAYS_BY_RECURRENCE

\* Its next date is the n-th after its start.
Nth(row, n) ==
  IF Monthly(row)
  THEN /\ MonthOf(row.start) + n * Period(row) \in DOMAIN MonthStart
       /\ row.next = MonthStart[MonthOf(row.start) + n * Period(row)] + Offset(row)
  ELSE row.next = row.start + n * Period(row)

LEMMA NthIsOccurrence ==
  ASSUME NEW row, NEW n, Nth(row, n)
  PROVE  row.next = Occurrence(row, n)
BY DEF Nth, Occurrence, Monthly, Period, Offset

LEMMA Started ==
  ASSUME NEW row, RowOk(row), row.next = row.start
  PROVE  Nth(row, 0)
<1>1. row.start \in Nat /\ Period(row) \in Nat
  BY Periods DEF RowOk
<1>2. IsMonthOf(MonthOf(row.start), row.start)
  BY <1>1, MonthExists DEF RowOk
<1>3. 0 * Period(row) = 0
  BY <1>1
<1> DEFINE m == MonthOf(row.start)
           p == Period(row)
<1>4. m \in DOMAIN MonthStart /\ m \in Nat /\ MonthStart[m] \in Nat
  BY <1>2, Months DEF IsMonthOf
<1> HIDE DEF m, p
<1>5. m + 0 * p = m /\ row.start + 0 * p = row.start /\ MonthStart[m] + (row.start - MonthStart[m]) = row.start
  BY <1>1, <1>3, <1>4 DEF p
<1> QED BY <1>4, <1>5 DEF Nth, Offset, m, p

\* Charging one more occurrence takes the row to the date after.
LEMMA AdvancedRow ==
  ASSUME NEW row, RowOk(row), NEW d \in Days, row.next <= d
  PROVE  /\ RowOk(Advanced(row))
         /\ Advanced(row).start = row.start /\ Advanced(row).every = row.every
         /\ Advanced(row).next = AddInterval(row.next, row.every)
<1> DEFINE x == AddInterval(row.next, row.every)
           m == MonthOf(row.next)
           s == MONTHS_BY_RECURRENCE[row.every]
<1>1. row.next \in Nat /\ row \in Row /\ row.next >= MonthStart[1] /\ MonthStart[1] \in Nat
  BY Periods, Months DEF RowOk
<1>2. x \in Nat /\ x >= row.next
  <2>1. CASE Monthly(row)
    <3>1. IsMonthOf(m, row.next)
      BY <1>1, MonthExists
    <3>2. s \in 1 .. 12
      BY <1>1, <2>1, Periods DEF Period
    <3>3. m \in DOMAIN MonthStart /\ MonthStart[m] <= row.next
      BY <3>1 DEF IsMonthOf
    <3>4. m + s \in DOMAIN MonthStart
      BY <1>1, <3>2, <3>3, YearAhead
    <3>5. x = MonthStart[m + s] + (row.next - MonthStart[m])
      BY <2>1 DEF AddInterval, Monthly
    <3> HIDE DEF m, s
    <3>6. MonthStart[m] + 28 <= MonthStart[m + s] /\ MonthStart[m] \in Nat /\ MonthStart[m + s] \in Nat
      BY <3>2, <3>3, <3>4, Months
    <3> HIDE DEF x
    <3> QED BY <1>1, <3>3, <3>5, <3>6
  <2>2. CASE ~Monthly(row)
    <3>1. x = row.next + Period(row)
      BY <2>2 DEF AddInterval, Monthly, Period
    <3> HIDE DEF x
    <3> QED BY <1>1, <3>1, Periods
  <2> QED BY <2>1, <2>2
<1>3. Advanced(row) = [[row EXCEPT !.next = x] EXCEPT !.active = ~Ended([row EXCEPT !.next = x])]
  BY DEF Advanced
<1> HIDE DEF x
<1>4. [row EXCEPT !.next = x] \in Row /\ [row EXCEPT !.next = x].start = row.start
      /\ [row EXCEPT !.next = x].every = row.every /\ [row EXCEPT !.next = x].next = x
  BY <1>1, <1>2 DEF Row
<1> DEFINE r == [row EXCEPT !.next = x]
           b == ~Ended(r)
<1>5. b \in BOOLEAN
  OBVIOUS
<1> HIDE DEF r, b
<1>6. [r EXCEPT !.active = b] \in Row /\ [r EXCEPT !.active = b].start = r.start
      /\ [r EXCEPT !.active = b].every = r.every /\ [r EXCEPT !.active = b].next = r.next
  <2>1. r \in Row
    BY <1>4 DEF r
  <2> QED BY <1>5, <2>1, Zenon DEF Row
<1>7. Advanced(row) = [r EXCEPT !.active = b]
  BY <1>3 DEF r, b
<1>8. /\ Advanced(row) \in Row /\ Advanced(row).start = row.start /\ Advanced(row).every = row.every
      /\ Advanced(row).next = x
  BY <1>4, <1>6, <1>7 DEF r
<1>9. x >= MonthStart[1]
  BY <1>1, <1>2
<1> QED BY <1>8, <1>9 DEF RowOk, x

LEMMA NextDate ==
  ASSUME NEW row, RowOk(row), Regular(row), NEW n \in Nat, Nth(row, n), NEW d \in Days, row.next <= d
  PROVE  Nth(Advanced(row), n + 1)
<1> DEFINE new == Advanced(row)
           p == Period(row)
           x == AddInterval(row.next, row.every)
<1>1. RowOk(new) /\ new.start = row.start /\ new.every = row.every /\ new.next = x
  BY AdvancedRow
<1>2. /\ row \in Row /\ row.next \in Nat /\ row.start \in Nat /\ p \in 1 .. 14
      /\ Monthly(row) => p \in 1 .. 12
  BY Periods DEF RowOk
<1>3. Period(new) = p /\ (Monthly(new) <=> Monthly(row)) /\ Offset(new) = Offset(row)
  BY <1>1 DEF Period, Monthly, Offset
<1>4. CASE Monthly(row)
  <2> DEFINE m == MonthOf(row.start)
             k == m + n * p
             o == Offset(row)
  <2>1. IsMonthOf(m, row.start)
    BY <1>2, MonthExists DEF RowOk
  <2>2. k \in DOMAIN MonthStart /\ row.next = MonthStart[k] + o
    BY <1>4 DEF Nth
  <2>3. o \in 0 .. 27
    <3>1. row.start - MonthStart[m] < 28
      BY <1>4 DEF Regular, Monthly
    <3>2. MonthStart[m] <= row.start /\ MonthStart[m] \in Nat
      BY <2>1, Months DEF IsMonthOf
    <3> QED BY <1>2, <3>1, <3>2 DEF Offset
  <2>4. x = MonthStart[MonthOf(row.next) + p] + (row.next - MonthStart[MonthOf(row.next)])
    BY <1>4 DEF AddInterval, Monthly, Period
  <2>5. m \in Nat /\ n * p \in Nat
    <3>1. m \in Nat
      BY <2>1, Months DEF IsMonthOf
    <3>2. p \in Nat
      BY <1>2
    <3> HIDE DEF p
    <3> QED BY <3>1, <3>2
  <2>6. (n + 1) * p = n * p + p
    BY <1>2
  <2>7. m + (n + 1) * p = k + p
    BY <1>2, <2>5, <2>6
  <2> HIDE DEF o, p, x
  <2> HIDE DEF k
  <2>8. MonthOf(row.next) = k
    BY <2>2, <2>3, MonthOfEarlyDay
  <2>9. MonthStart[k] \in Nat /\ k \in Nat
    BY <2>2, Months
  <2>10. k + p \in DOMAIN MonthStart
    <3>1. MonthStart[k] <= row.next
      BY <2>2, <2>3, <2>9
    <3> QED BY <1>2, <1>4, <2>2, <3>1, YearAhead
  <2>11. x = MonthStart[k + p] + o
    BY <2>2, <2>3, <2>4, <2>8, <2>9, Months
  <2> QED BY <1>1, <1>3, <1>4, <2>7, <2>10, <2>11 DEF Nth, o, p
<1>5. CASE ~Monthly(row)
  <2>1. x = row.next + p
    BY <1>5 DEF AddInterval, Monthly, Period
  <2>2. row.next = row.start + n * p
    BY <1>5 DEF Nth
  <2>3. (n + 1) * p = n * p + p /\ n * p \in Nat
    BY <1>2
  <2>4. x = row.start + (n + 1) * p
    <3> DEFINE y == n * p
    <3> HIDE DEF x, p, y
    <3>1. (n + 1) * p = y + p /\ y \in Nat /\ p \in Nat /\ row.next = row.start + y
      BY <1>2, <2>2, <2>3 DEF y, p
    <3> QED BY <1>2, <2>1, <3>1
  <2> QED BY <1>1, <1>3, <1>5, <2>4 DEF Nth
<1> QED BY <1>4, <1>5

-----------------------------------------------------------------------------
(* The invariant: the rows and their copies are rows, wherever they are, ... *)

Whole(f) == f = [x \in DOMAIN f |-> f[x]]

RunShape(q) ==
  /\ q = [date |-> q.date, current |-> q.current, due |-> q.due]
  /\ q.date \in Days /\ q.current \in DOMAIN q.due \cup {None}
  /\ Whole(q.due) /\ DOMAIN q.due \subseteq Templates
  /\ \A t \in DOMAIN q.due : RowOk(q.due[t])

Typed(T, R, E, C) ==
  /\ C \in [Templates -> Seq(Nat)]
  /\ Whole(T) /\ DOMAIN T \subseteq Templates /\ \A t \in DOMAIN T : RowOk(T[t])
  /\ Whole(R) /\ DOMAIN R \subseteq Runners /\ \A w \in DOMAIN R : RunShape(R[w])
  /\ Whole(E) /\ DOMAIN E \subseteq Editors
  /\ \A e \in DOMAIN E : E[e].id \in Templates /\ RowOk(E[e].row)

\* ... each with an expense for every date before its next one ...
Covered(ch, row) ==
  Regular(row) => \E n \in 0 .. Len(ch) :
                    Nth(row, n) /\ \A k \in 0 .. n - 1 : Occurrence(row, k) \in Range(ch)

AllCovered(T, R, E, C) ==
  /\ \A t \in DOMAIN T : Covered(C[t], T[t])
  /\ \A w \in DOMAIN R : \A t \in DOMAIN R[w].due : Covered(C[t], R[w].due[t])
  /\ \A e \in DOMAIN E : Covered(C[E[e].id], E[e].row)

\* ... and, of a template nothing disturbed, with exactly those: it is in one hand at
\* most, and its row is behind only while an execution charges it.
Exact(ch, row) ==
  Regular(row) => Nth(row, Len(ch)) /\ \A i \in DOMAIN ch : ch[i] = Occurrence(row, i - 1)

Alone(t, R, E) ==
  /\ \A v, w \in DOMAIN R : t \in DOMAIN R[v].due /\ t \in DOMAIN R[w].due => v = w
  /\ \A w \in DOMAIN R, e \in DOMAIN E : ~(t \in DOMAIN R[w].due /\ E[e].id = t)
  /\ \A e, f \in DOMAIN E : E[e].id = t /\ E[f].id = t => e = f

AtWork(t, R) == \E w \in DOMAIN R : t \in DOMAIN R[w].due /\ R[w].current = t

Kept(t, T, R, E, C) ==
  /\ Alone(t, R, E)
  /\ t \in DOMAIN T /\ ~AtWork(t, R) => Exact(C[t], T[t])
  /\ \A w \in DOMAIN R : t \in DOMAIN R[w].due => Exact(C[t], R[w].due[t])
  /\ \A e \in DOMAIN E : E[e].id = t => Exact(C[t], E[e].row)

AllKept(T, R, E, C, d) == \A t \in Templates \ d : Kept(t, T, R, E, C)

\* An update that changes how often a template is charged begins another schedule.
FrequencyKept == \A c \in Changes : "every" \notin DOMAIN c

Counted ==
  /\ today \in Days /\ edits \in 0 .. MaxEdits /\ faults \in 0 .. MaxFaults
  /\ disturbed \subseteq Templates

RecurringInv ==
  /\ Counted
  /\ Typed(template, run, edit, charged)
  /\ FrequencyKept => /\ AllCovered(template, run, edit, charged)
                      /\ AllKept(template, run, edit, charged, disturbed)

\* The table after a row is saved or taken out.
HasSaved(g, f, x, v) ==
  /\ DOMAIN g = DOMAIN f \cup {x} /\ g[x] = v /\ Whole(g)
  /\ \A y \in DOMAIN f : y # x => g[y] = f[y]

HasLeftOut(g, f, x) ==
  /\ DOMAIN g = DOMAIN f \ {x} /\ Whole(g)
  /\ \A y \in DOMAIN f : y # x => g[y] = f[y]

LEMMA Saved ==
  ASSUME NEW f, NEW x, NEW v
  PROVE  HasSaved(Save(f, x, v), f, x, v)
BY DEF Save, Over, Whole, HasSaved

LEMMA LeftOut ==
  ASSUME NEW f, NEW x
  PROVE  HasLeftOut(Without(f, x), f, x)
BY DEF Without, Restrict, Whole, HasLeftOut

\* What no request has a copy of.
LEMMA NotHeld ==
  ASSUME NEW t, t \notin Held
  PROVE  /\ \A w \in DOMAIN run : t \notin DOMAIN run[w].due
         /\ \A e \in DOMAIN edit : edit[e].id # t
<1> DEFINE Loads == {DOMAIN run[w].due : w \in DOMAIN run}
           Runs == UNION Loads
           Edited == {edit[e].id : e \in DOMAIN edit}
<1>1. t \notin Runs /\ t \notin Edited
  <2>1. Held = Runs \cup Edited
    BY DEF Held
  <2> HIDE DEF Runs, Edited
  <2>2. t \notin Runs \cup Edited
    BY <2>1, Zenon
  <2> QED BY <2>2
<1>2. ASSUME NEW w \in DOMAIN run PROVE t \notin DOMAIN run[w].due
  <2>1. DOMAIN run[w].due \in Loads
    OBVIOUS
  <2> HIDE DEF Loads
  <2> QED BY <1>1, <2>1
<1>3. \A e \in DOMAIN edit : edit[e].id # t
  BY <1>1
<1> QED BY <1>2, <1>3

LEMMA EmptyIs == DOMAIN Empty = {} /\ Whole(Empty)
BY DEF Empty, Whole

\* What a schedule is made of does not include the rest of the row.
LEMMA SameDates ==
  ASSUME NEW row, NEW new, new.start = row.start, new.every = row.every, new.next = row.next, NEW ch
  PROVE  (Covered(ch, row) => Covered(ch, new)) /\ (Exact(ch, row) => Exact(ch, new))
<1>1. /\ Regular(new) <=> Regular(row)
      /\ \A n : Nth(new, n) <=> Nth(row, n)
      /\ \A k : Occurrence(new, k) = Occurrence(row, k)
  BY DEF Regular, Nth, Monthly, Period, Offset, Occurrence
<1>2. ASSUME Covered(ch, row), Regular(new) PROVE Covered(ch, new)
  <2>1. PICK n \in 0 .. Len(ch) : Nth(row, n) /\ \A k \in 0 .. n - 1 : Occurrence(row, k) \in Range(ch)
    BY <1>1, <1>2 DEF Covered
  <2>2. Nth(new, n) /\ \A k \in 0 .. n - 1 : Occurrence(new, k) \in Range(ch)
    BY <1>1, <2>1
  <2> QED BY <2>2, Zenon DEF Covered
<1>3. Exact(ch, row) => Exact(ch, new)
  BY <1>1, Zenon DEF Exact
<1>4. ~Regular(new) => Covered(ch, new)
  BY DEF Covered
<1> QED BY <1>2, <1>3, <1>4

LEMMA NewRow ==
  ASSUME NEW row, RowOk(row), row.next = row.start
  PROVE  Covered(<<>>, row) /\ Exact(<<>>, row)
<1>1. Nth(row, 0) /\ Len(<<>>) = 0 /\ DOMAIN <<>> = {} /\ 0 \in 0 .. 0 /\ 0 .. 0 - 1 = {}
  BY Started
<1>2. Covered(<<>>, row)
  BY <1>1, Zenon DEF Covered
<1>3. Exact(<<>>, row)
  BY <1>1, Zenon DEF Exact
<1> QED BY <1>2, <1>3

OneMore(ch, x, new) ==
  /\ new \in Seq(Nat) /\ Len(new) = Len(ch) + 1 /\ Len(ch) \in Nat
  /\ DOMAIN new = 1 .. Len(ch) + 1 /\ DOMAIN ch = 1 .. Len(ch)
  /\ \A i \in DOMAIN ch : new[i] = ch[i]
  /\ new[Len(ch) + 1] = x
  /\ Range(ch) \subseteq Range(new) /\ x \in Range(new)

LEMMA Appended ==
  ASSUME NEW ch \in Seq(Nat), NEW x \in Nat
  PROVE  OneMore(ch, x, Append(ch, x))
<1> DEFINE new == Append(ch, x)
<1>1. /\ new \in Seq(Nat) /\ Len(new) = Len(ch) + 1 /\ Len(ch) \in Nat
      /\ DOMAIN new = 1 .. Len(ch) + 1 /\ DOMAIN ch = 1 .. Len(ch)
      /\ \A i \in DOMAIN ch : new[i] = ch[i]
      /\ new[Len(ch) + 1] = x
  OBVIOUS
<1>2. Range(ch) \subseteq Range(new)
  <2>1. \A i \in DOMAIN ch : i \in DOMAIN new /\ new[i] = ch[i]
    BY <1>1
  <2> QED BY <2>1, Zenon DEF Range
<1>3. x \in Range(new)
  <2>1. Len(ch) + 1 \in DOMAIN new
    BY <1>1
  <2> QED BY <1>1, <2>1, Zenon DEF Range
<1> QED BY <1>1, <1>2, <1>3 DEF OneMore

\* One more expense leaves covered what was, ...
LEMMA StillCovered ==
  ASSUME NEW ch \in Seq(Nat), NEW x \in Nat, NEW row, Covered(ch, row)
  PROVE  Covered(Append(ch, x), row)
<1> DEFINE new == Append(ch, x)
<1>1. Len(new) = Len(ch) + 1 /\ Len(ch) \in Nat /\ Range(ch) \subseteq Range(new)
  BY Appended DEF OneMore
<1> HIDE DEF new
<1> SUFFICES ASSUME Regular(row) PROVE Covered(new, row)
  BY DEF Covered, new
<1>2. PICK n \in 0 .. Len(ch) : Nth(row, n) /\ \A k \in 0 .. n - 1 : Occurrence(row, k) \in Range(ch)
  BY DEF Covered
<1>3. n \in 0 .. Len(new)
  BY <1>1
<1> QED BY <1>1, <1>2, <1>3, Zenon DEF Covered

\* ... and the row that is charged covered to its next date.
LEMMA ChargedRow ==
  ASSUME NEW ch \in Seq(Nat), NEW row, RowOk(row), NEW d \in Days, row.next <= d
  PROVE  /\ Covered(ch, row) => Covered(Append(ch, row.next), Advanced(row))
         /\ Exact(ch, row) => Exact(Append(ch, row.next), Advanced(row))
<1> DEFINE new == Append(ch, row.next)
           after == Advanced(row)
<1>1. row.next \in Nat
  BY Periods DEF RowOk
<1>2. /\ Len(new) = Len(ch) + 1 /\ Len(ch) \in Nat /\ DOMAIN new = 1 .. Len(ch) + 1
      /\ DOMAIN ch = 1 .. Len(ch) /\ \A i \in DOMAIN ch : new[i] = ch[i]
      /\ new[Len(ch) + 1] = row.next /\ Range(ch) \subseteq Range(new) /\ row.next \in Range(new)
  BY <1>1, Appended DEF OneMore
<1>3. after.start = row.start /\ after.every = row.every
  BY AdvancedRow
<1>4. (Regular(after) <=> Regular(row)) /\ \A k : Occurrence(after, k) = Occurrence(row, k)
  BY <1>3 DEF Regular, Occurrence
<1>5. ASSUME Regular(row), NEW n \in Nat, Nth(row, n)
      PROVE  Nth(after, n + 1) /\ Occurrence(after, n) = row.next
  BY <1>4, <1>5, NextDate, NthIsOccurrence
<1> HIDE DEF new, after
<1>6. ASSUME Covered(ch, row) PROVE Covered(new, after)
  <2> SUFFICES ASSUME Regular(after) PROVE Covered(new, after)
    BY DEF Covered
  <2>1. PICK n \in 0 .. Len(ch) : Nth(row, n) /\ \A k \in 0 .. n - 1 : Occurrence(row, k) \in Range(ch)
    BY <1>4, <1>6 DEF Covered
  <2>2. n \in Nat /\ n + 1 \in 0 .. Len(new) /\ Nth(after, n + 1) /\ Occurrence(after, n) = row.next
    BY <1>2, <1>4, <1>5, <2>1
  <2>3. ASSUME NEW k \in 0 .. (n + 1) - 1 PROVE Occurrence(after, k) \in Range(new)
    <3>1. CASE k = n
      BY <1>2, <2>2, <3>1
    <3>2. CASE k # n
      <4>1. k \in 0 .. n - 1
        BY <2>2, <3>2
      <4> QED BY <1>2, <1>4, <2>1, <4>1
    <3> QED BY <3>1, <3>2
  <2> QED BY <2>2, <2>3, Zenon DEF Covered
<1>7. ASSUME Exact(ch, row) PROVE Exact(new, after)
  <2> SUFFICES ASSUME Regular(after) PROVE Exact(new, after)
    BY DEF Exact
  <2>1. Nth(row, Len(ch)) /\ \A i \in DOMAIN ch : ch[i] = Occurrence(row, i - 1)
    BY <1>4, <1>7 DEF Exact
  <2>2. Nth(after, Len(ch) + 1) /\ Occurrence(after, Len(ch)) = row.next
    BY <1>2, <1>4, <1>5, <2>1
  <2>3. ASSUME NEW i \in DOMAIN new PROVE new[i] = Occurrence(after, i - 1)
    <3>1. CASE i = Len(ch) + 1
      <4>1. i - 1 = Len(ch)
        BY <1>2, <3>1
      <4> QED BY <1>2, <2>2, <3>1, <4>1
    <3>2. CASE i # Len(ch) + 1
      <4>1. i \in DOMAIN ch
        BY <1>2, <3>2
      <4> QED BY <1>2, <1>4, <2>1, <4>1
    <3> QED BY <3>1, <3>2
  <2>4. Nth(after, Len(new))
    BY <1>2, <2>2
  <2> QED BY <2>3, <2>4, Zenon DEF Exact
<1> QED BY <1>6, <1>7 DEF new, after

-----------------------------------------------------------------------------
(* The templates and their edits. *)

LEMMA Parts ==
  ASSUME RecurringInv
  PROVE  /\ Counted /\ Typed(template, run, edit, charged)
         /\ FrequencyKept => /\ AllCovered(template, run, edit, charged)
                             /\ \A t \in Templates \ disturbed : Kept(t, template, run, edit, charged)
BY DEF RecurringInv, AllKept

LEMMA CreateKeeps ==
  ASSUME RecurringInv, NEW t \in Templates, NEW row \in NewRows, Create(t, row)
  PROVE  RecurringInv'
<1>1. /\ t \notin DOMAIN template /\ charged[t] = <<>> /\ t \notin Held /\ row.next = row.start
      /\ template' = Save(template, t, row)
      /\ run' = run /\ edit' = edit /\ charged' = charged /\ disturbed' = disturbed
      /\ today' = today /\ edits' = edits /\ faults' = faults
  BY DEF Create
<1>2. RowOk(row)
  BY <1>1, RecurringAssumption DEF RowOk
<1>3. /\ DOMAIN template' = DOMAIN template \cup {t} /\ template'[t] = row /\ Whole(template')
      /\ \A x \in DOMAIN template : x # t /\ template'[x] = template[x]
  <2>1. HasSaved(template', template, t, row)
    BY <1>1, Saved, Zenon
  <2> QED BY <1>1, <2>1 DEF HasSaved
<1>4. Counted'
  BY <1>1, Parts DEF Counted
<1>5. Typed(template', run', edit', charged')
  BY <1>1, <1>2, <1>3, Parts DEF Typed
<1>6. ASSUME FrequencyKept PROVE AllCovered(template', run', edit', charged')
  <2>1. AllCovered(template, run, edit, charged)
    BY <1>6, Parts
  <2>2. Covered(charged[t], row)
    BY <1>1, <1>2, NewRow
  <2> QED BY <1>1, <1>3, <2>1, <2>2 DEF AllCovered
<1>7. ASSUME FrequencyKept, NEW x \in Templates \ disturbed PROVE Kept(x, template', run', edit', charged')
  <2>1. Kept(x, template, run, edit, charged)
    BY <1>7, Parts
  <2>2. Exact(charged[t], row)
    BY <1>1, <1>2, NewRow
  <2> QED BY <1>1, <1>3, <2>1, <2>2 DEF Kept
<1> QED BY <1>1, <1>4, <1>5, <1>6, <1>7 DEF RecurringInv, AllKept

\* The columns an update gives leave the dates of the row alone.
LEMMA Changed ==
  ASSUME NEW row, RowOk(row), NEW c \in Changes, NEW new, new = Over(c, row)
  PROVE  /\ RowOk(new) /\ new.start = row.start /\ new.next = row.next
         /\ FrequencyKept => new.every = row.every
<1> DEFINE Names == {"start", "next", "end", "active", "every", "items", "amount"}
<1>1. /\ row \in Row /\ DOMAIN row = Names
      /\ row.start \in Nat /\ row.next \in Nat /\ row.end \in Nat \cup {None}
      /\ row.every \in Recurrences
  BY DEF RowOk, Row
<1>2. row.active \in BOOLEAN /\ row.items \in BOOLEAN /\ row.amount \in BOOLEAN
  BY <1>1, Zenon DEF Row
<1>3. /\ DOMAIN Given = {"end", "active", "every", "items", "amount"}
      /\ Given["end"] = Nat \cup {None} /\ Given["every"] = Recurrences
      /\ Given["active"] = BOOLEAN /\ Given["items"] = BOOLEAN /\ Given["amount"] = BOOLEAN
  BY DEF Given
<1>4. /\ DOMAIN c \subseteq DOMAIN Given /\ \A x \in DOMAIN c : c[x] \in Given[x]
      /\ FrequencyKept => "every" \notin DOMAIN c
  BY RecurringAssumption DEF FrequencyKept
<1>5. DOMAIN new = Names /\ \A x \in Names : new[x] = IF x \in DOMAIN c THEN c[x] ELSE row[x]
  BY <1>1, <1>3, <1>4 DEF Over
<1>6. new["start"] = row["start"] /\ new["next"] = row["next"]
      /\ (FrequencyKept => new["every"] = row["every"])
  BY <1>3, <1>4, <1>5
<1>7. new["end"] \in Nat \cup {None} /\ new["every"] \in Recurrences
  BY <1>1, <1>3, <1>4, <1>5
<1>8. \A x \in {"active", "items", "amount"} : new[x] \in BOOLEAN
  <2>1. ASSUME NEW x \in {"active", "items", "amount"} PROVE new[x] \in BOOLEAN
    <3>1. x \in Names /\ Given[x] = BOOLEAN
      BY <1>3, <2>1
    <3>2. row[x] \in BOOLEAN
      BY <1>2, <2>1
    <3>3. CASE x \in DOMAIN c
      <4>1. new[x] = c[x]
        BY <1>5, <3>1, <3>3
      <4>2. c[x] \in Given[x]
        BY <1>4, <3>3
      <4> QED BY <3>1, <4>1, <4>2, Zenon
    <3>4. CASE x \notin DOMAIN c
      <4>1. new[x] = row[x]
        BY <1>5, <3>1, <3>4
      <4> QED BY <3>2, <4>1, Zenon
    <3> QED BY <3>3, <3>4
  <2> QED BY <2>1, Zenon
<1>9. new = [start |-> new.start, next |-> new.next, end |-> new.end, active |-> new.active,
             every |-> new.every, items |-> new.items, amount |-> new.amount]
  <2>1. new = [x \in Names |-> new[x]]
    BY <1>1, <1>3, <1>4 DEF Over
  <2> QED BY <1>5, <2>1
<1>10. new.active \in BOOLEAN /\ new.items \in BOOLEAN /\ new.amount \in BOOLEAN
  BY <1>8, Zenon
<1>11. new \in Row
  <2> DEFINE s == new.start
             n == new.next
             f == new.end
             a == new.active
             p == new.every
             i == new.items
             m == new.amount
  <2>1. /\ new = [start |-> s, next |-> n, end |-> f, active |-> a, every |-> p, items |-> i, amount |-> m]
        /\ s \in Nat /\ n \in Nat /\ f \in Nat \cup {None} /\ p \in Recurrences
    BY <1>1, <1>6, <1>7, <1>9
  <2>2. a \in BOOLEAN /\ i \in BOOLEAN /\ m \in BOOLEAN
    BY <1>10
  <2> HIDE DEF s, n, f, a, p, i, m
  <2>3. [start |-> s, next |-> n, end |-> f, active |-> a, every |-> p, items |-> i, amount |-> m] \in Row
    <3>1. s \in Nat /\ n \in Nat /\ f \in Nat \cup {None} /\ p \in Recurrences
      BY <2>1
    <3> QED BY <2>2, <3>1, Zenon DEF Row
  <2> QED BY <2>1, <2>3
<1> QED BY <1>6, <1>11 DEF RowOk

LEMMA ItemsGone ==
  ASSUME NEW row, RowOk(row), NEW new, new = [row EXCEPT !.items = FALSE]
  PROVE  RowOk(new) /\ new.start = row.start /\ new.next = row.next /\ new.every = row.every
<1>1. row \in Row
  BY DEF RowOk
<1>2. new \in Row
  BY <1>1, Zenon DEF Row
<1>3. new.start = row.start /\ new.next = row.next /\ new.every = row.every
  BY <1>1 DEF Row
<1> QED BY <1>2, <1>3 DEF RowOk

LEMMA BeginUpdateKeeps ==
  ASSUME RecurringInv, NEW e \in Editors, NEW t \in Templates, NEW c \in Changes, BeginUpdate(e, t, c)
  PROVE  RecurringInv'
<1> DEFINE row == template[t]
           new == Over(c, row)
<1>1. /\ edits < MaxEdits /\ edits' = edits + 1 /\ e \notin DOMAIN edit /\ t \in DOMAIN template
      /\ edit' = Save(edit, e, [id |-> t, row |-> new])
      /\ template' = IF "items" \in DOMAIN c THEN [template EXCEPT ![t].items = FALSE] ELSE template
      /\ disturbed' = disturbed \cup ({t} \cap Held)
      /\ today' = today /\ charged' = charged /\ run' = run /\ faults' = faults
  BY DEF BeginUpdate, Disturb
<1>2. RowOk(row) /\ Whole(template)
  BY <1>1, Parts DEF Typed
<1>3. /\ RowOk(new) /\ new.start = row.start /\ new.next = row.next
      /\ FrequencyKept => new.every = row.every
  BY <1>2, Changed
<1>4. /\ DOMAIN template' = DOMAIN template /\ Whole(template')
      /\ \A x \in DOMAIN template : x # t => template'[x] = template[x]
      /\ RowOk(template'[t]) /\ template'[t].start = row.start /\ template'[t].next = row.next
      /\ template'[t].every = row.every
  <2>1. CASE "items" \in DOMAIN c
    <3>1. template' = [template EXCEPT ![t] = [row EXCEPT !.items = FALSE]]
      BY <1>1, <2>1
    <3>2. /\ DOMAIN template' = DOMAIN template /\ template' = [x \in DOMAIN template |-> template'[x]]
          /\ \A x \in DOMAIN template : x # t => template'[x] = template[x]
          /\ template'[t] = [row EXCEPT !.items = FALSE]
      BY <1>1, <1>2, <3>1 DEF Whole
    <3> QED BY <1>2, <3>2, ItemsGone DEF Whole
  <2>2. CASE "items" \notin DOMAIN c
    BY <1>1, <1>2, <2>2
  <2> QED BY <2>1, <2>2
<1> HIDE DEF row, new
<1>5. /\ DOMAIN edit' = DOMAIN edit \cup {e} /\ Whole(edit')
      /\ edit'[e].id = t /\ edit'[e].row = new
      /\ \A f \in DOMAIN edit : f # e /\ edit'[f] = edit[f]
  <2> DEFINE q == [id |-> t, row |-> new]
  <2>1. q.id = t /\ q.row = new
    OBVIOUS
  <2> HIDE DEF q
  <2>2. edit' = Save(edit, e, q)
    BY <1>1 DEF q
  <2>3. HasSaved(edit', edit, e, q)
    BY <2>2, Saved, Zenon
  <2> QED BY <1>1, <2>1, <2>3 DEF HasSaved
<1>6. Counted'
  BY <1>1, Parts, RecurringAssumption DEF Counted
<1>7. Typed(template', run', edit', charged')
  BY <1>1, <1>3, <1>4, <1>5, Parts DEF Typed
<1>8. ASSUME FrequencyKept, NEW ch
      PROVE  /\ Covered(ch, row) => Covered(ch, new) /\ Covered(ch, template'[t])
             /\ Exact(ch, row) => Exact(ch, new) /\ Exact(ch, template'[t])
  BY <1>3, <1>4, <1>8, SameDates
<1>9. ASSUME FrequencyKept PROVE AllCovered(template', run', edit', charged')
  <2>1. AllCovered(template, run, edit, charged)
    BY <1>9, Parts
  <2>2. Covered(charged[t], new) /\ Covered(charged[t], template'[t])
    BY <1>1, <1>8, <1>9, <2>1 DEF AllCovered, row
  <2> QED BY <1>1, <1>4, <1>5, <2>1, <2>2 DEF AllCovered
<1>10. ASSUME FrequencyKept, NEW x \in Templates \ disturbed' PROVE Kept(x, template', run', edit', charged')
  <2>1. x \notin disturbed /\ Kept(x, template, run, edit, charged)
    BY <1>1, <1>10, Parts
  <2>2. CASE x # t
    <3>1. Alone(x, run', edit')
      BY <1>1, <1>5, <2>1, <2>2 DEF Kept, Alone
    <3>2. template'[x] = template[x] \/ x \notin DOMAIN template
      BY <1>4, <2>2
    <3> QED BY <1>1, <1>4, <1>5, <2>1, <2>2, <3>1, <3>2 DEF Kept
  <2>3. CASE x = t
    <3>1. t \notin Held
      BY <1>1, <1>10, <2>3
    <3>2. /\ \A w \in DOMAIN run : t \notin DOMAIN run[w].due
          /\ \A f \in DOMAIN edit : edit[f].id # t
      BY <3>1, NotHeld
    <3>3. ~AtWork(t, run) /\ Alone(t, run', edit')
      BY <1>1, <1>5, <3>2 DEF AtWork, Alone
    <3>4. Exact(charged[t], row)
      BY <1>1, <2>1, <2>3, <3>3 DEF Kept, row
    <3>5. Exact(charged[t], new) /\ Exact(charged[t], template'[t])
      BY <1>8, <1>10, <3>4
    <3> QED BY <1>1, <1>5, <2>3, <3>2, <3>3, <3>5 DEF Kept
  <2> QED BY <2>2, <2>3
<1> QED BY <1>6, <1>7, <1>9, <1>10 DEF RecurringInv, AllKept

LEMMA SaveUpdateKeeps ==
  ASSUME RecurringInv, NEW e \in Editors, SaveUpdate(e)
  PROVE  RecurringInv'
<1> DEFINE t == edit[e].id
           row == edit[e].row
<1>1. /\ e \in DOMAIN edit /\ template' = Save(template, t, row) /\ edit' = Without(edit, e)
      /\ today' = today /\ charged' = charged /\ run' = run /\ edits' = edits /\ faults' = faults
      /\ disturbed' = disturbed
  BY DEF SaveUpdate
<1>2. t \in Templates /\ RowOk(row)
  BY <1>1, Parts DEF Typed
<1>3. /\ DOMAIN template' = DOMAIN template \cup {t} /\ template'[t] = row /\ Whole(template')
      /\ \A x \in DOMAIN template : x # t => template'[x] = template[x]
  <2>1. HasSaved(template', template, t, row)
    BY <1>1, Saved, Zenon
  <2> HIDE DEF t, row
  <2> QED BY <2>1 DEF HasSaved
<1>4. /\ DOMAIN edit' = DOMAIN edit \ {e} /\ Whole(edit')
      /\ \A f \in DOMAIN edit' : f \in DOMAIN edit /\ f # e /\ edit'[f] = edit[f]
  <2>1. HasLeftOut(edit', edit, e)
    BY <1>1, LeftOut, Zenon
  <2> QED BY <2>1 DEF HasLeftOut
<1>5. Counted'
  BY <1>1, Parts DEF Counted
<1>6. Typed(template', run', edit', charged')
  BY <1>1, <1>2, <1>3, <1>4, Parts DEF Typed
<1>7. ASSUME FrequencyKept PROVE AllCovered(template', run', edit', charged')
  <2>1. AllCovered(template, run, edit, charged)
    BY <1>7, Parts
  <2>2. Covered(charged[t], row)
    BY <1>1, <2>1 DEF AllCovered
  <2> QED BY <1>1, <1>3, <1>4, <2>1, <2>2 DEF AllCovered
<1>8. ASSUME FrequencyKept, NEW x \in Templates \ disturbed' PROVE Kept(x, template', run', edit', charged')
  <2>1. Kept(x, template, run, edit, charged)
    BY <1>1, <1>8, Parts
  <2>2. Alone(x, run', edit')
    BY <1>1, <1>4, <2>1 DEF Kept, Alone
  <2>3. x = t => Exact(charged[x], row)
    BY <1>1, <2>1 DEF Kept
  <2> HIDE DEF t, row
  <2> QED BY <1>1, <1>3, <1>4, <2>1, <2>2, <2>3 DEF Kept
<1> QED BY <1>5, <1>6, <1>7, <1>8 DEF RecurringInv, AllKept

LEMMA RemoveKeeps ==
  ASSUME RecurringInv, NEW t \in Templates, Remove(t)
  PROVE  RecurringInv'
<1>1. /\ edits < MaxEdits /\ edits' = edits + 1 /\ template' = Without(template, t)
      /\ disturbed' = disturbed \cup ({t} \cap Held)
      /\ today' = today /\ charged' = charged /\ run' = run /\ edit' = edit /\ faults' = faults
  BY DEF Remove, Disturb
<1>2. /\ Whole(template')
      /\ \A x \in DOMAIN template' : x \in DOMAIN template /\ template'[x] = template[x]
  <2>1. HasLeftOut(template', template, t)
    BY <1>1, LeftOut, Zenon
  <2> QED BY <2>1 DEF HasLeftOut
<1>3. Counted'
  BY <1>1, Parts, RecurringAssumption DEF Counted
<1>4. Typed(template', run', edit', charged')
  BY <1>1, <1>2, Parts DEF Typed
<1>5. ASSUME FrequencyKept PROVE AllCovered(template', run', edit', charged')
  BY <1>1, <1>2, <1>5, Parts DEF AllCovered
<1>6. ASSUME FrequencyKept, NEW x \in Templates \ disturbed' PROVE Kept(x, template', run', edit', charged')
  <2>1. Kept(x, template, run, edit, charged)
    BY <1>1, <1>6, Parts
  <2> QED BY <1>1, <1>2, <2>1 DEF Kept
<1> QED BY <1>3, <1>4, <1>5, <1>6 DEF RecurringInv, AllKept

-----------------------------------------------------------------------------
(* The executions. *)

LEMMA RunShaped ==
  ASSUME NEW d \in Days, NEW f, Whole(f), DOMAIN f \subseteq Templates, \A t \in DOMAIN f : RowOk(f[t]),
         NEW c \in DOMAIN f \cup {None}
  PROVE  RunShape([date |-> d, current |-> c, due |-> f])
<1> DEFINE q == [date |-> d, current |-> c, due |-> f]
<1>1. q.date = d /\ q.current = c /\ q.due = f /\ q = [date |-> q.date, current |-> q.current, due |-> q.due]
  OBVIOUS
<1> HIDE DEF q
<1>2. RunShape(q)
  BY <1>1 DEF RunShape
<1> QED BY <1>2 DEF q

\* What an execution has in hand.
LEMMA InHand ==
  ASSUME RecurringInv, NEW w \in DOMAIN run
  PROVE  /\ run[w].date \in Days /\ Whole(run[w].due) /\ DOMAIN run[w].due \subseteq Templates
         /\ run[w] = [date |-> run[w].date, current |-> run[w].current, due |-> run[w].due]
         /\ \A t \in DOMAIN run[w].due : RowOk(run[w].due[t])
         /\ run[w].current # None => run[w].current \in DOMAIN run[w].due
         /\ Whole(run) /\ DOMAIN run \subseteq Runners
BY Parts DEF Typed, RunShape

LEMMA BeginRunKeeps ==
  ASSUME RecurringInv, NEW w \in Runners, BeginRun(w)
  PROVE  RecurringInv'
<1> DEFINE ids == {t \in DOMAIN template : DueOn(template[t], today)}
           due == Restrict(template, ids)
           q == [date |-> today, current |-> None, due |-> due]
<1>1. /\ w \notin DOMAIN run /\ run' = Save(run, w, q) /\ disturbed' = disturbed \cup (ids \cap Held)
      /\ today' = today /\ template' = template /\ charged' = charged /\ edit' = edit
      /\ edits' = edits /\ faults' = faults
  BY DEF BeginRun, Disturb
<1>2. ids \subseteq DOMAIN template
  OBVIOUS
<1>3. today \in Days /\ DOMAIN template \subseteq Templates /\ \A t \in DOMAIN template : RowOk(template[t])
  BY Parts DEF Counted, Typed
<1> HIDE DEF ids
<1>4. DOMAIN due = ids /\ Whole(due) /\ \A t \in ids : due[t] = template[t]
  BY <1>2 DEF Restrict, Whole
<1>5. q.date = today /\ q.current = None /\ q.due = due
  OBVIOUS
<1> HIDE DEF due
<1>6. RunShape(q)
  BY <1>2, <1>3, <1>4, RunShaped
<1> HIDE DEF q
<1>7. /\ DOMAIN run' = DOMAIN run \cup {w} /\ run'[w] = q /\ Whole(run')
      /\ \A v \in DOMAIN run : v # w /\ run'[v] = run[v]
  <2>1. HasSaved(run', run, w, q)
    BY <1>1, Saved, Zenon
  <2> QED BY <1>1, <2>1 DEF HasSaved
<1>8. Counted'
  BY <1>1, <1>2, <1>3, Parts DEF Counted
<1>9. Typed(template', run', edit', charged')
  BY <1>1, <1>6, <1>7, Parts DEF Typed
<1>10. ASSUME FrequencyKept PROVE AllCovered(template', run', edit', charged')
  <2>1. AllCovered(template, run, edit, charged)
    BY <1>10, Parts
  <2> QED BY <1>1, <1>2, <1>4, <1>5, <1>7, <2>1 DEF AllCovered
<1>11. ASSUME FrequencyKept, NEW x \in Templates \ disturbed' PROVE Kept(x, template', run', edit', charged')
  <2>1. Kept(x, template, run, edit, charged)
    BY <1>1, <1>11, Parts
  <2>2. AtWork(x, run) => AtWork(x, run')
    BY <1>7 DEF AtWork
  <2>3. CASE x \notin ids
    <3>1. Alone(x, run', edit')
      BY <1>1, <1>4, <1>5, <1>7, <2>1, <2>3 DEF Kept, Alone
    <3> QED BY <1>1, <1>4, <1>5, <1>7, <2>1, <2>2, <2>3, <3>1 DEF Kept
  <2>4. CASE x \in ids
    <3>1. /\ \A v \in DOMAIN run : x \notin DOMAIN run[v].due
          /\ \A e \in DOMAIN edit : edit[e].id # x
      BY <1>1, <1>11, <2>4, NotHeld
    <3>2. Alone(x, run', edit') /\ ~AtWork(x, run)
      BY <1>1, <1>7, <3>1 DEF Alone, AtWork
    <3>3. Exact(charged[x], template[x])
      BY <1>2, <2>1, <2>4, <3>2 DEF Kept
    <3> QED BY <1>1, <1>4, <1>5, <1>7, <2>4, <3>1, <3>2, <3>3 DEF Kept
  <2> QED BY <2>3, <2>4
<1> QED BY <1>8, <1>9, <1>10, <1>11 DEF RecurringInv, AllKept

LEMMA PickKeeps ==
  ASSUME RecurringInv, NEW w \in Runners, NEW t \in Templates, Pick(w, t)
  PROVE  RecurringInv'
<1>1. /\ w \in DOMAIN run /\ run[w].current = None /\ t \in DOMAIN run[w].due
      /\ run' = [run EXCEPT ![w] = [run[w] EXCEPT !.current = t]]
      /\ today' = today /\ template' = template /\ charged' = charged /\ edit' = edit
      /\ edits' = edits /\ faults' = faults /\ disturbed' = disturbed
  BY DEF Pick
<1> DEFINE d == run[w].date
           f == run[w].due
           q == [date |-> d, current |-> t, due |-> f]
<1>2. d \in Days /\ Whole(f) /\ DOMAIN f \subseteq Templates /\ \A x \in DOMAIN f : RowOk(f[x])
  BY <1>1, InHand
<1>3. [run[w] EXCEPT !.current = t] = q
  <2>1. run[w] = [date |-> d, current |-> run[w].current, due |-> f]
    BY <1>1, InHand
  <2> QED BY <2>1
<1>4. q.date = d /\ q.current = t /\ q.due = run[w].due
  OBVIOUS
<1>5. RunShape(q)
  <2>1. t \in DOMAIN f \cup {None}
    BY <1>1
  <2> HIDE DEF d, f
  <2> QED BY <1>2, <2>1, RunShaped
<1> HIDE DEF q
<1>6. /\ DOMAIN run' = DOMAIN run /\ Whole(run') /\ run'[w] = q
      /\ \A v \in DOMAIN run : v # w => run'[v] = run[v]
  <2>1. run' = [run EXCEPT ![w] = q] /\ Whole(run)
    BY <1>1, <1>3, InHand, Zenon
  <2> QED BY <1>1, <2>1 DEF Whole
<1>7. Counted'
  BY <1>1, Parts DEF Counted
<1>8. Typed(template', run', edit', charged')
  BY <1>1, <1>5, <1>6, Parts DEF Typed
<1>9. \A v \in DOMAIN run : run'[v].due = run[v].due
  BY <1>4, <1>6
<1>10. ASSUME FrequencyKept PROVE AllCovered(template', run', edit', charged')
  BY <1>1, <1>6, <1>9, <1>10, Parts DEF AllCovered
<1>11. ASSUME FrequencyKept, NEW x \in Templates \ disturbed' PROVE Kept(x, template', run', edit', charged')
  <2>1. Kept(x, template, run, edit, charged)
    BY <1>1, <1>11, Parts
  <2>2. Alone(x, run', edit')
    BY <1>1, <1>6, <1>9, <2>1 DEF Kept, Alone
  <2>3. AtWork(x, run) => AtWork(x, run')
    <3>1. ASSUME NEW v \in DOMAIN run, x \in DOMAIN run[v].due, run[v].current = x PROVE AtWork(x, run')
      <4>1. v # w
        BY <1>1, <3>1, RecurringAssumption
      <4> QED BY <1>6, <3>1, <4>1 DEF AtWork
    <3> QED BY <3>1 DEF AtWork
  <2> QED BY <1>1, <1>6, <1>9, <2>1, <2>2, <2>3 DEF Kept
<1> QED BY <1>7, <1>8, <1>10, <1>11 DEF RecurringInv, AllKept

LEMMA MaterializeKeeps ==
  ASSUME RecurringInv, NEW w \in Runners, Materialize(w)
  PROVE  RecurringInv'
<1> DEFINE t == run[w].current
           f == run[w].due
           row == f[t]
           ch == charged[t]
           d == run[w].date
           new == [f EXCEPT ![t] = Advanced(row)]
           q == [date |-> d, current |-> t, due |-> new]
<1>1. /\ w \in DOMAIN run /\ t # None /\ row.next <= d
      /\ charged' = [charged EXCEPT ![t] = Append(ch, row.next)]
      /\ run' = [run EXCEPT ![w] = [run[w] EXCEPT !.due = new]]
      /\ today' = today /\ template' = template /\ edit' = edit
      /\ edits' = edits /\ faults' = faults /\ disturbed' = disturbed
  BY DEF Materialize, Working, Copy, Occurs, DueOn
<1>2. /\ d \in Days /\ Whole(f) /\ DOMAIN f \subseteq Templates /\ \A x \in DOMAIN f : RowOk(f[x])
      /\ t \in DOMAIN f
  BY <1>1, InHand
<1>3. [run[w] EXCEPT !.due = new] = q
  <2>1. run[w] = [date |-> d, current |-> t, due |-> f]
    BY <1>1, InHand
  <2> HIDE DEF new
  <2> QED BY <2>1
<1>4. q.date = d /\ q.current = t /\ q.due = new
  OBVIOUS
<1>5. RowOk(row) /\ RowOk(Advanced(row)) /\ row.next \in Nat /\ t \in Templates
  <2>1. RowOk(row) /\ t \in Templates
    BY <1>2
  <2> HIDE DEF row, d, t
  <2>2. RowOk(Advanced(row))
    BY <1>1, <1>2, <2>1, AdvancedRow
  <2> QED BY <2>1, <2>2, Periods DEF RowOk
<1> HIDE DEF q, row
<1>6. DOMAIN new = DOMAIN f /\ Whole(new) /\ new[t] = Advanced(row)
      /\ \A x \in DOMAIN f : x # t => new[x] = f[x]
  BY <1>2 DEF Whole
<1>7. /\ DOMAIN run' = DOMAIN run /\ Whole(run') /\ run'[w] = q
      /\ \A v \in DOMAIN run : v # w => run'[v] = run[v]
  <2>1. run' = [run EXCEPT ![w] = q] /\ Whole(run)
    BY <1>1, <1>3, InHand, Zenon
  <2> QED BY <1>1, <2>1 DEF Whole
<1>8. charged \in [Templates -> Seq(Nat)] /\ ch \in Seq(Nat)
  BY <1>5, Parts DEF Typed
<1> HIDE DEF new, d
<1>9. RunShape(q)
  <2>1. \A x \in DOMAIN new : RowOk(new[x])
    BY <1>2, <1>5, <1>6
  <2>2. RunShape([date |-> d, current |-> t, due |-> new])
    BY <1>2, <1>6, <2>1, RunShaped
  <2> QED BY <2>2 DEF q
<1> HIDE DEF t, f
<1>10. /\ charged' \in [Templates -> Seq(Nat)] /\ charged'[t] = Append(ch, row.next)
       /\ \A x \in Templates : x # t => charged'[x] = charged[x]
  <2> HIDE DEF ch
  <2>1. Append(ch, row.next) \in Seq(Nat)
    BY <1>5, <1>8
  <2> QED BY <1>1, <1>5, <1>8, <2>1
<1>11. Counted'
  BY <1>1, Parts DEF Counted
<1>12. Typed(template', run', edit', charged')
  BY <1>1, <1>7, <1>9, <1>10, Parts DEF Typed
<1>13. /\ Covered(ch, row) => Covered(charged'[t], Advanced(row))
       /\ Exact(ch, row) => Exact(charged'[t], Advanced(row))
       /\ \A other : Covered(ch, other) => Covered(charged'[t], other)
  <2> HIDE DEF ch
  <2> QED BY <1>1, <1>2, <1>5, <1>8, <1>10, ChargedRow, StillCovered
<1>14. ASSUME NEW x \in Templates, NEW other, Covered(charged[x], other) PROVE Covered(charged'[x], other)
  BY <1>10, <1>13, <1>14
<1>15. run[w].due = f /\ run[w].current = t /\ row = f[t]
  BY DEF f, t, row
<1>16. ASSUME FrequencyKept PROVE AllCovered(template', run', edit', charged')
  <2>1. AllCovered(template, run, edit, charged)
    BY <1>16, Parts
  <2>2. \A x \in DOMAIN template : Covered(charged'[x], template'[x])
    BY <1>1, <1>14, <2>1, Parts DEF AllCovered, Typed
  <2>3. \A e \in DOMAIN edit : Covered(charged'[edit[e].id], edit'[e].row)
    BY <1>1, <1>14, <2>1, Parts DEF AllCovered, Typed
  <2>4. ASSUME NEW v \in DOMAIN run, NEW x \in DOMAIN run'[v].due PROVE Covered(charged'[x], run'[v].due[x])
    <3>1. CASE v # w
      <4>1. x \in Templates /\ Covered(charged[x], run[v].due[x]) /\ run'[v] = run[v]
        BY <1>7, <2>1, <2>4, <3>1, InHand DEF AllCovered
      <4> QED BY <1>14, <4>1
    <3>2. CASE v = w
      <4>1. x \in DOMAIN f /\ x \in Templates /\ run'[v].due[x] = new[x]
        BY <1>2, <1>4, <1>6, <1>7, <2>4, <3>2
      <4>2. Covered(charged[x], f[x])
        BY <1>1, <1>15, <2>1, <4>1 DEF AllCovered
      <4>3. CASE x = t
        BY <1>6, <1>13, <1>15, <4>1, <4>2, <4>3
      <4>4. CASE x # t
        BY <1>6, <1>14, <4>1, <4>2, <4>4
      <4> QED BY <4>3, <4>4
    <3> QED BY <3>1, <3>2
  <2> QED BY <1>1, <1>7, <2>2, <2>3, <2>4 DEF AllCovered
<1>17. \A v \in DOMAIN run : DOMAIN run'[v].due = DOMAIN run[v].due /\ run'[v].current = run[v].current
  BY <1>4, <1>6, <1>7, <1>15
<1>18. ASSUME FrequencyKept, NEW x \in Templates \ disturbed' PROVE Kept(x, template', run', edit', charged')
  <2>1. Kept(x, template, run, edit, charged)
    BY <1>1, <1>18, Parts
  <2>2. Alone(x, run', edit') /\ (AtWork(x, run') <=> AtWork(x, run))
    BY <1>1, <1>7, <1>17, <2>1 DEF Kept, Alone, AtWork
  <2>3. CASE x # t
    <3>1. \A v \in DOMAIN run : x \in DOMAIN run[v].due => run'[v].due[x] = run[v].due[x]
      BY <1>4, <1>6, <1>7, <1>15, <2>3
    <3>2. charged'[x] = charged[x]
      BY <1>10, <2>3
    <3> QED BY <1>1, <1>7, <1>17, <2>1, <2>2, <3>1, <3>2 DEF Kept
  <2>4. CASE x = t
    <3>1. \A v \in DOMAIN run : x \in DOMAIN run[v].due => v = w
      BY <1>1, <1>2, <1>15, <2>1, <2>4 DEF Kept, Alone
    <3>2. \A e \in DOMAIN edit : edit[e].id # x
      BY <1>1, <1>2, <1>15, <2>1, <2>4 DEF Kept, Alone
    <3>3. AtWork(x, run')
      BY <1>1, <1>2, <1>15, <2>2, <2>4 DEF AtWork
    <3>4. Exact(charged[x], row)
      BY <1>1, <1>2, <1>15, <2>1, <2>4 DEF Kept
    <3>5. Exact(charged'[x], run'[w].due[x])
      BY <1>4, <1>6, <1>7, <1>13, <2>4, <3>4
    <3> QED BY <1>1, <1>7, <1>17, <2>2, <3>1, <3>2, <3>3, <3>5 DEF Kept
  <2> QED BY <2>3, <2>4
<1> QED BY <1>11, <1>12, <1>16, <1>18 DEF RecurringInv, AllKept

LEMMA SaveTemplateKeeps ==
  ASSUME RecurringInv, NEW w \in Runners, SaveTemplate(w)
  PROVE  RecurringInv'
<1> DEFINE t == run[w].current
           f == run[w].due
           row == f[t]
           d == run[w].date
           new == Without(f, t)
           q == [date |-> d, current |-> None, due |-> new]
<1>1. /\ w \in DOMAIN run /\ t # None
      /\ template' = Save(template, t, row)
      /\ run' = [run EXCEPT ![w].current = None, ![w].due = Without(@, t)]
      /\ today' = today /\ charged' = charged /\ edit' = edit
      /\ edits' = edits /\ faults' = faults /\ disturbed' = disturbed
  BY DEF SaveTemplate, Working, Copy
<1>2. /\ d \in Days /\ Whole(f) /\ DOMAIN f \subseteq Templates /\ \A x \in DOMAIN f : RowOk(f[x])
      /\ t \in DOMAIN f /\ Whole(run)
  BY <1>1, InHand
<1>3. run' = [run EXCEPT ![w] = q]
  <2>1. run[w] = [date |-> d, current |-> t, due |-> f]
    BY <1>1, InHand
  <2>2. [[run[w] EXCEPT !.current = None] EXCEPT !.due = new] = q
    <3>1. [run[w] EXCEPT !.current = None] = [date |-> d, current |-> None, due |-> f]
      BY <2>1
    <3> HIDE DEF new, d, f
    <3>2. [[date |-> d, current |-> None, due |-> f] EXCEPT !.due = new] = [date |-> d, current |-> None, due |-> new]
      OBVIOUS
    <3> QED BY <3>1, <3>2
  <2>3. run' = [run EXCEPT ![w] = [[run[w] EXCEPT !.current = None] EXCEPT !.due = new]]
    BY <1>1
  <2> HIDE DEF q, new
  <2> QED BY <2>2, <2>3
<1>4. q.date = d /\ q.current = None /\ q.due = new
  OBVIOUS
<1> HIDE DEF q
<1>5. DOMAIN new = DOMAIN f \ {t} /\ Whole(new) /\ \A x \in DOMAIN new : new[x] = f[x]
  <2>1. HasLeftOut(new, f, t)
    BY LeftOut
  <2> HIDE DEF new
  <2> QED BY <2>1 DEF HasLeftOut
<1> HIDE DEF new
<1>6. RowOk(row) /\ t \in Templates
  BY <1>2
<1>7. /\ DOMAIN template' = DOMAIN template \cup {t} /\ template'[t] = row /\ Whole(template')
      /\ \A x \in DOMAIN template : x # t => template'[x] = template[x]
  <2>1. HasSaved(template', template, t, row)
    BY <1>1, Saved, Zenon
  <2> HIDE DEF t, row
  <2> QED BY <2>1 DEF HasSaved
<1>8. /\ DOMAIN run' = DOMAIN run /\ Whole(run') /\ run'[w] = q
      /\ \A v \in DOMAIN run : v # w => run'[v] = run[v]
  BY <1>1, <1>2, <1>3 DEF Whole
<1> HIDE DEF d
<1>9. RunShape(q)
  <2>1. DOMAIN new \subseteq Templates /\ \A x \in DOMAIN new : RowOk(new[x])
    BY <1>2, <1>5
  <2>2. RunShape([date |-> d, current |-> None, due |-> new])
    BY <1>2, <1>5, <2>1, RunShaped
  <2> QED BY <2>2 DEF q
<1>10. Counted'
  BY <1>1, Parts DEF Counted
<1>11. run[w].due = f /\ run[w].current = t /\ row = f[t]
  OBVIOUS
<1> HIDE DEF t, f, row
<1>12. Typed(template', run', edit', charged')
  BY <1>1, <1>6, <1>7, <1>8, <1>9, Parts DEF Typed
<1>13. \A v \in DOMAIN run, x \in Templates : x \in DOMAIN run'[v].due =>
          x \in DOMAIN run[v].due /\ run'[v].due[x] = run[v].due[x]
  BY <1>4, <1>5, <1>8, <1>11
<1>14. ASSUME FrequencyKept PROVE AllCovered(template', run', edit', charged')
  <2>1. AllCovered(template, run, edit, charged)
    BY <1>14, Parts
  <2>2. Covered(charged[t], row)
    BY <1>1, <1>2, <1>11, <2>1 DEF AllCovered
  <2>3. \A v \in DOMAIN run : \A x \in DOMAIN run'[v].due : x \in Templates
    BY <1>8, <1>12 DEF Typed, RunShape
  <2> QED BY <1>1, <1>7, <1>8, <1>13, <2>1, <2>2, <2>3 DEF AllCovered
<1>15. ASSUME FrequencyKept, NEW x \in Templates \ disturbed' PROVE Kept(x, template', run', edit', charged')
  <2>1. Kept(x, template, run, edit, charged)
    BY <1>1, <1>15, Parts
  <2>2. Alone(x, run', edit')
    BY <1>1, <1>8, <1>13, <2>1 DEF Kept, Alone
  <2>3. CASE x # t
    <3>1. AtWork(x, run) => AtWork(x, run')
      <4>1. ASSUME NEW v \in DOMAIN run, x \in DOMAIN run[v].due, run[v].current = x PROVE AtWork(x, run')
        <5>1. v # w
          BY <1>11, <2>3, <4>1
        <5> QED BY <1>8, <4>1, <5>1 DEF AtWork
      <4> QED BY <4>1 DEF AtWork
    <3> QED BY <1>1, <1>7, <1>8, <1>13, <2>1, <2>2, <2>3, <3>1 DEF Kept
  <2>4. CASE x = t
    <3>1. Exact(charged[x], row)
      BY <1>1, <1>2, <1>11, <2>1, <2>4 DEF Kept
    <3> QED BY <1>1, <1>7, <1>8, <1>13, <2>1, <2>2, <2>4, <3>1 DEF Kept
  <2> QED BY <2>3, <2>4
<1> QED BY <1>10, <1>12, <1>14, <1>15 DEF RecurringInv, AllKept

\* An execution that ends, or that an exception ends, leaves the rest as it was.
RunGone(w) ==
  /\ run' = Without(run, w) /\ disturbed \subseteq disturbed'
  /\ UNCHANGED <<template, charged, edit>>

LEMMA RunGoneKeeps ==
  ASSUME RecurringInv, NEW w \in DOMAIN run, RunGone(w), run[w].current \in disturbed' \cup {None}
  PROVE  /\ Typed(template', run', edit', charged')
         /\ FrequencyKept => /\ AllCovered(template', run', edit', charged')
                             /\ AllKept(template', run', edit', charged', disturbed')
<1>1. template' = template /\ charged' = charged /\ edit' = edit /\ run' = Without(run, w)
      /\ disturbed \subseteq disturbed'
  BY DEF RunGone
<1>2. /\ DOMAIN run' = DOMAIN run \ {w} /\ Whole(run')
      /\ \A v \in DOMAIN run' : v \in DOMAIN run /\ run'[v] = run[v]
  <2>1. HasLeftOut(run', run, w)
    BY <1>1, LeftOut, Zenon
  <2> QED BY <2>1 DEF HasLeftOut
<1>3. Typed(template', run', edit', charged')
  BY <1>1, <1>2, Parts DEF Typed
<1>4. ASSUME FrequencyKept PROVE AllCovered(template', run', edit', charged')
  BY <1>1, <1>2, <1>4, Parts DEF AllCovered
<1>5. ASSUME FrequencyKept, NEW x \in Templates \ disturbed' PROVE Kept(x, template', run', edit', charged')
  <2>1. Kept(x, template, run, edit, charged)
    BY <1>1, <1>5, Parts
  <2>2. Alone(x, run', edit')
    BY <1>1, <1>2, <2>1 DEF Kept, Alone
  <2>3. run[w].current # x
    BY <1>5, RecurringAssumption
  <2>4. AtWork(x, run) => AtWork(x, run')
    BY <1>2, <2>3 DEF AtWork
  <2> QED BY <1>1, <1>2, <2>1, <2>2, <2>4 DEF Kept
<1> QED BY <1>3, <1>4, <1>5 DEF AllKept

LEMMA EndRunKeeps ==
  ASSUME RecurringInv, NEW w \in Runners, EndRun(w)
  PROVE  RecurringInv'
<1>1. w \in DOMAIN run /\ run[w].current \in disturbed' \cup {None} /\ RunGone(w)
      /\ today' = today /\ edits' = edits /\ faults' = faults /\ disturbed' = disturbed
  BY DEF EndRun, RunGone
<1>2. Counted'
  BY <1>1, Parts DEF Counted
<1> QED BY <1>1, <1>2, RunGoneKeeps DEF RecurringInv

LEMMA LeaveKeeps ==
  ASSUME RecurringInv, NEW w \in Runners, Working(w), Leave(w), faults' \in 0 .. MaxFaults
  PROVE  RecurringInv'
<1>1. w \in DOMAIN run /\ run[w].current # None /\ disturbed' = disturbed \cup {run[w].current}
      /\ today' = today /\ edits' = edits
  BY DEF Leave, Disturb, Working
<1>2. run[w].current \in disturbed' \cup {None} /\ RunGone(w)
  BY <1>1 DEF Leave, RunGone
<1>3. run[w].current \in Templates
  BY <1>1, InHand
<1>4. Counted'
  BY <1>1, <1>3, Parts DEF Counted
<1> QED BY <1>1, <1>2, <1>4, RunGoneKeeps DEF RecurringInv

LEMMA CrashKeeps ==
  ASSUME RecurringInv, Crash
  PROVE  RecurringInv'
<1>1. /\ faults < MaxFaults /\ faults' = faults + 1 /\ run' = Empty /\ edit' = Empty
      /\ disturbed' = disturbed \cup Held
      /\ today' = today /\ template' = template /\ charged' = charged /\ edits' = edits
  BY DEF Crash, Disturb
<1>2. DOMAIN run' = {} /\ DOMAIN edit' = {} /\ Whole(run') /\ Whole(edit')
  BY <1>1, EmptyIs, Zenon
<1>3. Held \subseteq Templates
  <2> SUFFICES ASSUME NEW x, x \notin Templates PROVE x \notin Held
    OBVIOUS
  <2> DEFINE Loads == {DOMAIN run[w].due : w \in DOMAIN run}
             Runs == UNION Loads
             Edited == {edit[e].id : e \in DOMAIN edit}
  <2>1. Held = Runs \cup Edited
    BY DEF Held
  <2>2. x \notin Edited
    BY Parts DEF Typed
  <2>3. x \notin Runs
    <3>1. \A S \in Loads : S \subseteq Templates
      BY InHand
    <3> HIDE DEF Loads
    <3> QED BY <3>1
  <2> HIDE DEF Runs, Edited
  <2> QED BY <2>1, <2>2, <2>3
<1>4. Counted'
  BY <1>1, <1>3, Parts, RecurringAssumption DEF Counted
<1>5. Typed(template', run', edit', charged')
  BY <1>1, <1>2, Parts DEF Typed
<1>6. ASSUME FrequencyKept PROVE AllCovered(template', run', edit', charged')
  BY <1>1, <1>2, <1>6, Parts DEF AllCovered
<1>7. ASSUME FrequencyKept, NEW x \in Templates \ disturbed' PROVE Kept(x, template', run', edit', charged')
  <2>1. Kept(x, template, run, edit, charged)
    BY <1>1, <1>7, Parts
  <2>2. Alone(x, run', edit')
    BY <1>2 DEF Alone
  <2>3. ~AtWork(x, run)
    BY <1>1, <1>7, NotHeld DEF AtWork
  <2> QED BY <1>1, <1>2, <2>1, <2>2, <2>3 DEF Kept
<1> QED BY <1>4, <1>5, <1>6, <1>7 DEF RecurringInv, AllKept

LEMMA NextDayKeeps ==
  ASSUME RecurringInv, NextDay
  PROVE  RecurringInv'
<1>1. /\ today' \in Days
      /\ UNCHANGED <<template, charged, run, edit, edits, faults, disturbed>>
  BY DEF NextDay
<1> QED BY <1>1 DEF RecurringInv, Counted

-----------------------------------------------------------------------------

LEMMA RecurringStart == RecurringInit => RecurringInv
<1> SUFFICES ASSUME RecurringInit PROVE RecurringInv
  OBVIOUS
<1>1. /\ today \in Days /\ template = Empty /\ run = Empty /\ edit = Empty
      /\ charged = [t \in Templates |-> <<>>] /\ edits = 0 /\ faults = 0 /\ disturbed = {}
  BY DEF RecurringInit
<1>2. /\ DOMAIN template = {} /\ DOMAIN run = {} /\ DOMAIN edit = {}
      /\ Whole(template) /\ Whole(run) /\ Whole(edit)
  BY <1>1, EmptyIs, Zenon
<1>3. Counted
  BY <1>1, RecurringAssumption DEF Counted
<1>4. Typed(template, run, edit, charged)
  <2>1. charged \in [Templates -> Seq(Nat)]
    BY <1>1
  <2> QED BY <1>2, <2>1 DEF Typed
<1>5. AllCovered(template, run, edit, charged)
  BY <1>2 DEF AllCovered
<1>6. AllKept(template, run, edit, charged, disturbed)
  BY <1>2 DEF AllKept, Kept, Alone
<1> QED BY <1>3, <1>4, <1>5, <1>6 DEF RecurringInv

LEMMA RecurringStep == RecurringInv /\ [RecurringNext]_recurringVars => RecurringInv'
<1> SUFFICES ASSUME RecurringInv, [RecurringNext]_recurringVars PROVE RecurringInv'
  OBVIOUS
<1>1. CASE \E t \in Templates, row \in NewRows : Create(t, row)
  BY <1>1, CreateKeeps
<1>2. CASE \E e \in Editors, t \in Templates, c \in Changes : BeginUpdate(e, t, c)
  BY <1>2, BeginUpdateKeeps
<1>3. CASE \E e \in Editors : SaveUpdate(e)
  BY <1>3, SaveUpdateKeeps
<1>4. CASE \E t \in Templates : Remove(t)
  BY <1>4, RemoveKeeps
<1>5. ASSUME NEW w \in Runners, BeginRun(w) \/ RunStep(w) \/ Fail(w) PROVE RecurringInv'
  <2>1. CASE BeginRun(w)
    BY <2>1, BeginRunKeeps
  <2>2. CASE Materialize(w)
    BY <2>2, MaterializeKeeps
  <2>3. CASE SaveTemplate(w)
    BY <2>3, SaveTemplateKeeps
  <2>4. CASE EndRun(w)
    BY <2>4, EndRunKeeps
  <2>5. CASE Refuse(w)
    <3>1. Working(w) /\ Leave(w) /\ faults' \in 0 .. MaxFaults
      BY <2>5, Parts DEF Refuse, Counted
    <3> QED BY <3>1, LeaveKeeps
  <2>6. CASE \E t \in Templates : Pick(w, t)
    BY <2>6, PickKeeps
  <2>7. CASE Fail(w)
    <3>1. Working(w) /\ Leave(w) /\ faults' \in 0 .. MaxFaults
      BY <2>7, Parts, RecurringAssumption DEF Fail, Counted
    <3> QED BY <3>1, LeaveKeeps
  <2> QED BY <1>5, <2>1, <2>2, <2>3, <2>4, <2>5, <2>6, <2>7 DEF RunStep
<1>6. CASE Crash
  BY <1>6, CrashKeeps
<1>7. CASE NextDay
  BY <1>7, NextDayKeeps
<1>8. CASE UNCHANGED recurringVars
  BY <1>8 DEF recurringVars, RecurringInv, Counted
<1> QED BY <1>1, <1>2, <1>3, <1>4, <1>5, <1>6, <1>7, <1>8 DEF RecurringNext

LEMMA RecurringInductive == RecurringSpec => []RecurringInv
BY RecurringStart, RecurringStep, PTL DEF RecurringSpec

-----------------------------------------------------------------------------

LEMMA RecurringTypes ==
  ASSUME RecurringInv
  PROVE  RecurringTypeOK
BY Parts DEF Counted, Typed, RunShape, RowOk, RecurringTypeOK

\* A template is a row with its columns wherever it is copied, and an execution works on
\* one of those it loaded.
THEOREM RecurringTypesCorrect == RecurringSpec => []RecurringTypeOK
<1>1. RecurringInv => RecurringTypeOK
  BY RecurringTypes
<1> QED BY <1>1, RecurringInductive, PTL

\* Whatever overlaps, fails or dies, every date before the next one of a template has its
\* expense, and a template only one request at a time had in hand charged exactly the
\* dates its frequency gives from its start (runDue, update and remove of
\* RecurringExpensesService), if no update changes the frequency.
THEOREM ScheduleIsKept == FrequencyKept => (RecurringSpec => []ScheduleKept)
<1> SUFFICES ASSUME FrequencyKept PROVE RecurringSpec => []ScheduleKept
  OBVIOUS
<1>1. ASSUME RecurringInv PROVE OnSchedule
  <2> SUFFICES ASSUME NEW t \in DOMAIN template \ (Held \cup disturbed), Regular(template[t])
               PROVE  \A i \in DOMAIN Append(charged[t], template[t].next) :
                         Append(charged[t], template[t].next)[i] = Occurrence(template[t], i - 1)
    BY DEF OnSchedule
  <2> DEFINE ch == charged[t]
             row == template[t]
             new == Append(ch, row.next)
  <2>1. t \in Templates \ disturbed /\ ch \in Seq(Nat) /\ RowOk(row)
    BY <1>1, Parts DEF Typed
  <2>2. Kept(t, template, run, edit, charged)
    BY <1>1, <2>1, Parts
  <2>3. ~AtWork(t, run)
    BY NotHeld DEF AtWork
  <2>4. Exact(ch, row)
    BY <2>2, <2>3 DEF Kept
  <2>5. Nth(row, Len(ch)) /\ \A i \in DOMAIN ch : ch[i] = Occurrence(row, i - 1)
    BY <2>4 DEF Exact
  <2>6. /\ Len(ch) \in Nat /\ DOMAIN new = 1 .. Len(ch) + 1
        /\ DOMAIN ch = 1 .. Len(ch) /\ \A i \in DOMAIN ch : new[i] = ch[i]
        /\ new[Len(ch) + 1] = row.next
    BY <2>1, Periods, Appended DEF OneMore, RowOk
  <2>7. row.next = Occurrence(row, Len(ch))
    BY <2>5, NthIsOccurrence
  <2> HIDE DEF new, row, ch
  <2>8. ASSUME NEW i \in DOMAIN new PROVE new[i] = Occurrence(row, i - 1)
    <3>1. CASE i = Len(ch) + 1
      <4>1. i - 1 = Len(ch)
        BY <2>6, <3>1
      <4> QED BY <2>6, <2>7, <3>1, <4>1
    <3>2. CASE i # Len(ch) + 1
      <4>1. i \in DOMAIN ch
        BY <2>6, <3>2
      <4> QED BY <2>5, <2>6, <4>1
    <3> QED BY <3>1, <3>2
  <2> QED BY <2>8 DEF new, row, ch
<1>2. ASSUME RecurringInv PROVE NoneMissed
  <2> SUFFICES ASSUME NEW t \in DOMAIN template, Regular(template[t])
               PROVE  \E n \in 0 .. Len(charged[t]) :
                        /\ template[t].next = Occurrence(template[t], n)
                        /\ \A k \in 0 .. n - 1 : Occurrence(template[t], k) \in Range(charged[t])
    BY DEF NoneMissed
  <2>1. Covered(charged[t], template[t])
    BY <1>2, Parts DEF AllCovered
  <2>2. PICK n \in 0 .. Len(charged[t]) :
          /\ Nth(template[t], n)
          /\ \A k \in 0 .. n - 1 : Occurrence(template[t], k) \in Range(charged[t])
    BY <2>1 DEF Covered
  <2>3. template[t].next = Occurrence(template[t], n)
    BY <2>2, NthIsOccurrence
  <2> QED BY <2>2, <2>3
<1> QED BY <1>1, <1>2, RecurringInductive, PTL DEF ScheduleKept

-----------------------------------------------------------------------------
(* A session with XTB *)

SessionTyped ==
  /\ stage \in {"opening", "ready", "gap", "waiting", "over"}
  /\ socket \in {"connecting", "open", "closed"}
  /\ step \in 0 .. Len(Commands) - 1
  /\ timer \in [Timers -> Nat \cup {Off}]
  /\ elapsed \in Nat

\* What each stage of withSession awaits: only an awaited command has a timer of
\* its own, and only the opening one for the connection.
StageKept ==
  /\ (stage = "opening") = (socket = "connecting")
  /\ pending = IF stage = "waiting" THEN {Tag} ELSE {}
  /\ stage = "opening" => timer["connect"] \in Nat /\ timer["idle"] = Off
  /\ stage = "waiting" => timer["command"] \in Nat

\* The idle close starts with the command and runs longer.
CommandFirst ==
  stage = "waiting" => timer["idle"] \in Nat /\ timer["command"] < timer["idle"]

\* What the session may have spent: the connection, and each command begun.
Spent(n) == ConnectTimeout + n * CommandTimeout
WithinBudget ==
  /\ stage = "opening" => elapsed + timer["connect"] <= ConnectTimeout
  /\ stage \in {"ready", "gap"} => elapsed <= Spent(step)
  /\ stage = "waiting" => elapsed + timer["command"] <= Spent(Tag)
  /\ stage = "over" => elapsed <= Spent(Len(Commands))

SessionInv ==
  /\ SessionTyped /\ StageKept /\ CommandFirst /\ WithinBudget
  /\ \A answer \in resolved : answer[1] = answer[2]
  /\ stage = "over" => socket = "closed" /\ \A t \in Timers : timer[t] = Off

\* The budget of n commands grows with n.
LEMMA SpentGrows ==
  ASSUME NEW m \in Nat, NEW n \in Nat, m <= n
  PROVE  /\ Spent(m) \in Nat
         /\ Spent(m) <= Spent(n)
         /\ Spent(m + 1) = Spent(m) + CommandTimeout
<1>1. CommandTimeout \in Nat /\ ConnectTimeout \in Nat
  BY SessionAssumption
<1>2. m * CommandTimeout \in Nat /\ m * CommandTimeout <= n * CommandTimeout
  BY <1>1
<1>3. (m + 1) * CommandTimeout = m * CommandTimeout + CommandTimeout
  BY <1>1
<1>4. QED
  BY <1>1, <1>2, <1>3 DEF Spent

LEMMA SessionStarts == SessionInit => SessionInv
<1> SUFFICES ASSUME SessionInit PROVE SessionInv
  OBVIOUS
<1>1. SessionTyped
  BY SessionAssumption DEF SessionInit, SessionTyped, Timers
<1>2. StageKept /\ CommandFirst /\ WithinBudget
  BY SessionAssumption DEF SessionInit, StageKept, CommandFirst, WithinBudget, Timers
<1>3. QED
  BY <1>1, <1>2 DEF SessionInit, SessionInv

\* CloseSession is safe from any stage, if the time spent is within the budget.
LEMMA SessionCloses ==
  ASSUME SessionInv, CloseSession, elapsed <= Spent(Len(Commands)),
         step' = step, elapsed' = elapsed,
         \A answer \in resolved' : answer[1] = answer[2]
  PROVE  SessionInv'
<1>1. SessionTyped'
  BY DEF SessionInv, SessionTyped, CloseSession
<1>2. StageKept' /\ CommandFirst'
  BY DEF StageKept, CommandFirst, CloseSession
<1>3. WithinBudget'
  BY DEF WithinBudget, CloseSession, Spent
<1>4. QED
  BY <1>1, <1>2, <1>3 DEF SessionInv, CloseSession

\* Whatever the stage, the time spent is within the budget of all the commands.
LEMMA BudgetHolds == SessionInv => elapsed <= Spent(Len(Commands))
<1> SUFFICES ASSUME SessionInv PROVE elapsed <= Spent(Len(Commands))
  OBVIOUS
<1> USE DEF SessionInv, SessionTyped
<1>1. /\ step \in Nat /\ Tag \in Nat /\ Len(Commands) \in Nat
      /\ step <= Len(Commands) /\ Tag <= Len(Commands)
  BY SessionAssumption DEF Tag
<1>2. /\ Spent(0) = ConnectTimeout /\ Spent(0) <= Spent(Len(Commands))
      /\ Spent(step) <= Spent(Len(Commands)) /\ Spent(Tag) <= Spent(Len(Commands))
      /\ Spent(0) \in Nat /\ Spent(step) \in Nat /\ Spent(Tag) \in Nat /\ Spent(Len(Commands)) \in Nat
  <2>1. Spent(0) = ConnectTimeout
    BY SessionAssumption DEF Spent
  <2>2. QED
    BY <1>1, <2>1, SpentGrows
<1>3. CASE stage = "opening"
  BY <1>2, <1>3, SessionAssumption DEF WithinBudget, StageKept
<1>4. CASE stage \in {"ready", "gap"}
  BY <1>2, <1>4 DEF WithinBudget
<1>5. CASE stage = "waiting"
  BY <1>2, <1>5 DEF WithinBudget, StageKept
<1>6. CASE stage = "over"
  BY <1>6 DEF WithinBudget
<1>7. QED
  BY <1>3, <1>4, <1>5, <1>6

\* The answer that a command takes is its own.
LEMMA AnswerKeeps ==
  ASSUME SessionInv, NEW tag \in asked, NEW accepted \in BOOLEAN, OnMessage(tag, accepted)
  PROVE  SessionInv'
<1> USE DEF SessionInv
<1>1. CASE Waiter(tag) = {}
  <2>1. UNCHANGED <<stage, step, socket, pending, timer, resolved, elapsed>>
    BY <1>1 DEF OnMessage
  <2>2. QED
    BY <2>1 DEF SessionTyped, StageKept, CommandFirst, WithinBudget, Tag
<1>2. CASE Waiter(tag) # {}
  <2>1. stage = "waiting" /\ tag = Tag /\ pending \ Waiter(tag) = {}
    BY <1>2 DEF StageKept, Waiter
  <2>2. \A answer \in resolved' : answer[1] = answer[2]
    BY <1>2, <2>1 DEF OnMessage
  <2>3. CASE accepted /\ Tag < Len(Commands)
    <3>1. /\ step' = Tag /\ stage' = "ready" /\ pending' = {} /\ socket' = socket
          /\ elapsed' = elapsed /\ timer' = [timer EXCEPT !["command"] = Off]
      BY <1>2, <2>1, <2>3 DEF OnMessage
    <3>2. SessionTyped'
      BY <3>1, <2>3, SessionAssumption DEF SessionTyped, Tag, Timers
    <3>3. StageKept' /\ CommandFirst'
      BY <2>1, <3>1 DEF StageKept, CommandFirst
    <3>4. elapsed' <= Spent(Tag)
      <4>1. elapsed + timer["command"] <= Spent(Tag) /\ timer["command"] \in Nat
        BY <2>1 DEF WithinBudget, StageKept
      <4>2. Spent(Tag) \in Nat /\ elapsed \in Nat
        BY SpentGrows DEF SessionTyped, Tag
      <4>3. QED
        BY <4>1, <4>2, <3>1
    <3>5. WithinBudget'
      BY <3>1, <3>4 DEF WithinBudget, Spent
    <3>6. QED
      BY <2>2, <3>1, <3>2, <3>3, <3>5
  <2>4. CASE ~(accepted /\ Tag < Len(Commands))
    <3>1. CloseSession /\ step' = step /\ elapsed' = elapsed
      BY <1>2, <2>4 DEF OnMessage
    <3>2. QED
      BY <2>2, <3>1, BudgetHolds, SessionCloses
  <2>5. QED
    BY <2>3, <2>4
<1>3. QED
  BY <1>1, <1>2

\* A command is sent: its timer is within what its turn adds to the budget.
LEMMA SendKeeps == SessionInv /\ SendCommand => SessionInv'
<1> SUFFICES ASSUME SessionInv, SendCommand PROVE SessionInv'
  OBVIOUS
<1> USE DEF SessionInv
<1>1. /\ stage = "gap" /\ stage' = "waiting" /\ pending' = {Tag}
      /\ timer' = [timer EXCEPT !["command"] = CommandTimeout, !["idle"] = IdleClose]
      /\ UNCHANGED <<step, socket, resolved, elapsed>>
  BY DEF SendCommand, StageKept
<1>2. SessionTyped'
  BY <1>1, SessionAssumption DEF SessionTyped, Timers
<1>3. StageKept' /\ CommandFirst'
  <2>1. timer'["command"] = CommandTimeout /\ timer'["idle"] = IdleClose
    BY <1>1 DEF SessionTyped, Timers
  <2>2. Tag' = Tag
    BY <1>1 DEF Tag
  <2>3. QED
    BY <1>1, <2>1, <2>2, SessionAssumption DEF StageKept, CommandFirst
<1>4. Spent(step) \in Nat /\ Spent(Tag) = Spent(step) + CommandTimeout
  <2>1. step \in Nat /\ step <= step
    BY SessionAssumption DEF SessionTyped
  <2>2. QED
    BY <2>1, SpentGrows DEF Tag
<1>5. timer'["command"] = CommandTimeout
  BY <1>1 DEF SessionTyped, Timers
<1>6. elapsed + CommandTimeout <= Spent(Tag)
  BY <1>1, <1>4, SessionAssumption DEF WithinBudget, SessionTyped
<1>7. WithinBudget'
  BY <1>1, <1>5, <1>6 DEF WithinBudget, Spent, Tag
<1>8. QED
  BY <1>1, <1>2, <1>3, <1>7

\* Time goes by in a stage that has a timer for it.
LEMMA TickKeeps == SessionInv /\ Tick => SessionInv'
<1> SUFFICES ASSUME SessionInv, Tick PROVE SessionInv'
  OBVIOUS
<1> USE DEF SessionInv
<1>1. /\ stage \in {"opening", "waiting"} /\ elapsed' = elapsed + 1
      /\ \A t \in Timers : timer[t] # 0 /\ timer[t] \in Nat \cup {Off}
      /\ timer' = [t \in Timers |-> IF timer[t] = Off THEN Off ELSE timer[t] - 1]
      /\ UNCHANGED <<stage, step, socket, pending, resolved>>
  BY DEF Tick, SessionTyped
<1>2. \A t \in Timers : timer[t] \in Nat => timer'[t] = timer[t] - 1 /\ timer'[t] \in Nat
  BY <1>1, SessionAssumption
<1>3. SessionTyped'
  BY <1>1, SessionAssumption DEF SessionTyped
<1>4. StageKept' /\ CommandFirst'
  BY <1>1, <1>2 DEF StageKept, CommandFirst, Timers, Tag
<1>5. WithinBudget'
  BY <1>1, <1>2, SessionAssumption DEF WithinBudget, Spent, Tag, StageKept, Timers, SessionTyped
<1>6. QED
  BY <1>1, <1>3, <1>4, <1>5

LEMMA SessionStep == SessionInv /\ [SessionNext]_sessionVars => SessionInv'
<1> SUFFICES ASSUME SessionInv, [SessionNext]_sessionVars PROVE SessionInv'
  OBVIOUS
<1> USE DEF SessionInv
<1>1. CASE SocketOpens
  <2>1. SessionTyped'
    BY <1>1, SessionAssumption DEF SocketOpens, SessionTyped, Timers
  <2>2. StageKept' /\ CommandFirst'
    BY <1>1 DEF SocketOpens, StageKept, CommandFirst
  <2>3. Spent(0) = ConnectTimeout
    BY SessionAssumption DEF Spent
  <2>4. elapsed <= Spent(step)
    <3>1. Spent(0) <= Spent(step) /\ Spent(0) \in Nat /\ Spent(step) \in Nat
      <4>1. step \in Nat /\ 0 <= step
        BY SessionAssumption DEF SessionTyped
      <4>2. QED
        BY <4>1, SpentGrows
    <3>2. QED
      BY <1>1, <2>3, <3>1 DEF SocketOpens, SessionTyped, StageKept, WithinBudget
  <2>5. WithinBudget'
    BY <1>1, <2>4 DEF SocketOpens, WithinBudget, Spent
  <2>6. QED
    BY <1>1, <2>1, <2>2, <2>5 DEF SocketOpens
<1>2. CASE ConnectionFails
  BY <1>2, BudgetHolds, SessionCloses DEF ConnectionFails
<1>3. CASE SocketCloses
  <2>1. CASE pending # {}
    BY <1>3, <2>1, BudgetHolds, SessionCloses DEF SocketCloses
  <2>2. CASE pending = {}
    BY <1>3, <2>2 DEF SocketCloses, SessionTyped, StageKept, CommandFirst, WithinBudget, Tag
  <2>3. QED
    BY <2>1, <2>2
<1>4. CASE BeginCommand
  <2>1. CASE socket = "open"
    BY <1>4, <2>1 DEF BeginCommand, SessionTyped, StageKept, CommandFirst, WithinBudget, Tag
  <2>2. CASE socket # "open"
    BY <1>4, <2>2, BudgetHolds, SessionCloses DEF BeginCommand
  <2>3. QED
    BY <2>1, <2>2
<1>5. CASE TimeRunsOut
  BY <1>5, BudgetHolds, SessionCloses DEF TimeRunsOut
<1>6. CASE KeepAlive
  <2>1. /\ timer' = [timer EXCEPT !["ping"] = PingInterval]
        /\ UNCHANGED <<stage, step, socket, pending, resolved, elapsed>>
    BY <1>6 DEF KeepAlive
  <2>2. \A t \in {"connect", "command", "idle"} : timer'[t] = timer[t]
    BY <2>1 DEF SessionTyped, Timers
  <2>3. stage # "over"
    BY <1>6, SessionAssumption DEF KeepAlive, Timers
  <2>4. SessionTyped'
    BY <2>1, SessionAssumption DEF SessionTyped, Timers
  <2>5. QED
    BY <2>1, <2>2, <2>3, <2>4 DEF StageKept, CommandFirst, WithinBudget, Tag, Spent
<1>7. CASE UNCHANGED sessionVars
  BY <1>7 DEF sessionVars, SessionTyped, StageKept, CommandFirst, WithinBudget, Tag
<1>8. QED
  BY <1>1, <1>2, <1>3, <1>4, <1>5, <1>6, <1>7, AnswerKeeps, SendKeeps, TickKeeps DEF SessionNext

LEMMA SessionInvariant == SessionSpec => []SessionInv
  BY SessionStarts, SessionStep, PTL DEF SessionSpec

LEMMA SessionTypes == SessionInv => SessionTypeOK
  BY DEF SessionInv, SessionTyped, StageKept, SessionTypeOK, Tag

\* The stages, the steps and the timers of a session with XTB have their types.
THEOREM SessionTypeCorrect == SessionSpec => []SessionTypeOK
  BY SessionTypes, SessionInvariant, PTL

\* For any number of commands and any timeouts of which the command's is the
\* shorter: only its own answer resolves a command, the idle close takes no command
\* in course, a session that ends leaves neither socket nor timer, and it ends
\* within what its timeouts add up to.
THEOREM SessionIsContained == SessionSpec => []SessionContained
<1>1. ASSUME SessionInv PROVE SessionContained
  <2> USE <1>1 DEF SessionInv
  <2>1. timer["idle"] = 0 => pending = {}
    BY DEF StageKept, CommandFirst
  <2>2. stage = "over" => pending = {}
    BY DEF StageKept
  <2>3. elapsed <= ConnectTimeout + Len(Commands) * CommandTimeout
    BY BudgetHolds DEF Spent
  <2>4. QED
    BY <2>1, <2>2, <2>3 DEF SessionContained
<1>2. QED
  BY <1>1, SessionInvariant, PTL
-----------------------------------------------------------------------------
(* Sessions, second factor and key of a user *)

Columns == {"password", "method", "secret", "pending", "code", "reset"}
IsCopy(r) ==
  /\ DOMAIN r \subseteq Columns
  /\ "password" \in DOMAIN r => r.password \in 0 .. MaxPassword
  /\ "method" \in DOMAIN r => r.method \in FactorMethods
  /\ "secret" \in DOMAIN r => r.secret \in BOOLEAN
  /\ "pending" \in DOMAIN r => r.pending \in BOOLEAN
  /\ "code" \in DOMAIN r => r.code \in BOOLEAN
  /\ "reset" \in DOMAIN r => r.reset \in BOOLEAN
IsRow(r) == r = [column \in Columns |-> r[column]] /\ IsCopy(r)

\* What a client has in course, by its stage.
Stages == {"none", "save", "issue", "revoke", "rotate", "key"}
Sessionful == {"save", "issue", "revoke", "rotate"}
PasswordOps == {"changePassword", "resetPassword"}
RequestTyped(q, n, issued) ==
  /\ q.stage \in Stages /\ "stage" \in DOMAIN q
  /\ q.stage # "none" => "stale" \in DOMAIN q
  /\ q.stage \in Sessionful =>
       q.stale \in BOOLEAN /\ q.session \in 0 .. n + 1 /\ q.password \in 0 .. MaxPassword
  /\ q.stage = "save" => q.op \in AuthOps \ {"login"} /\ IsCopy(q.copy)
  /\ q.stage = "rotate" => q.token \in DOMAIN issued /\ q.session = issued[q.token].session
  /\ q.stage = "key" => q.copy \in ApiKey

AccessTyped ==
  /\ IsRow(auth) /\ apiKey \in ApiKey
  /\ tokens \in Seq(RefreshToken) /\ Len(tokens) <= MaxTokens
  /\ begun \in Nat
  /\ \A i \in DOMAIN tokens : tokens[i].session <= begun + 1
  /\ contended \in BOOLEAN /\ unrevoked \in BOOLEAN /\ keyEnded \in BOOLEAN /\ keyContended \in BOOLEAN
  /\ request = [c \in Clients |-> request[c]]
  /\ \A c \in Clients : RequestTyped(request[c], begun, tokens)

\* A row loaded by the query of an operation is a part of the row.
LEMMA LoadedColumns ==
  ASSUME NEW op \in AuthOps, IsRow(auth), Accepts(op, auth), MaxPassword \in Nat
  PROVE  /\ Loaded(op) \subseteq Columns
         /\ IsCopy(Restrict(auth, Loaded(op)))
         /\ IsCopy(Assigned(op, auth))
<1>1. Loaded(op) \subseteq Columns
  BY DEF Loaded, Columns, AuthOps
<1>2. IsCopy(Restrict(auth, Loaded(op)))
  BY <1>1 DEF IsRow, IsCopy, Restrict
<1>3. IsCopy(Assigned(op, auth))
  <2>1. auth.password \in 0 .. MaxPassword /\ auth.pending \in BOOLEAN
    BY DEF IsRow, IsCopy, Columns
  <2>2. op \in PasswordOps => auth.password + 1 \in 0 .. MaxPassword
    BY <2>1 DEF Accepts, PasswordOps
  <2>3. CASE op \in {"login", "requestReset"}
    <3>1. Assigned(op, auth) = [reset |-> TRUE]
      BY <2>3 DEF Assigned
    <3>2. IsCopy([reset |-> TRUE])
      BY <2>1, <2>2, <2>3 DEF IsCopy, Columns, FactorMethods, PasswordOps
    <3>3. QED
      BY <3>1, <3>2
  <2>4. CASE op = "loginCode"
    <3>1. Assigned(op, auth) = [code |-> FALSE]
      BY <2>4 DEF Assigned
    <3>2. IsCopy([code |-> FALSE])
      BY <2>1, <2>2, <2>4 DEF IsCopy, Columns, FactorMethods, PasswordOps
    <3>3. QED
      BY <3>1, <3>2
  <2>5. CASE op \in {"beginEmail", "sendCode"}
    <3>1. Assigned(op, auth) = [code |-> TRUE]
      BY <2>5 DEF Assigned
    <3>2. IsCopy([code |-> TRUE])
      BY <2>1, <2>2, <2>5 DEF IsCopy, Columns, FactorMethods, PasswordOps
    <3>3. QED
      BY <3>1, <3>2
  <2>6. CASE op = "beginTotp"
    <3>1. Assigned(op, auth) = [pending |-> TRUE]
      BY <2>6 DEF Assigned
    <3>2. IsCopy([pending |-> TRUE])
      BY <2>1, <2>2, <2>6 DEF IsCopy, Columns, FactorMethods, PasswordOps
    <3>3. QED
      BY <3>1, <3>2
  <2>7. CASE op = "confirmTotp"
    <3>1. Assigned(op, auth) = [method |-> "totp", secret |-> auth.pending, pending |-> FALSE, code |-> FALSE]
      BY <2>7 DEF Assigned
    <3>2. IsCopy([method |-> "totp", secret |-> auth.pending, pending |-> FALSE, code |-> FALSE])
      BY <2>1, <2>2, <2>7 DEF IsCopy, Columns, FactorMethods, PasswordOps
    <3>3. QED
      BY <3>1, <3>2
  <2>8. CASE op = "confirmEmail"
    <3>1. Assigned(op, auth) = [method |-> "email", secret |-> FALSE, pending |-> FALSE, code |-> FALSE]
      BY <2>8 DEF Assigned
    <3>2. IsCopy([method |-> "email", secret |-> FALSE, pending |-> FALSE, code |-> FALSE])
      BY <2>1, <2>2, <2>8 DEF IsCopy, Columns, FactorMethods, PasswordOps
    <3>3. QED
      BY <3>1, <3>2
  <2>9. CASE op = "disable"
    <3>1. Assigned(op, auth) = [method |-> "none", secret |-> FALSE, pending |-> FALSE]
      BY <2>9 DEF Assigned
    <3>2. IsCopy([method |-> "none", secret |-> FALSE, pending |-> FALSE])
      BY <2>1, <2>2, <2>9 DEF IsCopy, Columns, FactorMethods, PasswordOps
    <3>3. QED
      BY <3>1, <3>2
  <2>10. CASE op = "changePassword"
    <3>1. Assigned(op, auth) = [password |-> auth.password + 1]
      BY <2>10 DEF Assigned
    <3>2. IsCopy([password |-> auth.password + 1])
      BY <2>1, <2>2, <2>10 DEF IsCopy, Columns, FactorMethods, PasswordOps
    <3>3. QED
      BY <3>1, <3>2
  <2>11. CASE op = "resetPassword"
    <3>1. Assigned(op, auth) = [password |-> auth.password + 1, reset |-> FALSE]
      BY <2>11 DEF Assigned
    <3>2. IsCopy([password |-> auth.password + 1, reset |-> FALSE])
      BY <2>1, <2>2, <2>11 DEF IsCopy, Columns, FactorMethods, PasswordOps
    <3>3. QED
      BY <3>1, <3>2
  <2>12. QED
    BY <2>3, <2>4, <2>5, <2>6, <2>7, <2>8, <2>9, <2>10, <2>11 DEF AuthOps
<1>4. QED
  BY <1>1, <1>2, <1>3

LEMMA OverCopies ==
  ASSUME NEW a, NEW b, IsCopy(a), IsCopy(b)
  PROVE  IsCopy(Over(a, b))
  BY DEF IsCopy, Over

LEMMA OverRow ==
  ASSUME NEW a, NEW r, IsCopy(a), IsRow(r)
  PROVE  IsRow(Over(a, r))
<1>1. DOMAIN r = Columns /\ DOMAIN a \cup DOMAIN r = Columns
  BY DEF IsCopy, IsRow
<1>2. Over(a, r) = [column \in Columns |-> IF column \in DOMAIN a THEN a[column] ELSE r[column]]
  BY <1>1 DEF Over
<1>3. QED
  BY <1>2 DEF IsRow, IsCopy
\* What is about to be saved over the row keeps it coherent, if no two requests
\* hold it: the password is the row's but for the operations that change it, and a
\* method that needs a secret comes with it.
Coherent(row) == row.method = "totp" => row.secret
RowKept == ~contended =>
  /\ Coherent(auth)
  /\ \A c, d \in Clients : request[c].stage = "save" /\ request[d].stage = "save" => c = d
  /\ \A c \in Clients : request[c].stage = "save" =>
       /\ Coherent(Over(request[c].copy, auth))
       /\ request[c].op \notin PasswordOps => Over(request[c].copy, auth).password = auth.password

\* Requests that may still open a session, or go on with one.
Refreshing(c) == request[c].stage = "rotate" /\ request[c].op = "refresh"
Opening(c) == request[c].stage \in {"save", "issue"} \/ Refreshing(c)

\* The password of what is open, and of what is about to be.
PasswordKept == ~contended /\ ~Ending =>
  /\ \A i \in DOMAIN tokens : IsActive(tokens[i]) /\ ~tokens[i].stale => tokens[i].password = auth.password
  /\ \A c \in Clients : Opening(c) /\ ~request[c].stale => request[c].password = auth.password

\* A session is carried on by one token or by one request.
Carries(c) == request[c].stage \in {"save", "issue", "revoke"} \/ Refreshing(c)
SessionsKept ==
  /\ \A i, j \in DOMAIN tokens :
       IsActive(tokens[i]) /\ IsActive(tokens[j]) /\ tokens[i].session = tokens[j].session
         => i = j \/ tokens[i].session \in forked
  /\ \A c, d \in Clients :
       Carries(c) /\ Carries(d) /\ request[c].session = request[d].session
         => c = d \/ request[c].session \in forked
  /\ \A c \in Clients, i \in DOMAIN tokens :
       Carries(c) /\ IsActive(tokens[i]) /\ tokens[i].session = request[c].session
         => OnToken(c, i) \/ tokens[i].session \in forked

\* While one request holds the key, it saves the key as it was but for its own operation.
KeyKept == ~keyContended =>
  /\ keyEnded => ~apiKey.lives \/ apiKey.revoked
  /\ \A c, d \in Clients : HoldsKey(c) /\ HoldsKey(d) => c = d
  /\ \A c \in Clients : HoldsKey(c) =>
       /\ apiKey.lives
       /\ apiKey.revoked \/ request[c].op # "updateKey" => ~request[c].copy.lives \/ request[c].copy.revoked

AccessInv == AccessTyped /\ RowKept /\ PasswordKept /\ SessionsKept /\ KeyKept

LEMMA AccessStarts == AccessInit => AccessInv
<1> SUFFICES ASSUME AccessInit PROVE AccessInv
  OBVIOUS
<1>1. /\ request = [c \in Clients |-> NoRequest] /\ NoRequest.stage = "none" /\ "stage" \in DOMAIN NoRequest
      /\ tokens = <<[revoked |-> FALSE, expired |-> FALSE, session |-> 1, password |-> 0, stale |-> FALSE]>>
      /\ auth.password = 0 /\ auth.method = "none" /\ begun = 0 /\ ~keyEnded
  BY DEF AccessInit, NoRequest
<1>2. AccessTyped
  <2>1. IsRow(auth)
    <3>1. IsRow([password |-> 0, method |-> "none", secret |-> FALSE, pending |-> FALSE,
                 code |-> FALSE, reset |-> FALSE])
      BY AccessAssumption DEF IsRow, IsCopy, Columns, FactorMethods
    <3>2. QED
      BY <3>1 DEF AccessInit
  <2>2. apiKey \in ApiKey
    <3>1. Scopes \in NormalizedScopes
      BY AccessAssumption DEF NormalizedScopes
    <3>2. QED
      BY <3>1 DEF AccessInit, ApiKey
  <2>3. tokens \in Seq(RefreshToken) /\ Len(tokens) = 1 /\ \A i \in DOMAIN tokens : tokens[i].session <= begun + 1
    <3>1. [revoked |-> FALSE, expired |-> FALSE, session |-> 1, password |-> 0, stale |-> FALSE] \in RefreshToken
      BY AccessAssumption DEF RefreshToken
    <3>2. QED
      BY <1>1, <3>1
  <2>4. \A c \in Clients : RequestTyped(request[c], begun, tokens)
    BY <1>1 DEF RequestTyped, Stages, Sessionful
  <2>5. QED
    <3>1. request = [c \in Clients |-> request[c]]
      BY <1>1
    <3>2. Len(tokens) <= MaxTokens /\ begun \in Nat
      BY <1>1, <2>3, AccessAssumption
    <3>3. QED
      BY <2>1, <2>2, <2>3, <2>4, <3>1, <3>2 DEF AccessInit, AccessTyped
<1>3. \A c \in Clients : request[c].stage = "none"
  BY <1>1
<1>4. \A i \in DOMAIN tokens : i = 1 /\ tokens[i].password = 0
  BY <1>1
<1>5. RowKept
  BY <1>1, <1>3 DEF RowKept, Coherent
<1>6. PasswordKept
  BY <1>1, <1>3, <1>4 DEF PasswordKept, Opening, Refreshing
<1>7. SessionsKept
  BY <1>1, <1>3, <1>4 DEF SessionsKept, Carries, Refreshing
<1>8. KeyKept
  BY <1>1, <1>3 DEF KeyKept, HoldsKey
<1>9. QED
  BY <1>2, <1>5, <1>6, <1>7, <1>8 DEF AccessInv

-----------------------------------------------------------------------------
(* Types *)

\* A change to one request, when what the types of the others depend on goes on.
LEMMA RequestSet ==
  ASSUME AccessTyped, NEW c \in Clients, NEW q,
         request' = [request EXCEPT ![c] = q],
         begun' \in {begun, begun + 1},
         DOMAIN tokens \subseteq DOMAIN tokens',
         \A i \in DOMAIN tokens : tokens'[i].session = tokens[i].session,
         RequestTyped(q, begun', tokens')
  PROVE  /\ request' = [d \in Clients |-> request'[d]]
         /\ \A d \in Clients : RequestTyped(request'[d], begun', tokens')
<1>1. request'[c] = q /\ \A d \in Clients \ {c} : request'[d] = request[d]
  BY DEF AccessTyped
<1>2. request' = [d \in Clients |-> request'[d]]
  BY DEF AccessTyped
<1>3. ASSUME NEW d \in Clients \ {c} PROVE RequestTyped(request'[d], begun', tokens')
  BY <1>1, <1>3 DEF RequestTyped, AccessTyped, Sessionful
<1>4. QED
  BY <1>1, <1>2, <1>3
\* The rest of AccessTyped follows from what a step leaves alone.
LEMMA TypedAfter ==
  ASSUME AccessTyped, NEW c \in Clients, NEW q,
         request' = [request EXCEPT ![c] = q],
         begun' \in {begun, begun + 1},
         DOMAIN tokens \subseteq DOMAIN tokens',
         \A i \in DOMAIN tokens : tokens'[i].session = tokens[i].session,
         RequestTyped(q, begun', tokens'),
         IsRow(auth'), apiKey' \in ApiKey,
         tokens' \in Seq(RefreshToken), Len(tokens') <= MaxTokens,
         \A i \in DOMAIN tokens' : tokens'[i].session <= begun' + 1,
         contended' \in BOOLEAN, unrevoked' \in BOOLEAN, keyEnded' \in BOOLEAN, keyContended' \in BOOLEAN
  PROVE  AccessTyped'
<1>1. begun' \in Nat
  BY DEF AccessTyped
<1>2. QED
  BY <1>1, RequestSet DEF AccessTyped

LEMMA TokenTyped ==
  ASSUME AccessTyped, NEW i \in DOMAIN tokens
  PROVE  /\ tokens[i] \in RefreshToken
         /\ tokens[i].session \in 0 .. begun + 1 /\ tokens[i].session <= begun + 2
         /\ tokens[i].stale \in BOOLEAN /\ tokens[i].password \in 0 .. MaxPassword
<1>1. tokens[i] \in RefreshToken /\ tokens[i].session <= begun + 1 /\ begun \in Nat
  BY DEF AccessTyped
<1>2. tokens[i].session \in Nat /\ tokens[i].stale \in BOOLEAN /\ tokens[i].password \in 0 .. MaxPassword
  BY <1>1 DEF RefreshToken
<1>3. QED
  BY <1>1, <1>2

LEMMA BeginAuthTyped ==
  ASSUME AccessTyped, NEW c \in Clients, NEW op \in AuthOps, BeginAuth(c, op)
  PROVE  AccessTyped'
<1> DEFINE copied == Over(Assigned(op, auth), Restrict(auth, Loaded(op)))
           q == [stage |-> IF op = "login" THEN "issue" ELSE "save", op |-> op, stale |-> FALSE,
                 copy |-> copied, session |-> begun + 2, password |-> auth.password]
<1>1. /\ request' = [request EXCEPT ![c] = q]
      /\ begun' = begun + 1 /\ Accepts(op, auth) /\ contended' \in BOOLEAN
      /\ UNCHANGED <<auth, tokens, apiKey, unrevoked, forked, keyEnded, keyContended>>
  BY DEF BeginAuth, Begin, AccessTyped
<1>2. IsCopy(copied)
  BY <1>1, LoadedColumns, OverCopies, AccessAssumption DEF AccessTyped
<1>3. auth.password \in 0 .. MaxPassword
  BY DEF AccessTyped, IsRow, IsCopy, Columns
<1>4. RequestTyped(q, begun', tokens')
  <2> HIDE DEF copied
  <2> QED
    BY <1>1, <1>2, <1>3 DEF RequestTyped, Stages, Sessionful, AccessTyped
<1>5. \A i \in DOMAIN tokens : tokens[i].session <= begun' + 1
  BY <1>1, TokenTyped DEF AccessTyped
<1> HIDE DEF q
<1>6. QED
  BY <1>1, <1>4, <1>5, TypedAfter DEF AccessTyped

LEMMA SaveAuthTyped ==
  ASSUME AccessTyped, NEW c \in Clients, SaveAuth(c)
  PROVE  AccessTyped'
<1> DEFINE q == IF NextStage(request[c].op) = "done" THEN NoRequest
                ELSE [request[c] EXCEPT !.stage = NextStage(request[c].op)]
<1>1. /\ request[c].stage = "save" /\ request' = [request EXCEPT ![c] = q]
      /\ auth' = Over(request[c].copy, auth)
      /\ UNCHANGED <<tokens, apiKey, begun, contended, unrevoked, forked, keyEnded, keyContended>>
  BY DEF SaveAuth, AccessTyped
<1>2. RequestTyped(request[c], begun, tokens)
  BY DEF AccessTyped
<1>3. IsRow(auth')
  BY <1>1, <1>2, OverRow DEF AccessTyped, RequestTyped
<1>4. RequestTyped(q, begun', tokens')
  <2>1. NextStage(request[c].op) \in {"revoke", "issue", "done"}
    BY DEF NextStage
  <2>2. QED
    BY <1>1, <1>2, <2>1 DEF RequestTyped, Stages, Sessionful, NoRequest
<1> HIDE DEF q
<1>5. QED
  BY <1>1, <1>3, <1>4, TypedAfter DEF AccessTyped

LEMMA BeginTokenTyped ==
  ASSUME AccessTyped, NEW c \in Clients, NEW op \in {"refresh", "logout"}, NEW i \in DOMAIN tokens,
         BeginToken(c, op, i)
  PROVE  AccessTyped'
<1> DEFINE q == [stage |-> "rotate", op |-> op, token |-> i, stale |-> tokens[i].stale,
                 session |-> tokens[i].session, password |-> tokens[i].password]
<1>1. /\ request' = [request EXCEPT ![c] = q] /\ begun' = begun + 1
      /\ UNCHANGED <<auth, tokens, apiKey, contended, unrevoked, keyEnded, keyContended>>
  BY DEF BeginToken, Begin
<1>2. RequestTyped(q, begun', tokens')
  BY <1>1, TokenTyped DEF RequestTyped, Stages, Sessionful, AccessTyped
<1>3. \A j \in DOMAIN tokens : tokens[j].session <= begun' + 1
  BY <1>1, TokenTyped DEF AccessTyped
<1> HIDE DEF q
<1>4. QED
  BY <1>1, <1>2, <1>3, TypedAfter DEF AccessTyped

LEMMA BeginKeyTyped ==
  ASSUME AccessTyped, NEW c \in Clients, NEW op \in {"updateKey", "revokeKey", "removeKey"}, BeginKey(c, op)
  PROVE  AccessTyped'
<1>1. PICK scopes \in NormalizedScopes, expired \in {apiKey.expired, FALSE} :
        request' = [request EXCEPT ![c] = [stage |-> "key", op |-> op, stale |-> FALSE,
          copy |-> IF op = "updateKey" THEN [apiKey EXCEPT !.scopes = scopes, !.expired = expired]
                   ELSE [apiKey EXCEPT !.revoked = op = "revokeKey", !.lives = op # "removeKey"]]]
  BY DEF BeginKey
<1> DEFINE copied == IF op = "updateKey" THEN [apiKey EXCEPT !.scopes = scopes, !.expired = expired]
                     ELSE [apiKey EXCEPT !.revoked = op = "revokeKey", !.lives = op # "removeKey"]
           q == [stage |-> "key", op |-> op, stale |-> FALSE, copy |-> copied]
<1>2. /\ request' = [request EXCEPT ![c] = q] /\ begun' = begun + 1 /\ keyContended' \in BOOLEAN
      /\ UNCHANGED <<auth, tokens, apiKey, contended, unrevoked, keyEnded>>
  BY <1>1 DEF BeginKey, Begin, AccessTyped
<1>3. copied \in ApiKey
  BY DEF AccessTyped, ApiKey
<1>4. RequestTyped(q, begun', tokens')
  <2> HIDE DEF copied
  <2> QED
    BY <1>3 DEF RequestTyped, Stages, Sessionful
<1>5. \A j \in DOMAIN tokens : tokens[j].session <= begun' + 1
  BY <1>2, TokenTyped DEF AccessTyped
<1> HIDE DEF q
<1>6. QED
  BY <1>2, <1>4, <1>5, TypedAfter DEF AccessTyped

\* A row of refresh_tokens that is revoked or that expires is still one.
LEMMA TokensUpdated ==
  ASSUME AccessTyped, NEW updated,
         updated = [i \in DOMAIN tokens |-> updated[i]],
         \A i \in DOMAIN tokens : updated[i] \in RefreshToken /\ updated[i].session = tokens[i].session
  PROVE  /\ updated \in Seq(RefreshToken) /\ Len(updated) <= MaxTokens
         /\ DOMAIN updated = DOMAIN tokens
         /\ \A i \in DOMAIN updated : updated[i].session <= begun + 1
<1>1. DOMAIN tokens = 1 .. Len(tokens) /\ Len(tokens) \in Nat
  BY DEF AccessTyped
<1>2. updated \in [1 .. Len(tokens) -> RefreshToken] /\ DOMAIN updated = 1 .. Len(tokens)
  BY <1>1
<1>3. updated \in Seq(RefreshToken) /\ Len(updated) = Len(tokens)
  BY <1>1, <1>2
<1>4. QED
  BY <1>1, <1>2, <1>3 DEF AccessTyped

LEMMA RevokeTyped ==
  ASSUME AccessTyped, NEW c \in Clients, RevokeSessions(c)
  PROVE  AccessTyped'
<1>1. /\ tokens' = [i \in DOMAIN tokens |-> [tokens[i] EXCEPT !.revoked = TRUE]]
      /\ request' = [d \in Clients |->
           IF d = c \/ request[d].stage = "none" THEN NoRequest ELSE [request[d] EXCEPT !.stale = TRUE]]
      /\ unrevoked' = FALSE
      /\ UNCHANGED <<auth, apiKey, begun, contended, forked, keyEnded, keyContended>>
  BY DEF RevokeSessions
<1>2. \A i \in DOMAIN tokens : tokens'[i] \in RefreshToken /\ tokens'[i].session = tokens[i].session
  <2> TAKE i \in DOMAIN tokens
  <2>1. tokens[i] \in RefreshToken /\ tokens'[i] = [tokens[i] EXCEPT !.revoked = TRUE]
    BY <1>1, TokenTyped
  <2>2. QED
    BY <2>1 DEF RefreshToken
<1>3. tokens' = [i \in DOMAIN tokens |-> tokens'[i]]
  BY <1>1
<1>4. /\ tokens' \in Seq(RefreshToken) /\ Len(tokens') <= MaxTokens /\ DOMAIN tokens' = DOMAIN tokens
      /\ \A i \in DOMAIN tokens' : tokens'[i].session <= begun' + 1
  BY <1>1, <1>2, <1>3, TokensUpdated
<1>5. \A d \in Clients : RequestTyped(request'[d], begun', tokens')
  <2> TAKE d \in Clients
  <2>1. RequestTyped(request[d], begun, tokens)
    BY DEF AccessTyped
  <2>2. CASE request'[d] = NoRequest
    BY <2>2 DEF RequestTyped, NoRequest, Stages, Sessionful
  <2>3. CASE request'[d] = [request[d] EXCEPT !.stale = TRUE] /\ request[d].stage # "none"
    <3>1. PICK q : q = request'[d]
      OBVIOUS
    <3>2. /\ DOMAIN q = DOMAIN request[d] /\ "stale" \in DOMAIN request[d]
          /\ q = [request[d] EXCEPT !.stale = TRUE]
      BY <2>1, <2>3, <3>1 DEF RequestTyped
    <3>3. /\ q.stage = request[d].stage /\ q.op = request[d].op /\ q.copy = request[d].copy
          /\ q.token = request[d].token /\ q.session = request[d].session /\ q.password = request[d].password
          /\ q.stale = TRUE
      BY <3>2
    <3>4. RequestTyped(q, begun, tokens)
      BY <2>1, <3>2, <3>3 DEF RequestTyped
    <3>5. RequestTyped(q, begun', tokens')
      BY <1>1, <1>2, <1>4, <3>4 DEF RequestTyped
    <3>6. QED
      BY <3>1, <3>5
  <2>4. QED
    BY <1>1, <2>2, <2>3
<1>6. QED
  BY <1>1, <1>4, <1>5 DEF AccessTyped

LEMMA IssueTyped ==
  ASSUME AccessTyped, NEW c \in Clients, IssueTokens(c)
  PROVE  AccessTyped'
<1> DEFINE issued == [revoked |-> FALSE, expired |-> FALSE, session |-> request[c].session,
                      password |-> request[c].password, stale |-> request[c].stale]
<1>1. /\ request[c].stage = "issue" /\ Len(tokens) < MaxTokens
      /\ tokens' = Append(tokens, issued) /\ request' = [request EXCEPT ![c] = NoRequest]
      /\ UNCHANGED <<auth, apiKey, begun, contended, unrevoked, forked, keyEnded, keyContended>>
  BY DEF IssueTokens
<1>2. issued \in RefreshToken /\ issued.session \in 0 .. begun + 1 /\ begun \in Nat
  BY <1>1 DEF AccessTyped, RequestTyped, Sessionful, RefreshToken
<1> HIDE DEF issued
<1>3. /\ tokens \in Seq(RefreshToken) /\ tokens' \in Seq(RefreshToken) /\ Len(tokens') = Len(tokens) + 1
      /\ DOMAIN tokens = 1 .. Len(tokens) /\ DOMAIN tokens' = 1 .. Len(tokens) + 1
      /\ Len(tokens) \in Nat /\ tokens'[Len(tokens) + 1] = issued
      /\ \A i \in DOMAIN tokens : tokens'[i] = tokens[i]
  BY <1>1, <1>2 DEF AccessTyped
<1>4. Len(tokens') <= MaxTokens
  BY <1>1, <1>3, AccessAssumption
<1>5. \A i \in DOMAIN tokens' : tokens'[i].session <= begun' + 1
  BY <1>1, <1>2, <1>3 DEF AccessTyped
<1>6. RequestTyped(NoRequest, begun', tokens')
  BY DEF RequestTyped, NoRequest, Stages, Sessionful
<1>7. QED
  BY <1>1, <1>3, <1>4, <1>5, <1>6, TypedAfter DEF AccessTyped

LEMMA RotateTyped ==
  ASSUME AccessTyped, NEW c \in Clients, RotateToken(c)
  PROVE  AccessTyped'
<1> DEFINE q == IF request[c].op = "refresh" THEN [request[c] EXCEPT !.stage = "issue"] ELSE NoRequest
<1>1. /\ request[c].stage = "rotate" /\ request' = [request EXCEPT ![c] = q]
      /\ tokens' = [tokens EXCEPT ![request[c].token].revoked = TRUE]
      /\ UNCHANGED <<auth, apiKey, begun, contended, unrevoked, forked, keyEnded, keyContended>>
  BY DEF RotateToken, AccessTyped
<1>2. RequestTyped(request[c], begun, tokens)
  BY DEF AccessTyped
<1>3. \A i \in DOMAIN tokens : tokens'[i] \in RefreshToken /\ tokens'[i].session = tokens[i].session
  <2> TAKE i \in DOMAIN tokens
  <2>1. tokens[i] \in RefreshToken /\ tokens'[i] \in {tokens[i], [tokens[i] EXCEPT !.revoked = TRUE]}
    BY <1>1, TokenTyped
  <2>2. QED
    BY <2>1 DEF RefreshToken
<1>4. tokens' = [i \in DOMAIN tokens |-> tokens'[i]]
  BY <1>1 DEF AccessTyped
<1>5. /\ tokens' \in Seq(RefreshToken) /\ Len(tokens') <= MaxTokens /\ DOMAIN tokens' = DOMAIN tokens
      /\ \A i \in DOMAIN tokens' : tokens'[i].session <= begun' + 1
  BY <1>1, <1>3, <1>4, TokensUpdated
<1>6. RequestTyped(q, begun', tokens')
  BY <1>1, <1>2, <1>3, <1>5 DEF RequestTyped, Stages, Sessionful, NoRequest
<1> HIDE DEF q
<1>7. QED
  BY <1>1, <1>3, <1>5, <1>6, TypedAfter DEF AccessTyped

LEMMA SaveKeyTyped ==
  ASSUME AccessTyped, NEW c \in Clients, SaveKey(c)
  PROVE  AccessTyped'
<1>1. /\ request[c].stage = "key" /\ request' = [request EXCEPT ![c] = NoRequest]
      /\ apiKey' = request[c].copy /\ keyEnded' \in BOOLEAN
      /\ UNCHANGED <<auth, tokens, begun, contended, unrevoked, forked, keyContended>>
  BY DEF SaveKey, HoldsKey, AccessTyped
<1>2. RequestTyped(NoRequest, begun', tokens') /\ apiKey' \in ApiKey
  BY <1>1 DEF RequestTyped, NoRequest, Stages, Sessionful, AccessTyped
<1>3. QED
  BY <1>1, <1>2, TypedAfter DEF AccessTyped

LEMMA AbandonTyped ==
  ASSUME AccessTyped, NEW c \in Clients, AbandonRequest(c)
  PROVE  AccessTyped'
<1>1. /\ request' = [request EXCEPT ![c] = NoRequest] /\ unrevoked' \in BOOLEAN
      /\ UNCHANGED <<auth, tokens, apiKey, begun, contended, forked, keyEnded, keyContended>>
  BY DEF AbandonRequest, AccessTyped
<1>2. RequestTyped(NoRequest, begun', tokens')
  BY DEF RequestTyped, NoRequest, Stages, Sessionful
<1>3. QED
  BY <1>1, <1>2, TypedAfter DEF AccessTyped

LEMMA LapseTyped ==
  ASSUME AccessTyped, LapseCode
  PROVE  AccessTyped'
<1>1. PICK column \in {"code", "reset"} : auth' = [auth EXCEPT ![column] = FALSE]
  BY DEF LapseCode
<1>2. IsRow(auth')
  BY <1>1 DEF AccessTyped, IsRow, IsCopy, Columns
<1>3. QED
  BY <1>2 DEF LapseCode, AccessTyped

LEMMA ExpireTokenTyped ==
  ASSUME AccessTyped, NEW i \in DOMAIN tokens, ExpireToken(i)
  PROVE  AccessTyped'
<1>1. /\ tokens' = [tokens EXCEPT ![i].expired = TRUE]
      /\ UNCHANGED <<auth, apiKey, request, begun, contended, unrevoked, forked, keyEnded, keyContended>>
  BY DEF ExpireToken
<1>2. \A j \in DOMAIN tokens : tokens'[j] \in RefreshToken /\ tokens'[j].session = tokens[j].session
  <2> TAKE j \in DOMAIN tokens
  <2>1. tokens[j] \in RefreshToken /\ tokens'[j] \in {tokens[j], [tokens[j] EXCEPT !.expired = TRUE]}
    BY <1>1, TokenTyped
  <2>2. QED
    BY <2>1 DEF RefreshToken
<1>3. tokens' = [j \in DOMAIN tokens |-> tokens'[j]]
  BY <1>1 DEF AccessTyped
<1>4. /\ tokens' \in Seq(RefreshToken) /\ Len(tokens') <= MaxTokens /\ DOMAIN tokens' = DOMAIN tokens
      /\ \A j \in DOMAIN tokens' : tokens'[j].session <= begun' + 1
  BY <1>1, <1>2, <1>3, TokensUpdated
<1>5. \A d \in Clients : RequestTyped(request[d], begun, tokens')
  BY <1>2, <1>4 DEF AccessTyped, RequestTyped
<1>6. QED
  BY <1>1, <1>4, <1>5 DEF AccessTyped

LEMMA AccessTypedStep == AccessTyped /\ [AccessNext]_accessVars => AccessTyped'
<1> SUFFICES ASSUME AccessTyped, [AccessNext]_accessVars PROVE AccessTyped'
  OBVIOUS
<1>1. ASSUME NEW scopes \in NormalizedScopes, CreateKey(scopes) PROVE AccessTyped'
  BY <1>1 DEF CreateKey, AccessTyped, ApiKey
<1>2. CASE ExpireKey
  BY <1>2 DEF ExpireKey, AccessTyped, ApiKey
<1>3. CASE UNCHANGED accessVars
  BY <1>3 DEF accessVars, AccessTyped
<1>4. QED
  BY <1>1, <1>2, <1>3, BeginAuthTyped, SaveAuthTyped, BeginTokenTyped, BeginKeyTyped, RevokeTyped, IssueTyped,
     RotateTyped, SaveKeyTyped, AbandonTyped, LapseTyped, ExpireTokenTyped DEF AccessNext

-----------------------------------------------------------------------------
(* What each step does to the requests *)

\* Only the request of c changes.
Only(c) == \A d \in Clients \ {c} : request'[d] = request[d]

LEMMA BeginAuthDoes ==
  ASSUME AccessTyped, NEW c \in Clients, NEW op \in AuthOps, BeginAuth(c, op)
  PROVE  /\ Only(c) /\ request[c].stage = "none"
         /\ request'[c].stage = IF op = "login" THEN "issue" ELSE "save"
         /\ request'[c].op = op /\ request'[c].password = auth.password
         /\ request'[c].session = begun + 2 /\ request'[c].stale = FALSE
  BY DEF BeginAuth, Begin, AccessTyped, Only

LEMMA SaveAuthDoes ==
  ASSUME AccessTyped, NEW c \in Clients, SaveAuth(c)
  PROVE  /\ Only(c) /\ request[c].stage = "save"
         /\ \/ request'[c] = NoRequest /\ request[c].op \notin PasswordOps
            \/ /\ request'[c].stage = IF request[c].op \in PasswordOps THEN "revoke" ELSE "issue"
               /\ request'[c].stale = request[c].stale /\ request'[c].password = request[c].password
               /\ request'[c].session = request[c].session /\ request'[c].op = request[c].op
<1>1. /\ request[c].stage = "save"
      /\ request' = [request EXCEPT ![c] = IF NextStage(request[c].op) = "done" THEN NoRequest
                                           ELSE [request[c] EXCEPT !.stage = NextStage(request[c].op)]]
  BY DEF SaveAuth, AccessTyped
<1>2. /\ NextStage(request[c].op) = "done" => request[c].op \notin PasswordOps
      /\ NextStage(request[c].op) # "done" =>
           NextStage(request[c].op) = IF request[c].op \in PasswordOps THEN "revoke" ELSE "issue"
  BY DEF NextStage, PasswordOps
<1>3. "stage" \in DOMAIN request[c]
  BY DEF AccessTyped, RequestTyped
<1>4. CASE NextStage(request[c].op) = "done"
  BY <1>1, <1>2, <1>4 DEF AccessTyped, Only
<1>5. CASE NextStage(request[c].op) # "done"
  <2>1. Only(c) /\ request'[c] = [request[c] EXCEPT !.stage = NextStage(request[c].op)]
    BY <1>1, <1>5 DEF AccessTyped, Only
  <2>2. QED
    BY <1>1, <1>2, <1>3, <1>5, <2>1
<1>6. QED
  BY <1>4, <1>5

LEMMA BeginTokenDoes ==
  ASSUME AccessTyped, NEW c \in Clients, NEW op \in {"refresh", "logout"}, NEW i \in DOMAIN tokens,
         BeginToken(c, op, i)
  PROVE  /\ Only(c) /\ request[c].stage = "none"
         /\ request'[c].stage = "rotate" /\ request'[c].op = op /\ request'[c].token = i
         /\ request'[c].stale = tokens[i].stale /\ request'[c].password = tokens[i].password
         /\ request'[c].session = tokens[i].session
         /\ op = "refresh" => IsActive(tokens[i])
  BY DEF BeginToken, Begin, AccessTyped, Only

LEMMA BeginKeyDoes ==
  ASSUME AccessTyped, NEW c \in Clients, NEW op \in {"updateKey", "revokeKey", "removeKey"}, BeginKey(c, op)
  PROVE  /\ Only(c) /\ request[c].stage = "none" /\ apiKey.lives
         /\ request'[c].stage = "key" /\ request'[c].op = op
         /\ op = "updateKey" => request'[c].copy.lives = apiKey.lives /\ request'[c].copy.revoked = apiKey.revoked
         /\ op = "revokeKey" => request'[c].copy.revoked
         /\ op = "removeKey" => ~request'[c].copy.lives
<1>1. PICK scopes \in NormalizedScopes, expired \in {apiKey.expired, FALSE} :
        request' = [request EXCEPT ![c] = [stage |-> "key", op |-> op, stale |-> FALSE,
          copy |-> IF op = "updateKey" THEN [apiKey EXCEPT !.scopes = scopes, !.expired = expired]
                   ELSE [apiKey EXCEPT !.revoked = op = "revokeKey", !.lives = op # "removeKey"]]]
  BY DEF BeginKey
<1>2. /\ request'[c].copy = IF op = "updateKey" THEN [apiKey EXCEPT !.scopes = scopes, !.expired = expired]
                            ELSE [apiKey EXCEPT !.revoked = op = "revokeKey", !.lives = op # "removeKey"]
      /\ request'[c].stage = "key" /\ request'[c].op = op /\ Only(c)
  BY <1>1 DEF AccessTyped, Only
<1>3. request[c].stage = "none" /\ apiKey.lives /\ apiKey \in ApiKey
  BY DEF BeginKey, Begin, AccessTyped
<1>4. QED
  BY <1>2, <1>3 DEF ApiKey

LEMMA RotateDoes ==
  ASSUME AccessTyped, NEW c \in Clients, RotateToken(c)
  PROVE  /\ Only(c) /\ request[c].stage = "rotate" /\ request[c].token \in DOMAIN tokens
         /\ \/ request'[c] = NoRequest /\ request[c].op # "refresh"
            \/ /\ request[c].op = "refresh" /\ request'[c].stage = "issue"
               /\ request'[c].stale = request[c].stale /\ request'[c].password = request[c].password
               /\ request'[c].session = request[c].session
         /\ DOMAIN tokens' = DOMAIN tokens
         /\ \A i \in DOMAIN tokens : tokens'[i] =
              IF i = request[c].token THEN [tokens[i] EXCEPT !.revoked = TRUE] ELSE tokens[i]
<1>1. /\ request[c].stage = "rotate" /\ Only(c)
      /\ request'[c] = IF request[c].op = "refresh" THEN [request[c] EXCEPT !.stage = "issue"] ELSE NoRequest
      /\ tokens' = [tokens EXCEPT ![request[c].token].revoked = TRUE]
  BY DEF RotateToken, AccessTyped, Only
<1>2. "stage" \in DOMAIN request[c] /\ request[c].token \in DOMAIN tokens
  BY <1>1 DEF AccessTyped, RequestTyped
<1>3. /\ DOMAIN tokens' = DOMAIN tokens
      /\ \A i \in DOMAIN tokens : tokens'[i] =
           IF i = request[c].token THEN [tokens[i] EXCEPT !.revoked = TRUE] ELSE tokens[i]
  BY <1>1, <1>2 DEF AccessTyped
<1>4. CASE request[c].op = "refresh"
  BY <1>1, <1>2, <1>3, <1>4
<1>5. CASE request[c].op # "refresh"
  BY <1>1, <1>2, <1>3, <1>5
<1>6. QED
  BY <1>4, <1>5

\* A request that issued its tokens, saved its key or was abandoned is over.
LEMMA EndDoes ==
  ASSUME AccessTyped, NEW c \in Clients, request' = [request EXCEPT ![c] = NoRequest]
  PROVE  Only(c) /\ request'[c].stage = "none"
  BY DEF AccessTyped, Only, NoRequest

LEMMA IssueDoes ==
  ASSUME AccessTyped, NEW c \in Clients, IssueTokens(c)
  PROVE  /\ Only(c) /\ request'[c].stage = "none" /\ request[c].stage = "issue"
         /\ DOMAIN tokens' = DOMAIN tokens \cup {Len(tokens) + 1} /\ Len(tokens) + 1 \notin DOMAIN tokens
         /\ \A i \in DOMAIN tokens : tokens'[i] = tokens[i]
         /\ LET issued == tokens'[Len(tokens) + 1] IN
              issued.session = request[c].session /\ issued.password = request[c].password
                /\ issued.stale = request[c].stale
<1>1. Only(c) /\ request'[c].stage = "none" /\ request[c].stage = "issue"
  BY EndDoes DEF IssueTokens
<1>2. PICK issued : /\ tokens' = Append(tokens, issued) /\ issued.session = request[c].session
                    /\ issued.password = request[c].password /\ issued.stale = request[c].stale
  <2> DEFINE issued == [revoked |-> FALSE, expired |-> FALSE, session |-> request[c].session,
                        password |-> request[c].password, stale |-> request[c].stale]
  <2>1. /\ tokens' = Append(tokens, issued) /\ issued.session = request[c].session
        /\ issued.password = request[c].password /\ issued.stale = request[c].stale
    BY DEF IssueTokens
  <2>2. QED
    BY <2>1
<1>3. tokens \in Seq(RefreshToken)
  BY DEF AccessTyped
<1>4. /\ DOMAIN tokens = 1 .. Len(tokens) /\ DOMAIN tokens' = 1 .. Len(tokens) + 1 /\ Len(tokens) \in Nat
      /\ tokens'[Len(tokens) + 1] = issued /\ \A i \in DOMAIN tokens : tokens'[i] = tokens[i]
  BY <1>2, <1>3
<1>5. QED
  BY <1>1, <1>2, <1>4

\* changePassword, resetPassword: their last step.
LEMMA RevokeDoes ==
  ASSUME AccessTyped, NEW c \in Clients, RevokeSessions(c)
  PROVE  /\ request[c].stage = "revoke"
         /\ \A d \in Clients :
              \/ request'[d] = NoRequest
              \/ /\ request'[d].stage = request[d].stage /\ request'[d].op = request[d].op
                 /\ request'[d].copy = request[d].copy /\ request'[d].token = request[d].token
                 /\ request'[d].session = request[d].session /\ request'[d].stale
         /\ DOMAIN tokens' = DOMAIN tokens
         /\ \A i \in DOMAIN tokens : tokens'[i].revoked /\ tokens'[i].session = tokens[i].session
<1>1. /\ request[c].stage = "revoke"
      /\ tokens' = [i \in DOMAIN tokens |-> [tokens[i] EXCEPT !.revoked = TRUE]]
      /\ \A d \in Clients : \/ request'[d] = NoRequest
                            \/ request'[d] = [request[d] EXCEPT !.stale = TRUE] /\ request[d].stage # "none"
  BY DEF RevokeSessions
<1>2. ASSUME NEW d \in Clients, request'[d] = [request[d] EXCEPT !.stale = TRUE], request[d].stage # "none"
      PROVE  /\ request'[d].stage = request[d].stage /\ request'[d].op = request[d].op
             /\ request'[d].copy = request[d].copy /\ request'[d].token = request[d].token
             /\ request'[d].session = request[d].session /\ request'[d].stale
  <2>1. "stale" \in DOMAIN request[d]
    BY <1>2 DEF AccessTyped, RequestTyped
  <2>2. QED
    BY <1>2, <2>1
<1>3. ASSUME NEW i \in DOMAIN tokens PROVE tokens'[i].revoked /\ tokens'[i].session = tokens[i].session
  <2>1. tokens[i] \in RefreshToken /\ tokens'[i] = [tokens[i] EXCEPT !.revoked = TRUE]
    BY <1>1, TokenTyped
  <2>2. QED
    BY <2>1 DEF RefreshToken
<1>4. QED
  BY <1>1, <1>2, <1>3

-----------------------------------------------------------------------------
(* The row of authentications *)

LEMMA OverColumn ==
  ASSUME NEW a, NEW r, IsCopy(a), IsRow(r), NEW column \in Columns
  PROVE  Over(a, r)[column] = IF column \in DOMAIN a THEN a[column] ELSE r[column]
<1>1. DOMAIN a \cup DOMAIN r = Columns
  BY DEF IsCopy, IsRow
<1>2. QED
  BY <1>1 DEF Over

\* The columns of the copy that were loaded are those of the row.
LEMMA OverLoaded ==
  ASSUME NEW op \in AuthOps, IsRow(auth), Accepts(op, auth), NEW column \in Columns
  PROVE  Over(Over(Assigned(op, auth), Restrict(auth, Loaded(op))), auth)[column]
           = IF column \in DOMAIN Assigned(op, auth) THEN Assigned(op, auth)[column] ELSE auth[column]
<1> DEFINE a == Assigned(op, auth)
           l == Restrict(auth, Loaded(op))
<1>1. IsCopy(a) /\ IsCopy(l) /\ IsCopy(Over(a, l))
  BY LoadedColumns, OverCopies, AccessAssumption
<1>2. DOMAIN l = Loaded(op) /\ \A x \in Loaded(op) : l[x] = auth[x]
  BY DEF Restrict
<1> HIDE DEF a, l
<1>3. /\ DOMAIN Over(a, l) = DOMAIN a \cup DOMAIN l
      /\ \A x \in DOMAIN a \cup DOMAIN l : Over(a, l)[x] = IF x \in DOMAIN a THEN a[x] ELSE l[x]
  BY DEF Over
<1>4. Over(Over(a, l), auth)[column] = IF column \in DOMAIN Over(a, l) THEN Over(a, l)[column] ELSE auth[column]
  BY <1>1, OverColumn
<1>5. Over(Over(a, l), auth)[column] = IF column \in DOMAIN a THEN a[column] ELSE auth[column]
  BY <1>2, <1>3, <1>4
<1>6. QED
  BY <1>5 DEF a, l

\* Whatever the operation, what it begins to save is coherent.
LEMMA BegunCoherent ==
  ASSUME NEW op \in AuthOps, IsRow(auth), Accepts(op, auth), Coherent(auth)
  PROVE  LET row == Over(Over(Assigned(op, auth), Restrict(auth, Loaded(op))), auth)
         IN  Coherent(row) /\ (op \notin PasswordOps => row.password = auth.password)
<1> DEFINE row == Over(Over(Assigned(op, auth), Restrict(auth, Loaded(op))), auth)
           a == Assigned(op, auth)
<1>1. /\ row["method"] = IF "method" \in DOMAIN a THEN a["method"] ELSE auth["method"]
      /\ row["secret"] = IF "secret" \in DOMAIN a THEN a["secret"] ELSE auth["secret"]
      /\ row["password"] = IF "password" \in DOMAIN a THEN a["password"] ELSE auth["password"]
  BY OverLoaded DEF Columns
<1> HIDE DEF row
<1>2. CASE op = "confirmTotp"
  <2>1. a = [method |-> "totp", secret |-> auth.pending, pending |-> FALSE, code |-> FALSE]
    BY <1>2 DEF Assigned
  <2>2. auth.pending
    BY <1>2 DEF Accepts
  <2>3. row["method"] = "totp" /\ row["secret"] = auth.pending /\ row["password"] = auth["password"]
    BY <1>1, <2>1
  <2>4. QED
    BY <2>2, <2>3 DEF Coherent, row
<1>3. CASE op \in {"confirmEmail", "disable"}
  <2>1. /\ op = "confirmEmail" => a = [method |-> "email", secret |-> FALSE, pending |-> FALSE, code |-> FALSE]
        /\ op = "disable" => a = [method |-> "none", secret |-> FALSE, pending |-> FALSE]
    BY DEF Assigned
  <2>2. row["method"] # "totp" /\ row["password"] = auth["password"]
    BY <1>1, <1>3, <2>1
  <2>3. QED
    BY <2>2 DEF Coherent, row
<1>4. CASE op \in PasswordOps
  <2>1. /\ op = "changePassword" => a = [password |-> auth.password + 1]
        /\ op = "resetPassword" => a = [password |-> auth.password + 1, reset |-> FALSE]
    BY DEF Assigned
  <2>2. row["method"] = auth["method"] /\ row["secret"] = auth["secret"]
    BY <1>1, <1>4, <2>1 DEF PasswordOps
  <2>3. QED
    BY <1>4, <2>2 DEF Coherent, row
<1>5. CASE op \in {"login", "loginCode", "sendCode", "beginTotp", "beginEmail", "requestReset"}
  <2>1. /\ op \in {"login", "requestReset"} => a = [reset |-> TRUE]
        /\ op = "loginCode" => a = [code |-> FALSE]
        /\ op \in {"beginEmail", "sendCode"} => a = [code |-> TRUE]
        /\ op = "beginTotp" => a = [pending |-> TRUE]
    BY DEF Assigned
  <2>2. row["method"] = auth["method"] /\ row["secret"] = auth["secret"] /\ row["password"] = auth["password"]
    BY <1>1, <1>5, <2>1
  <2>3. QED
    BY <2>2 DEF Coherent, row
<1>6. QED
  BY <1>2, <1>3, <1>4, <1>5 DEF AuthOps, PasswordOps, row

LEMMA RowBegins ==
  ASSUME AccessInv, NEW c \in Clients, NEW op \in AuthOps, BeginAuth(c, op)
  PROVE  RowKept'
<1> SUFFICES ASSUME ~contended' PROVE RowKept'
  BY DEF RowKept
<1> DEFINE copied == Over(Assigned(op, auth), Restrict(auth, Loaded(op)))
<1>1. /\ Accepts(op, auth) /\ auth' = auth /\ ~contended
      /\ \A d \in Clients : request[d].stage # "save"
      /\ \A d \in Clients \ {c} : request'[d] = request[d]
      /\ request'[c].op = op /\ request'[c].copy = copied
      /\ request'[c].stage = IF op = "login" THEN "issue" ELSE "save"
  BY DEF BeginAuth, AccessInv, AccessTyped
<1>2. IsRow(auth) /\ Coherent(auth)
  BY <1>1 DEF AccessInv, AccessTyped, RowKept
<1>3. Coherent(Over(copied, auth)) /\ (op \notin PasswordOps => Over(copied, auth).password = auth.password)
  BY <1>1, <1>2, BegunCoherent
<1> HIDE DEF copied
<1>4. QED
  BY <1>1, <1>2, <1>3 DEF RowKept, Coherent

LEMMA RowSaved ==
  ASSUME AccessInv, NEW c \in Clients, SaveAuth(c)
  PROVE  RowKept'
<1> SUFFICES ASSUME ~contended' PROVE RowKept'
  BY DEF RowKept
<1>1. /\ request[c].stage = "save" /\ ~contended /\ auth' = Over(request[c].copy, auth)
      /\ \A d \in Clients \ {c} : request'[d] = request[d]
      /\ request'[c] = IF NextStage(request[c].op) = "done" THEN NoRequest
                       ELSE [request[c] EXCEPT !.stage = NextStage(request[c].op)]
  BY DEF SaveAuth, AccessInv, AccessTyped
<1>2. request'[c].stage # "save"
  <2>1. NextStage(request[c].op) \in {"revoke", "issue", "done"}
    BY DEF NextStage
  <2>2. "stage" \in DOMAIN request[c]
    BY DEF AccessInv, AccessTyped, RequestTyped
  <2>3. QED
    BY <1>1, <2>1, <2>2 DEF NoRequest
<1>3. \A d \in Clients : request'[d].stage # "save"
  BY <1>1, <1>2 DEF AccessInv, RowKept
<1>4. Coherent(auth')
  BY <1>1 DEF AccessInv, RowKept
<1>5. QED
  BY <1>3, <1>4 DEF RowKept, Coherent

\* A code that lapses is none of the columns that must agree.
LEMMA RowLapses ==
  ASSUME AccessInv, LapseCode
  PROVE  RowKept'
<1> SUFFICES ASSUME ~contended' PROVE RowKept'
  BY DEF RowKept
<1>1. request' = request /\ ~contended
  BY DEF LapseCode
<1>2. PICK lapsed \in {"code", "reset"} : auth' = [auth EXCEPT ![lapsed] = FALSE]
  BY DEF LapseCode
<1>3. IsRow(auth) /\ IsRow(auth')
  BY LapseTyped DEF AccessInv, AccessTyped
<1>4. \A column \in {"password", "method", "secret"} : auth'[column] = auth[column]
  BY <1>2, <1>3 DEF IsRow, Columns
<1>5. ASSUME NEW c \in Clients, request[c].stage = "save"
      PROVE  \A column \in {"password", "method", "secret"} :
               Over(request[c].copy, auth')[column] = Over(request[c].copy, auth)[column]
  <2>1. IsCopy(request[c].copy)
    BY <1>5 DEF AccessInv, AccessTyped, RequestTyped
  <2>2. QED
    BY <1>3, <1>4, <2>1, OverColumn DEF Columns
<1>6. QED
  BY <1>1, <1>4, <1>5 DEF AccessInv, RowKept, Coherent

LEMMA RowQuiet ==
  ASSUME AccessInv, auth' = auth, contended' = contended,
         \A d \in Clients : request'[d].stage = "save" =>
           request[d].stage = "save" /\ request'[d].op = request[d].op /\ request'[d].copy = request[d].copy
  PROVE  RowKept'
  BY DEF AccessInv, RowKept, Coherent

\* What the requests keep of what they hold, in the steps that save nothing of the row.
LEMMA SavesUntouched ==
  ASSUME AccessTyped, NEW c \in Clients, Only(c), request'[c].stage # "save"
  PROVE  \A d \in Clients : request'[d].stage = "save" =>
           request[d].stage = "save" /\ request'[d].op = request[d].op /\ request'[d].copy = request[d].copy
  BY DEF Only

LEMMA RowStep == AccessInv /\ [AccessNext]_accessVars => RowKept'
<1> SUFFICES ASSUME AccessInv, [AccessNext]_accessVars PROVE RowKept'
  OBVIOUS
<1> USE DEF AccessInv
<1>1. ASSUME NEW c \in Clients, NEW op \in {"refresh", "logout"}, NEW i \in DOMAIN tokens, BeginToken(c, op, i)
      PROVE  RowKept'
  BY <1>1, BeginTokenDoes, SavesUntouched, RowQuiet DEF BeginToken
<1>2. ASSUME NEW c \in Clients, NEW op \in {"updateKey", "revokeKey", "removeKey"}, BeginKey(c, op)
      PROVE  RowKept'
  <2>1. Only(c) /\ request'[c].stage # "save"
    BY <1>2, BeginKeyDoes
  <2>2. auth' = auth /\ contended' = contended
    BY <1>2 DEF BeginKey
  <2>3. QED
    BY <2>1, <2>2, SavesUntouched, RowQuiet
<1>3. ASSUME NEW c \in Clients, RevokeSessions(c) PROVE RowKept'
  BY <1>3, RevokeDoes, RowQuiet DEF RevokeSessions, NoRequest
<1>4. ASSUME NEW c \in Clients, IssueTokens(c) \/ SaveKey(c) \/ AbandonRequest(c) PROVE RowKept'
  <2>1. request' = [request EXCEPT ![c] = NoRequest] /\ UNCHANGED contended
    BY <1>4 DEF IssueTokens, SaveKey, AbandonRequest
  <2>2. auth' = auth
    BY <1>4 DEF IssueTokens, SaveKey, AbandonRequest
  <2>3. QED
    BY <2>1, <2>2, EndDoes, SavesUntouched, RowQuiet
<1>5. ASSUME NEW c \in Clients, RotateToken(c) PROVE RowKept'
  BY <1>5, RotateDoes, SavesUntouched, RowQuiet DEF RotateToken, NoRequest
<1>6. ASSUME NEW i \in DOMAIN tokens, ExpireToken(i) PROVE RowKept'
  BY <1>6, RowQuiet DEF ExpireToken
<1>7. ASSUME NEW scopes \in NormalizedScopes, CreateKey(scopes) PROVE RowKept'
  BY <1>7, RowQuiet DEF CreateKey
<1>8. CASE ExpireKey
  BY <1>8, RowQuiet DEF ExpireKey
<1>9. CASE UNCHANGED accessVars
  BY <1>9, RowQuiet DEF accessVars
<1>10. QED
  BY <1>1, <1>2, <1>3, <1>4, <1>5, <1>6, <1>7, <1>8, <1>9, RowBegins, RowSaved, RowLapses DEF AccessNext

-----------------------------------------------------------------------------
(* The password the open sessions were opened with *)

LEMMA PasswordQuiet ==
  ASSUME AccessInv, auth'.password = auth.password, ~contended' => ~contended, ~Ending' => ~Ending,
         DOMAIN tokens' = DOMAIN tokens,
         \A i \in DOMAIN tokens : IsActive(tokens'[i]) /\ ~tokens'[i].stale =>
           IsActive(tokens[i]) /\ ~tokens[i].stale /\ tokens'[i].password = tokens[i].password,
         \A d \in Clients : Opening(d)' /\ ~request'[d].stale =>
           \/ request'[d].password = auth.password
           \/ Opening(d) /\ ~request[d].stale /\ request'[d].password = request[d].password
  PROVE  PasswordKept'
<1> SUFFICES ASSUME ~contended', ~Ending' PROVE PasswordKept'
  BY DEF PasswordKept
<1>1. ~contended /\ ~Ending /\ PasswordKept
  BY DEF AccessInv
<1>2. QED
  BY <1>1 DEF PasswordKept

\* The sessions of a password that is being changed are still to be ended.
LEMMA EndingKept ==
  ASSUME NEW c \in Clients, Only(c), request[c].stage = "revoke" => unrevoked', unrevoked => unrevoked'
  PROVE  ~Ending' => ~Ending
  BY DEF Only, Ending

LEMMA PasswordBegins ==
  ASSUME AccessInv, NEW c \in Clients, NEW op \in AuthOps, BeginAuth(c, op)
  PROVE  PasswordKept'
<1>1. AccessTyped /\ Only(c) /\ request[c].stage = "none" /\ request'[c].password = auth.password
  BY BeginAuthDoes DEF AccessInv
<1>2. auth' = auth /\ tokens' = tokens /\ unrevoked' = unrevoked /\ (~contended' => ~contended)
  BY <1>1 DEF BeginAuth, AccessTyped
<1>3. ~Ending' => ~Ending
  BY <1>1, <1>2, EndingKept
<1>4. QED
  BY <1>1, <1>2, <1>3, PasswordQuiet DEF Opening, Refreshing, Only

LEMMA PasswordSaved ==
  ASSUME AccessInv, NEW c \in Clients, SaveAuth(c)
  PROVE  PasswordKept'
<1> SUFFICES ASSUME ~contended', ~Ending' PROVE PasswordKept'
  BY DEF PasswordKept
<1>1. AccessTyped /\ RowKept /\ Only(c) /\ request[c].stage = "save"
  BY SaveAuthDoes DEF AccessInv
<1>2. /\ ~contended /\ auth' = Over(request[c].copy, auth)
      /\ UNCHANGED <<tokens, apiKey, begun, contended, unrevoked, forked, keyEnded, keyContended>>
  BY DEF SaveAuth
<1>3. request[c].op \notin PasswordOps
  BY <1>1, SaveAuthDoes DEF Ending, NoRequest
<1>4. auth'.password = auth.password
  BY <1>1, <1>2, <1>3 DEF RowKept
<1>5. ~Ending
  BY <1>1, <1>2, EndingKept
<1>6. \A d \in Clients : Opening(d)' /\ ~request'[d].stale =>
        Opening(d) /\ ~request[d].stale /\ request'[d].password = request[d].password
  BY <1>1, SaveAuthDoes DEF Opening, Refreshing, Only, NoRequest
<1>7. QED
  BY <1>2, <1>4, <1>5, <1>6, PasswordQuiet

\* A refresh takes over an open session, with its password.
LEMMA PasswordTaken ==
  ASSUME AccessInv, NEW c \in Clients, NEW op \in {"refresh", "logout"}, NEW i \in DOMAIN tokens,
         BeginToken(c, op, i)
  PROVE  PasswordKept'
<1> SUFFICES ASSUME ~contended', ~Ending' PROVE PasswordKept'
  BY DEF PasswordKept
<1>1. /\ AccessTyped /\ Only(c) /\ request[c].stage = "none"
      /\ UNCHANGED <<auth, tokens, contended, unrevoked>>
  BY DEF AccessInv, BeginToken, Begin, Only, AccessTyped
<1>2. ~contended /\ ~Ending
  BY <1>1, EndingKept
<1>3. ASSUME NEW d \in Clients, Opening(d)', ~request'[d].stale
      PROVE  request'[d].password = auth.password
  <2>1. CASE d = c
    <3>1. IsActive(tokens[i]) /\ ~tokens[i].stale /\ request'[c].password = tokens[i].password
      BY <1>1, <1>3, <2>1, BeginTokenDoes DEF Opening, Refreshing
    <3>2. QED
      BY <1>2, <2>1, <3>1 DEF AccessInv, PasswordKept
  <2>2. CASE d # c
    BY <1>1, <1>2, <1>3, <2>2 DEF AccessInv, PasswordKept, Opening, Refreshing, Only
  <2>3. QED
    BY <2>1, <2>2
<1>4. QED
  BY <1>1, <1>2, <1>3, PasswordQuiet

LEMMA PasswordIssued ==
  ASSUME AccessInv, NEW c \in Clients, IssueTokens(c)
  PROVE  PasswordKept'
<1> SUFFICES ASSUME ~contended', ~Ending' PROVE PasswordKept'
  BY DEF PasswordKept
<1>1. /\ AccessTyped /\ Only(c) /\ request'[c].stage = "none" /\ request[c].stage = "issue"
      /\ UNCHANGED <<auth, contended, unrevoked>>
  BY IssueDoes DEF AccessInv, IssueTokens
<1>2. ~contended /\ ~Ending /\ PasswordKept
  BY <1>1, EndingKept DEF AccessInv
<1>3. ASSUME NEW i \in DOMAIN tokens', ~tokens'[i].stale, IsActive(tokens'[i])
      PROVE  tokens'[i].password = auth.password
  <2>1. CASE i \in DOMAIN tokens
    BY <1>1, <1>2, <1>3, <2>1, IssueDoes DEF PasswordKept
  <2>2. CASE i \notin DOMAIN tokens
    BY <1>1, <1>2, <1>3, <2>2, IssueDoes DEF PasswordKept, Opening
  <2>3. QED
    BY <2>1, <2>2
<1>4. ASSUME NEW d \in Clients, Opening(d)', ~request'[d].stale
      PROVE  request'[d].password = auth.password
  BY <1>1, <1>2, <1>4 DEF PasswordKept, Opening, Refreshing, Only
<1>5. QED
  BY <1>1, <1>3, <1>4 DEF PasswordKept

LEMMA PasswordRevoked ==
  ASSUME AccessInv, NEW c \in Clients, RevokeSessions(c)
  PROVE  PasswordKept'
<1>1. AccessTyped
  BY DEF AccessInv
<1>2. \A i \in DOMAIN tokens' : ~IsActive(tokens'[i])
  BY <1>1, RevokeDoes DEF IsActive
<1>3. \A d \in Clients : Opening(d)' => request'[d].stale
  BY <1>1, RevokeDoes DEF Opening, Refreshing, NoRequest
<1>4. QED
  BY <1>2, <1>3 DEF PasswordKept, IsActive

LEMMA PasswordStep == AccessInv /\ [AccessNext]_accessVars => PasswordKept'
<1> SUFFICES ASSUME AccessInv, [AccessNext]_accessVars PROVE PasswordKept'
  OBVIOUS
<1>0. AccessTyped
  BY DEF AccessInv
<1>1. ASSUME NEW c \in Clients, NEW op \in {"updateKey", "revokeKey", "removeKey"}, BeginKey(c, op)
      PROVE  PasswordKept'
  <2>1. Only(c) /\ request[c].stage = "none" /\ request'[c].stage = "key"
    BY <1>0, <1>1, BeginKeyDoes
  <2>2. UNCHANGED <<auth, tokens, contended, unrevoked>>
    BY <1>1 DEF BeginKey
  <2>3. ~Ending' => ~Ending
    BY <2>1, <2>2, EndingKept
  <2>4. QED
    BY <2>1, <2>2, <2>3, PasswordQuiet DEF Opening, Refreshing, Only
<1>2. ASSUME NEW c \in Clients, SaveKey(c) \/ AbandonRequest(c) PROVE PasswordKept'
  <2>1. Only(c) /\ request'[c].stage = "none"
    BY <1>0, <1>2, EndDoes DEF SaveKey, AbandonRequest
  <2>2. UNCHANGED <<auth, tokens, contended>>
    BY <1>2 DEF SaveKey, AbandonRequest
  <2>3. (request[c].stage = "revoke" => unrevoked') /\ (unrevoked => unrevoked')
    <3>1. CASE SaveKey(c)
      BY <3>1 DEF SaveKey, HoldsKey
    <3>2. CASE AbandonRequest(c)
      BY <1>0, <3>2 DEF AbandonRequest, AccessTyped
    <3>3. QED
      BY <1>2, <3>1, <3>2
  <2>4. ~Ending' => ~Ending
    BY <2>1, <2>3, EndingKept
  <2>5. QED
    BY <2>1, <2>2, <2>4, PasswordQuiet DEF Opening, Refreshing, Only
<1>3. ASSUME NEW c \in Clients, RotateToken(c) PROVE PasswordKept'
  <2>1. Only(c) /\ request[c].stage = "rotate" /\ UNCHANGED <<auth, contended, unrevoked>>
    BY <1>0, <1>3, RotateDoes DEF RotateToken
  <2>2. ~Ending' => ~Ending
    BY <2>1, EndingKept
  <2>3. \A i \in DOMAIN tokens : IsActive(tokens'[i]) => tokens'[i] = tokens[i]
    <3> SUFFICES ASSUME NEW i \in DOMAIN tokens, IsActive(tokens'[i]) PROVE tokens'[i] = tokens[i]
      OBVIOUS
    <3>1. tokens[i] \in RefreshToken
      BY <1>0, TokenTyped
    <3>2. [tokens[i] EXCEPT !.revoked = TRUE].revoked
      BY <3>1 DEF RefreshToken
    <3>3. QED
      BY <1>0, <1>3, <3>2, RotateDoes DEF IsActive
  <2>4. \A d \in Clients : Opening(d)' /\ ~request'[d].stale =>
          Opening(d) /\ ~request[d].stale /\ request'[d].password = request[d].password
    BY <1>0, <1>3, <2>1, RotateDoes DEF Opening, Refreshing, Only, NoRequest
  <2>5. DOMAIN tokens' = DOMAIN tokens
    BY <1>0, <1>3, RotateDoes
  <2>6. QED
    BY <2>1, <2>2, <2>3, <2>4, <2>5, PasswordQuiet
<1>4. ASSUME NEW i \in DOMAIN tokens, ExpireToken(i) PROVE PasswordKept'
  <2>1. \A j \in DOMAIN tokens : IsActive(tokens'[j]) => tokens'[j] = tokens[j]
    <3> SUFFICES ASSUME NEW j \in DOMAIN tokens, IsActive(tokens'[j]) PROVE tokens'[j] = tokens[j]
      OBVIOUS
    <3>1. tokens[j] \in RefreshToken
      BY <1>0, TokenTyped
    <3>2. [tokens[j] EXCEPT !.expired = TRUE].expired
      BY <3>1 DEF RefreshToken
    <3>3. QED
      BY <1>0, <1>4, <3>2 DEF IsActive, ExpireToken, AccessTyped
  <2>2. DOMAIN tokens' = DOMAIN tokens /\ UNCHANGED <<auth, request, contended, unrevoked>>
    BY <1>4 DEF ExpireToken
  <2>3. QED
    BY <2>1, <2>2, PasswordQuiet DEF Ending, Opening, Refreshing
<1>5. CASE LapseCode
  <2>1. PICK lapsed \in {"code", "reset"} : auth' = [auth EXCEPT ![lapsed] = FALSE]
    BY <1>5 DEF LapseCode
  <2>2. auth'["password"] = auth["password"]
    BY <1>0, <2>1 DEF AccessTyped, IsRow, Columns
  <2>3. QED
    BY <1>5, <2>2, PasswordQuiet DEF LapseCode, Ending, Opening, Refreshing
<1>6. ASSUME NEW scopes \in NormalizedScopes, CreateKey(scopes) PROVE PasswordKept'
  BY <1>6, PasswordQuiet DEF CreateKey, Ending, Opening, Refreshing
<1>7. CASE ExpireKey
  BY <1>7, PasswordQuiet DEF ExpireKey, Ending, Opening, Refreshing
<1>8. CASE UNCHANGED accessVars
  BY <1>8, PasswordQuiet DEF accessVars, Ending, Opening, Refreshing
<1>9. QED
  BY <1>1, <1>2, <1>3, <1>4, <1>5, <1>6, <1>7, <1>8, PasswordBegins, PasswordSaved, PasswordTaken,
     PasswordIssued, PasswordRevoked DEF AccessNext

-----------------------------------------------------------------------------
(* One token, or one request, for each session *)

\* What the steps leave behind that issue no token, begin nothing and take no session.
LEMMA SessionsQuiet ==
  ASSUME AccessInv, forked \subseteq forked', DOMAIN tokens' = DOMAIN tokens,
         \A i \in DOMAIN tokens : tokens'[i].session = tokens[i].session,
         \A i \in DOMAIN tokens : IsActive(tokens'[i]) => IsActive(tokens[i]),
         \A d \in Clients : Carries(d)' =>
           Carries(d) /\ request'[d].session = request[d].session,
         \A d \in Clients, i \in DOMAIN tokens :
           Carries(d)' /\ IsActive(tokens'[i]) /\ OnToken(d, i) => OnToken(d, i)'
  PROVE  SessionsKept'
<1> USE DEF AccessInv, SessionsKept
<1>1. ASSUME NEW i \in DOMAIN tokens', NEW j \in DOMAIN tokens',
             IsActive(tokens'[i]), IsActive(tokens'[j]), tokens'[i].session = tokens'[j].session
      PROVE  i = j \/ tokens'[i].session \in forked'
  BY <1>1
<1>2. ASSUME NEW d \in Clients, NEW e \in Clients, Carries(d)', Carries(e)', request'[d].session = request'[e].session
      PROVE  d = e \/ request'[d].session \in forked'
  BY <1>2
<1>3. ASSUME NEW d \in Clients, NEW i \in DOMAIN tokens', Carries(d)', IsActive(tokens'[i]),
             tokens'[i].session = request'[d].session
      PROVE  OnToken(d, i)' \/ tokens'[i].session \in forked'
  BY <1>3
<1>4. QED
  BY <1>1, <1>2, <1>3

\* A session that begins has a number of its own.
LEMMA SessionsBegin ==
  ASSUME AccessInv, NEW c \in Clients, NEW op \in AuthOps, BeginAuth(c, op)
  PROVE  SessionsKept'
<1> USE DEF AccessInv
<1>1. /\ Only(c) /\ request'[c].session = begun + 2 /\ request'[c].stage \in {"issue", "save"}
      /\ UNCHANGED <<tokens, forked>> /\ begun \in Nat
  BY BeginAuthDoes DEF BeginAuth, AccessTyped
<1>2. \A d \in Clients \ {c} : Carries(d)' => Carries(d) /\ request'[d].session # begun + 2
  <2> SUFFICES ASSUME NEW d \in Clients \ {c}, Carries(d)' PROVE Carries(d) /\ request'[d].session # begun + 2
    OBVIOUS
  <2>1. request'[d] = request[d] /\ Carries(d)
    BY <1>1 DEF Only, Carries, Refreshing
  <2>2. request[d].session \in 0 .. begun + 1
    BY <2>1 DEF AccessTyped, RequestTyped, Sessionful, Carries, Refreshing
  <2>3. QED
    BY <1>1, <2>1, <2>2
<1>3. \A i \in DOMAIN tokens : tokens[i].session # begun + 2
  BY <1>1, TokenTyped
<1>4. ASSUME NEW d \in Clients, NEW e \in Clients, Carries(d)', Carries(e)', request'[d].session = request'[e].session
      PROVE  d = e \/ request'[d].session \in forked'
  BY <1>1, <1>2, <1>4 DEF SessionsKept, Only
<1>5. ASSUME NEW d \in Clients, NEW i \in DOMAIN tokens', Carries(d)', IsActive(tokens'[i]),
             tokens'[i].session = request'[d].session
      PROVE  OnToken(d, i)' \/ tokens'[i].session \in forked'
  BY <1>1, <1>2, <1>3, <1>5 DEF SessionsKept, Only, OnToken
<1>6. QED
  BY <1>1, <1>4, <1>5 DEF SessionsKept

\* A token is taken to be rotated: by one request, or its session is forked.
LEMMA SessionsTaken ==
  ASSUME AccessInv, NEW c \in Clients, NEW op \in {"refresh", "logout"}, NEW i \in DOMAIN tokens,
         BeginToken(c, op, i)
  PROVE  SessionsKept'
<1> USE DEF AccessInv
<1>1. /\ Only(c) /\ request[c].stage = "none"
      /\ request'[c].stage = "rotate" /\ request'[c].op = op /\ request'[c].token = i
      /\ request'[c].session = tokens[i].session /\ (op = "refresh" => IsActive(tokens[i]))
      /\ UNCHANGED tokens
  <2>1. UNCHANGED tokens
    BY DEF BeginToken
  <2>2. QED
    BY <2>1, BeginTokenDoes
<1>2. /\ forked \subseteq forked'
      /\ \A d \in Clients : OnToken(d, i) => tokens[i].session \in forked'
  BY DEF BeginToken
<1>3. \A d \in Clients \ {c} : request'[d] = request[d] /\ Carries(d)' = Carries(d)
  BY <1>1 DEF Only, Carries, Refreshing
<1>4. Carries(c)' => IsActive(tokens[i])
  BY <1>1 DEF Carries, Refreshing
<1>5. ASSUME NEW d \in Clients \ {c}, Carries(d), IsActive(tokens[i]), request[d].session = tokens[i].session
      PROVE  tokens[i].session \in forked'
  BY <1>2, <1>5 DEF SessionsKept
<1>6. ASSUME NEW d \in Clients, NEW e \in Clients, Carries(d)', Carries(e)', request'[d].session = request'[e].session
      PROVE  d = e \/ request'[d].session \in forked'
  <2>1. CASE d # c /\ e # c
    BY <1>2, <1>3, <1>6, <2>1 DEF SessionsKept
  <2>2. CASE d = c /\ e # c
    BY <1>1, <1>3, <1>4, <1>5, <1>6, <2>2
  <2>3. CASE d # c /\ e = c
    BY <1>1, <1>3, <1>4, <1>5, <1>6, <2>3
  <2>4. QED
    BY <2>1, <2>2, <2>3
<1>7. ASSUME NEW d \in Clients, NEW j \in DOMAIN tokens', Carries(d)', IsActive(tokens'[j]),
             tokens'[j].session = request'[d].session
      PROVE  OnToken(d, j)' \/ tokens'[j].session \in forked'
  <2>1. CASE d = c
    <3>1. i = j \/ tokens[j].session \in forked
      BY <1>1, <1>4, <1>7, <2>1 DEF SessionsKept
    <3>2. QED
      BY <1>1, <1>2, <2>1, <3>1 DEF OnToken
  <2>2. CASE d # c
    BY <1>1, <1>2, <1>3, <1>7, <2>2 DEF SessionsKept, OnToken
  <2>3. QED
    BY <2>1, <2>2
<1>8. QED
  BY <1>1, <1>2, <1>6, <1>7 DEF SessionsKept

\* The token a request issues carries its session on.
LEMMA SessionsIssued ==
  ASSUME AccessInv, NEW c \in Clients, IssueTokens(c)
  PROVE  SessionsKept'
<1> USE DEF AccessInv
<1> DEFINE n == Len(tokens) + 1
<1>1. /\ Only(c) /\ request'[c].stage = "none" /\ request[c].stage = "issue" /\ forked' = forked
      /\ DOMAIN tokens' = DOMAIN tokens \cup {n} /\ n \notin DOMAIN tokens
      /\ \A i \in DOMAIN tokens : tokens'[i] = tokens[i]
      /\ tokens'[n].session = request[c].session
  BY IssueDoes DEF IssueTokens
<1> HIDE DEF n
<1>2. /\ Carries(c)
      /\ \A d \in Clients : Carries(d)' => d # c /\ Carries(d) /\ request'[d] = request[d]
  BY <1>1 DEF Only, Carries, Refreshing
<1>3. ASSUME NEW i \in DOMAIN tokens, IsActive(tokens[i]), tokens[i].session = request[c].session
      PROVE  request[c].session \in forked
  BY <1>1, <1>2, <1>3 DEF SessionsKept, OnToken
<1>4. ASSUME NEW i \in DOMAIN tokens', NEW j \in DOMAIN tokens',
             IsActive(tokens'[i]), IsActive(tokens'[j]), tokens'[i].session = tokens'[j].session
      PROVE  i = j \/ tokens'[i].session \in forked'
  <2>1. CASE i # n /\ j # n
    BY <1>1, <1>4, <2>1 DEF SessionsKept
  <2>2. CASE i # n /\ j = n
    BY <1>1, <1>3, <1>4, <2>2
  <2>3. CASE i = n /\ j # n
    BY <1>1, <1>3, <1>4, <2>3
  <2>4. QED
    BY <2>1, <2>2, <2>3
<1>5. ASSUME NEW d \in Clients, NEW i \in DOMAIN tokens', Carries(d)', IsActive(tokens'[i]),
             tokens'[i].session = request'[d].session
      PROVE  OnToken(d, i)' \/ tokens'[i].session \in forked'
  <2>1. CASE i = n
    <3>1. d # c /\ Carries(d) /\ request[d].session = request[c].session
      BY <1>1, <1>2, <1>5, <2>1
    <3>2. QED
      BY <1>1, <1>2, <2>1, <3>1 DEF SessionsKept
  <2>2. CASE i # n
    BY <1>1, <1>2, <1>5, <2>2 DEF SessionsKept, OnToken
  <2>3. QED
    BY <2>1, <2>2
<1>6. \A d, e \in Clients : Carries(d)' /\ Carries(e)' /\ request'[d].session = request'[e].session
        => d = e \/ request'[d].session \in forked'
  BY <1>1, <1>2 DEF SessionsKept
<1>7. QED
  BY <1>4, <1>5, <1>6 DEF SessionsKept

LEMMA SessionsRotated ==
  ASSUME AccessInv, NEW c \in Clients, RotateToken(c)
  PROVE  SessionsKept'
<1> USE DEF AccessInv
<1>1. /\ Only(c) /\ request[c].stage = "rotate" /\ DOMAIN tokens' = DOMAIN tokens
      /\ request[c].token \in DOMAIN tokens
  BY RotateDoes
<1>2. forked' = forked
  BY DEF RotateToken
<1>3. \A i \in DOMAIN tokens :
        /\ tokens'[i].session = tokens[i].session
        /\ IsActive(tokens'[i]) => IsActive(tokens[i]) /\ i # request[c].token
  <2> TAKE i \in DOMAIN tokens
  <2>1. tokens[i] \in RefreshToken
    BY TokenTyped
  <2>2. [tokens[i] EXCEPT !.revoked = TRUE].revoked /\ [tokens[i] EXCEPT !.revoked = TRUE].session = tokens[i].session
    BY <2>1 DEF RefreshToken
  <2>3. tokens'[i] = IF i = request[c].token THEN [tokens[i] EXCEPT !.revoked = TRUE] ELSE tokens[i]
    BY RotateDoes
  <2>4. QED
    BY <2>2, <2>3 DEF IsActive
<1>4. \A d \in Clients : Carries(d)' => Carries(d) /\ request'[d].session = request[d].session
  BY <1>1, RotateDoes DEF Carries, Refreshing, Only, NoRequest
<1>5. \A d \in Clients, i \in DOMAIN tokens :
        Carries(d)' /\ IsActive(tokens'[i]) /\ OnToken(d, i) => OnToken(d, i)'
  BY <1>1, <1>3 DEF OnToken, Only
<1>6. QED
  BY <1>1, <1>2, <1>3, <1>4, <1>5, SessionsQuiet

LEMMA SessionsStep == AccessInv /\ [AccessNext]_accessVars => SessionsKept'
<1> SUFFICES ASSUME AccessInv, [AccessNext]_accessVars PROVE SessionsKept'
  OBVIOUS
<1>0. AccessTyped
  BY DEF AccessInv
<1>1. ASSUME NEW c \in Clients, SaveAuth(c) PROVE SessionsKept'
  <2>1. Only(c) /\ request[c].stage = "save" /\ UNCHANGED <<tokens, forked>>
    BY <1>0, <1>1, SaveAuthDoes DEF SaveAuth
  <2>2. \A d \in Clients : Carries(d)' => Carries(d) /\ request'[d].session = request[d].session
    BY <1>0, <1>1, <2>1, SaveAuthDoes DEF Carries, Refreshing, Only, NoRequest
  <2>3. \A d \in Clients, i \in DOMAIN tokens : OnToken(d, i) => OnToken(d, i)'
    BY <2>1 DEF OnToken, Only
  <2>4. QED
    BY <2>1, <2>2, <2>3, SessionsQuiet
<1>2. ASSUME NEW c \in Clients, NEW op \in {"updateKey", "revokeKey", "removeKey"}, BeginKey(c, op)
      PROVE  SessionsKept'
  <2>1. Only(c) /\ request[c].stage = "none" /\ request'[c].stage = "key"
    BY <1>0, <1>2, BeginKeyDoes
  <2>2. UNCHANGED <<tokens, forked>>
    BY <1>2 DEF BeginKey
  <2>3. QED
    BY <2>1, <2>2, SessionsQuiet DEF Carries, Refreshing, Only, OnToken
<1>3. ASSUME NEW c \in Clients, SaveKey(c) \/ AbandonRequest(c) PROVE SessionsKept'
  <2>1. Only(c) /\ request'[c].stage = "none"
    BY <1>0, <1>3, EndDoes DEF SaveKey, AbandonRequest
  <2>2. UNCHANGED <<tokens, forked>>
    BY <1>3 DEF SaveKey, AbandonRequest
  <2>3. QED
    BY <2>1, <2>2, SessionsQuiet DEF Carries, Refreshing, Only, OnToken
<1>4. ASSUME NEW c \in Clients, RevokeSessions(c) PROVE SessionsKept'
  <2>1. forked' = forked
    BY <1>4 DEF RevokeSessions
  <2>2. \A i \in DOMAIN tokens : tokens'[i].session = tokens[i].session /\ ~IsActive(tokens'[i])
    BY <1>0, <1>4, RevokeDoes DEF IsActive
  <2>3. \A d \in Clients : Carries(d)' => Carries(d) /\ request'[d].session = request[d].session
    BY <1>0, <1>4, RevokeDoes DEF Carries, Refreshing, NoRequest
  <2>4. DOMAIN tokens' = DOMAIN tokens
    BY <1>0, <1>4, RevokeDoes
  <2>5. QED
    BY <2>1, <2>2, <2>3, <2>4, SessionsQuiet
<1>5. ASSUME NEW i \in DOMAIN tokens, ExpireToken(i) PROVE SessionsKept'
  <2>1. \A j \in DOMAIN tokens :
          tokens'[j].session = tokens[j].session /\ (IsActive(tokens'[j]) => IsActive(tokens[j]))
    <3> TAKE j \in DOMAIN tokens
    <3>1. tokens[j] \in RefreshToken /\ tokens'[j] \in {tokens[j], [tokens[j] EXCEPT !.expired = TRUE]}
      BY <1>0, <1>5, TokenTyped DEF ExpireToken, AccessTyped
    <3>2. QED
      BY <3>1 DEF RefreshToken, IsActive
  <2>2. DOMAIN tokens' = DOMAIN tokens /\ UNCHANGED <<request, forked>>
    BY <1>5 DEF ExpireToken
  <2>3. QED
    BY <2>1, <2>2, SessionsQuiet DEF Carries, Refreshing, OnToken
<1>6. ASSUME UNCHANGED <<tokens, request, forked>> PROVE SessionsKept'
  BY <1>6, SessionsQuiet DEF Carries, Refreshing, OnToken
<1>7. ASSUME NEW scopes \in NormalizedScopes, CreateKey(scopes) PROVE UNCHANGED <<tokens, request, forked>>
  BY <1>7 DEF CreateKey
<1>8. ExpireKey \/ LapseCode \/ UNCHANGED accessVars => UNCHANGED <<tokens, request, forked>>
  BY DEF ExpireKey, LapseCode, accessVars
<1>9. QED
  BY <1>1, <1>2, <1>3, <1>4, <1>5, <1>6, <1>7, <1>8, SessionsBegin, SessionsTaken, SessionsIssued, SessionsRotated
  DEF AccessNext

-----------------------------------------------------------------------------
(* The API key *)

LEMMA KeyQuiet ==
  ASSUME AccessInv, ~keyContended' => ~keyContended, keyEnded' = keyEnded,
         apiKey'.lives = apiKey.lives, apiKey'.revoked = apiKey.revoked,
         \A d \in Clients : HoldsKey(d)' =>
           HoldsKey(d) /\ request'[d].op = request[d].op /\ request'[d].copy = request[d].copy
  PROVE  KeyKept'
  BY DEF AccessInv, KeyKept

LEMMA KeyBegins ==
  ASSUME AccessInv, NEW c \in Clients, NEW op \in {"updateKey", "revokeKey", "removeKey"}, BeginKey(c, op)
  PROVE  KeyKept'
<1> SUFFICES ASSUME ~keyContended' PROVE KeyKept'
  BY DEF KeyKept
<1>1. /\ Only(c) /\ apiKey.lives /\ request'[c].op = op
      /\ op = "updateKey" => request'[c].copy.lives = apiKey.lives /\ request'[c].copy.revoked = apiKey.revoked
      /\ op = "revokeKey" => request'[c].copy.revoked
      /\ op = "removeKey" => ~request'[c].copy.lives
  BY BeginKeyDoes DEF AccessInv
<1>2. op = "revokeKey" => ~apiKey.revoked
  BY DEF BeginKey
<1>3. ~keyContended /\ \A d \in Clients : ~HoldsKey(d)
  BY DEF BeginKey, AccessInv, AccessTyped
<1>4. \A d \in Clients : HoldsKey(d)' => d = c
  BY <1>1, <1>3 DEF HoldsKey, Only
<1>5. apiKey' = apiKey /\ keyEnded' = keyEnded
  BY DEF BeginKey
<1>6. QED
  BY <1>1, <1>3, <1>4, <1>5 DEF KeyKept, AccessInv

LEMMA KeySaved ==
  ASSUME AccessInv, NEW c \in Clients, SaveKey(c)
  PROVE  KeyKept'
<1> SUFFICES ASSUME ~keyContended' PROVE KeyKept'
  BY DEF KeyKept
<1>1. /\ Only(c) /\ request'[c].stage = "none" /\ HoldsKey(c) /\ ~keyContended
      /\ apiKey' = request[c].copy /\ keyEnded' = (keyEnded \/ request[c].op # "updateKey")
  BY EndDoes DEF SaveKey, AccessInv
<1>2. \A d \in Clients : ~HoldsKey(d)'
  BY <1>1 DEF HoldsKey, Only, AccessInv, KeyKept
<1>3. keyEnded' => ~apiKey'.lives \/ apiKey'.revoked
  BY <1>1 DEF AccessInv, KeyKept
<1>4. QED
  BY <1>2, <1>3 DEF KeyKept

LEMMA KeyStep == AccessInv /\ [AccessNext]_accessVars => KeyKept'
<1> SUFFICES ASSUME AccessInv, [AccessNext]_accessVars PROVE KeyKept'
  OBVIOUS
<1>0. AccessTyped
  BY DEF AccessInv
<1>1. ASSUME NEW c \in Clients, Only(c), request'[c].stage # "key", UNCHANGED <<apiKey, keyEnded, keyContended>>
      PROVE  KeyKept'
  BY <1>1, KeyQuiet DEF HoldsKey, Only
<1>2. ASSUME NEW c \in Clients, NEW op \in AuthOps, BeginAuth(c, op) PROVE KeyKept'
  <2>1. Only(c) /\ request'[c].stage # "key"
    BY <1>0, <1>2, BeginAuthDoes
  <2>2. QED
    BY <1>1, <1>2, <2>1 DEF BeginAuth
<1>3. ASSUME NEW c \in Clients, SaveAuth(c) PROVE KeyKept'
  <2>1. Only(c) /\ request'[c].stage # "key"
    BY <1>0, <1>3, SaveAuthDoes DEF NoRequest
  <2>2. QED
    BY <1>1, <1>3, <2>1 DEF SaveAuth
<1>4. ASSUME NEW c \in Clients, NEW op \in {"refresh", "logout"}, NEW i \in DOMAIN tokens, BeginToken(c, op, i)
      PROVE  KeyKept'
  <2>1. Only(c) /\ request'[c].stage # "key"
    BY <1>0, <1>4, BeginTokenDoes
  <2>2. QED
    BY <1>1, <1>4, <2>1 DEF BeginToken
<1>5. ASSUME NEW c \in Clients, RotateToken(c) PROVE KeyKept'
  <2>1. Only(c) /\ request'[c].stage # "key"
    BY <1>0, <1>5, RotateDoes DEF NoRequest
  <2>2. QED
    BY <1>1, <1>5, <2>1 DEF RotateToken
<1>6. ASSUME NEW c \in Clients, IssueTokens(c) \/ AbandonRequest(c) PROVE KeyKept'
  <2>1. Only(c) /\ request'[c].stage = "none"
    BY <1>0, <1>6, EndDoes DEF IssueTokens, AbandonRequest
  <2>2. UNCHANGED <<apiKey, keyEnded, keyContended>>
    BY <1>6 DEF IssueTokens, AbandonRequest
  <2>3. QED
    BY <1>1, <2>1, <2>2
<1>7. ASSUME NEW c \in Clients, RevokeSessions(c) PROVE KeyKept'
  <2>1. \A d \in Clients : HoldsKey(d)' =>
          HoldsKey(d) /\ request'[d].op = request[d].op /\ request'[d].copy = request[d].copy
    BY <1>0, <1>7, RevokeDoes DEF HoldsKey, NoRequest
  <2>2. UNCHANGED <<apiKey, keyEnded, keyContended>>
    BY <1>7 DEF RevokeSessions
  <2>3. QED
    BY <2>1, <2>2, KeyQuiet
<1>8. ASSUME NEW scopes \in NormalizedScopes, CreateKey(scopes) PROVE KeyKept'
  <2>1. ~keyEnded /\ ~apiKey.lives /\ apiKey'.lives /\ UNCHANGED <<request, keyEnded, keyContended>>
    BY <1>8 DEF CreateKey
  <2>2. QED
    BY <2>1 DEF AccessInv, KeyKept, HoldsKey
<1>9. CASE ExpireKey
  <2>1. apiKey'.lives = apiKey.lives /\ apiKey'.revoked = apiKey.revoked
    BY <1>0, <1>9 DEF ExpireKey, AccessTyped, ApiKey
  <2>2. QED
    BY <1>9, <2>1, KeyQuiet DEF ExpireKey, HoldsKey
<1>10. ASSUME NEW i \in DOMAIN tokens, ExpireToken(i) PROVE KeyKept'
  BY <1>10, KeyQuiet DEF ExpireToken, HoldsKey
<1>11. CASE LapseCode \/ UNCHANGED accessVars
  <2>1. UNCHANGED <<request, apiKey, keyEnded, keyContended>>
    BY <1>11 DEF LapseCode, accessVars
  <2>2. QED
    BY <2>1, KeyQuiet DEF HoldsKey
<1>12. QED
  BY <1>2, <1>3, <1>4, <1>5, <1>6, <1>7, <1>8, <1>9, <1>10, <1>11, KeyBegins, KeySaved DEF AccessNext

-----------------------------------------------------------------------------
(* The theorems *)

LEMMA AccessStep == AccessInv /\ [AccessNext]_accessVars => AccessInv'
  BY AccessTypedStep, RowStep, PasswordStep, SessionsStep, KeyStep DEF AccessInv

LEMMA AccessInvariant == AccessSpec => []AccessInv
  BY AccessStarts, AccessStep, PTL DEF AccessSpec

LEMMA AccessTypes == AccessInv => AccessTypeOK
<1> SUFFICES ASSUME AccessInv PROVE AccessTypeOK
  OBVIOUS
<1>1. auth \in Authentication
  BY DEF AccessInv, AccessTyped, IsRow, IsCopy, Columns, Authentication
<1> QED BY <1>1 DEF AccessInv, AccessTyped, AccessTypeOK

\* The row of authentications, the key and the refresh tokens have their types,
\* whatever is saved over them.
THEOREM AccessTypeCorrect == AccessSpec => []AccessTypeOK
BY AccessTypes, AccessInvariant, PTL

\* For any clients, and any number of tokens, passwords and requests: a change of
\* password leaves only the sessions of the new one, a session has one token that
\* can be used, and a key that was ended is never admitted again.
THEOREM RevocationIsFinal == AccessSpec => []RevocationHolds
<1>1. ASSUME AccessInv PROVE RevocationHolds
  <2>1. ASSUME keyEnded, ~keyContended PROVE ~KeyVerified
    BY <1>1, <2>1 DEF AccessInv, KeyKept, KeyVerified
  <2>2. QED
    BY <1>1, <2>1 DEF AccessInv, PasswordKept, SessionsKept, RevocationHolds, KeyAdmitted
<1>2. QED
  BY <1>1, AccessInvariant, PTL

\* For any clients and any sequence of changes of method, resets and logins: a user
\* whose method in force is TOTP has its secret.
THEOREM SecondFactorStaysUsable == AccessSpec => []SecondFactorUsable
<1>1. AccessInv => SecondFactorUsable
  BY DEF AccessInv, RowKept, Coherent, SecondFactorUsable
<1>2. QED
  BY <1>1, AccessInvariant, PTL

-----------------------------------------------------------------------------
(* The daily series: who builds, who waits, who holds the rows. *)

OperationsRead == [id : Operations, at : 1 .. MaxWrites]

WriteInFlight == [kind : {"create", "update", "remove"}, id : Operations, at : 1 .. MaxWrites]

BuildRow == [stage : BuildStages, of : SUBSET OperationsRead, base : Bases \cup {Nothing},
             closes : 0 .. MaxCloses, at : 0 .. MaxWrites, deleted : BOOLEAN]

SnapshotTyped ==
  /\ operations \subseteq OperationsRead
  /\ writing = Nothing \/ writing \in WriteInFlight
  /\ base \in Bases /\ closes \in 0 .. MaxCloses /\ instant \in 0 .. MaxWrites
  /\ series \in SnapshotRows \cup {Nothing}
  /\ build \in [Builders -> BuildRow]
  /\ DOMAIN reader = Readers

\* A build knows its currency from its grids on, and holds rows only between
\* its delete and its inserts.
Stepwise(b) ==
  /\ build[b].stage \in {"begin", "delete", "blocked", "insert"} => build[b].base \in Bases
  /\ build[b].deleted => build[b].stage = "insert" /\ series # Nothing

\* One builder holds the rows, and whoever waits for them waits for it.
Exclusive ==
  /\ \A b, c \in Builders : build[b].deleted /\ build[c].deleted => b = c
  /\ \A b \in Builders : build[b].stage = "blocked" => \E c \in Builders \ {b} : build[c].deleted

\* Queries wait for the build they share.
Shared ==
  /\ active <=> build["shared"].stage # "idle"
  /\ \A r \in Readers : reader[r].stage = "joined" => active

SnapshotInv ==
  /\ SnapshotTyped
  /\ \A b \in Builders : Stepwise(b)
  /\ Exclusive /\ Shared

LEMMA NoBuildTyped ==
  /\ NoBuild \in BuildRow /\ NoBuild.stage = "idle" /\ ~NoBuild.deleted
  /\ [NoBuild EXCEPT !.stage = "events"] \in BuildRow
  /\ [NoBuild EXCEPT !.stage = "events"].stage = "events"
  /\ ~[NoBuild EXCEPT !.stage = "events"].deleted
  /\ [NoBuild EXCEPT !.stage = "empty"] \in BuildRow
  /\ [NoBuild EXCEPT !.stage = "empty"].stage = "empty"
  /\ ~[NoBuild EXCEPT !.stage = "empty"].deleted
<1>1. 0 \in 0 .. MaxCloses /\ 0 \in 0 .. MaxWrites
  BY SnapshotAssumption
<1>2. NoBuild \in BuildRow /\ NoBuild.stage = "idle" /\ NoBuild.deleted = FALSE
  BY <1>1 DEF NoBuild, BuildRow, BuildStages
<1>3. ASSUME NEW named \in BuildStages
      PROVE  LET row == [NoBuild EXCEPT !.stage = named] IN
             row \in BuildRow /\ row.stage = named /\ row.deleted = FALSE
  BY <1>2 DEF BuildRow
<1>4. "events" \in BuildStages /\ "empty" \in BuildStages
  BY DEF BuildStages
<1>5. LET row == [NoBuild EXCEPT !.stage = "events"] IN
      row \in BuildRow /\ row.stage = "events" /\ row.deleted = FALSE
  BY <1>3, <1>4
<1>6. LET row == [NoBuild EXCEPT !.stage = "empty"] IN
      row \in BuildRow /\ row.stage = "empty" /\ row.deleted = FALSE
  BY <1>3, <1>4
<1> QED BY <1>2, <1>5, <1>6

LEMMA SnapshotInitial ==
  ASSUME SnapshotInit
  PROVE  SnapshotInv
<1>1. "shared" \in Builders
  BY DEF Builders
<1>2. \A b \in Builders : build[b] = NoBuild
  BY DEF SnapshotInit
<1>3. build \in [Builders -> BuildRow]
  BY NoBuildTyped DEF SnapshotInit
<1>4. SnapshotTyped
  <2>1. closes \in 0 .. MaxCloses /\ instant \in 0 .. MaxWrites
    BY SnapshotAssumption DEF SnapshotInit
  <2>2. DOMAIN reader = Readers
    BY DEF SnapshotInit
  <2> QED BY <1>3, <2>1, <2>2 DEF SnapshotInit, SnapshotTyped
<1>5. \A b \in Builders : build[b].stage = "idle" /\ ~build[b].deleted
  BY <1>2, NoBuildTyped
<1>6. Shared
  BY <1>1, <1>5 DEF SnapshotInit, Shared
<1> QED BY <1>4, <1>5, <1>6 DEF SnapshotInv, Stepwise, Exclusive

\* What does not touch the builds, the series nor the queries.
LEMMA BookStepKeeps ==
  ASSUME SnapshotInv, UNCHANGED <<series, build, active, reader>>,
         operations' \subseteq OperationsRead,
         writing' = Nothing \/ writing' \in WriteInFlight,
         base' \in Bases, closes' \in 0 .. MaxCloses, instant' \in 0 .. MaxWrites
  PROVE  SnapshotInv'
BY DEF SnapshotInv, SnapshotTyped, Stepwise, Exclusive, Shared

LEMMA BookKeepsSnapshots ==
  ASSUME SnapshotInv, BeginWrite \/ BeginRemoval \/ CommitWrite \/ ChangeBase \/ RefreshCloses
  PROVE  SnapshotInv'
<1>1. SnapshotTyped
  BY DEF SnapshotInv
<1>2. CASE BeginWrite
  <2>1. PICK id \in Operations, kind \in {"update", "create"} :
          writing' = [kind |-> kind, id |-> id, at |-> instant + 1]
    BY <1>2 DEF BeginWrite, Written
  <2>2. instant + 1 \in 1 .. MaxWrites /\ instant' \in 0 .. MaxWrites
    BY <1>1, <1>2, SnapshotAssumption DEF BeginWrite, SnapshotTyped
  <2>3. writing' \in WriteInFlight
    BY <2>1, <2>2 DEF WriteInFlight
  <2> QED BY <1>1, <1>2, <2>2, <2>3, BookStepKeeps DEF BeginWrite, SnapshotTyped
<1>3. CASE BeginRemoval
  <2>1. PICK o \in operations : writing' = [kind |-> "remove", id |-> o.id, at |-> instant + 1]
    BY <1>3 DEF BeginRemoval, Written
  <2>2. instant + 1 \in 1 .. MaxWrites /\ instant' \in 0 .. MaxWrites
    BY <1>1, <1>3, SnapshotAssumption DEF BeginRemoval, SnapshotTyped
  <2>3. o.id \in Operations
    BY <1>1 DEF SnapshotTyped, OperationsRead
  <2>4. writing' \in WriteInFlight
    BY <2>1, <2>2, <2>3 DEF WriteInFlight
  <2> QED BY <1>1, <1>3, <2>2, <2>4, BookStepKeeps DEF BeginRemoval, SnapshotTyped
<1>4. CASE CommitWrite
  <2>1. writing \in WriteInFlight
    BY <1>1, <1>4 DEF CommitWrite, SnapshotTyped
  <2>2. [id |-> writing.id, at |-> writing.at] \in OperationsRead
    BY <2>1 DEF OperationsRead, WriteInFlight
  <2>3. operations' \subseteq OperationsRead
    BY <1>1, <1>4, <2>2 DEF CommitWrite, Others, SnapshotTyped
  <2> QED BY <1>1, <1>4, <2>3, BookStepKeeps DEF CommitWrite, SnapshotTyped
<1>5. CASE ChangeBase
  BY <1>1, <1>5, BookStepKeeps DEF ChangeBase, SnapshotTyped
<1>6. CASE RefreshCloses
  <2>1. closes' \in 0 .. MaxCloses
    BY <1>1, <1>6, SnapshotAssumption DEF RefreshCloses, SnapshotTyped
  <2> QED BY <1>1, <1>6, <2>1, BookStepKeeps DEF RefreshCloses, SnapshotTyped
<1> QED BY <1>2, <1>3, <1>4, <1>5, <1>6

\* A builder that holds nothing, before and after, moves on; if it is that of
\* the queries it neither starts nor ends.
LEMMA BuildMovesOn ==
  ASSUME SnapshotInv, NEW b \in Builders, NEW row \in BuildRow,
         build' = [build EXCEPT ![b] = row],
         ~build[b].deleted, ~row.deleted, row.stage # "blocked",
         row.stage \in {"begin", "delete", "insert"} => row.base \in Bases,
         b = "shared" => (row.stage # "idle" <=> build[b].stage # "idle"),
         UNCHANGED <<operations, writing, base, closes, series, active, reader, instant>>
  PROVE  SnapshotInv'
<1>1. SnapshotTyped /\ Exclusive /\ Shared
  BY DEF SnapshotInv
<1>2. build \in [Builders -> BuildRow]
  BY <1>1 DEF SnapshotTyped
<1>3. build' \in [Builders -> BuildRow] /\ build'[b] = row /\ \A c \in Builders \ {b} : build'[c] = build[c]
  BY <1>2
<1>4. SnapshotTyped'
  BY <1>1, <1>3 DEF SnapshotTyped
<1>5. \A c \in Builders : Stepwise(c)'
  <2>1. Stepwise(b)'
    BY <1>3 DEF Stepwise
  <2>2. \A c \in Builders \ {b} : Stepwise(c)'
    BY <1>3 DEF SnapshotInv, Stepwise
  <2> QED BY <2>1, <2>2
<1>6. Exclusive'
  <2>1. \A c \in Builders : build'[c].deleted <=> build[c].deleted
    BY <1>3
  <2>2. \A c \in Builders : build'[c].stage = "blocked" => build[c].stage = "blocked"
    BY <1>3
  <2> QED BY <1>1, <2>1, <2>2 DEF Exclusive
<1>7. Shared'
  <2>1. "shared" \in Builders
    BY DEF Builders
  <2>2. build'["shared"].stage # "idle" <=> build["shared"].stage # "idle"
    BY <1>3, <2>1
  <2> QED BY <1>1, <2>2 DEF Shared
<1> QED BY <1>1, <1>4, <1>5, <1>6, <1>7 DEF SnapshotInv

\* A builder that holds nothing ends.
LEMMA BuildEnds ==
  ASSUME SnapshotInv, NEW b \in Builders, NEW ok \in BOOLEAN,
         ~build[b].deleted, build' = [build EXCEPT ![b] = NoBuild],
         BuildEnded(b, ok), series' = series \/ (series' = Nothing /\ \A c \in Builders : ~build[c].deleted),
         UNCHANGED <<operations, writing, base, closes, instant>>
  PROVE  SnapshotInv'
<1>1. SnapshotTyped /\ Exclusive /\ Shared
  BY DEF SnapshotInv
<1>2. build' \in [Builders -> BuildRow] /\ build'[b] = NoBuild /\ \A c \in Builders \ {b} : build'[c] = build[c]
  BY <1>1, NoBuildTyped DEF SnapshotTyped
<1>3. build'[b].stage = "idle" /\ ~build'[b].deleted
  BY <1>1, <1>2, NoBuildTyped
<1>4. DOMAIN reader' = Readers
  BY <1>1 DEF SnapshotTyped, BuildEnded
<1>5. SnapshotTyped'
  BY <1>1, <1>2, <1>4 DEF SnapshotTyped
<1>6. \A c \in Builders : Stepwise(c)'
  BY <1>2, <1>3 DEF SnapshotInv, Stepwise
<1>7. Exclusive'
  <2>1. \A c \in Builders : build'[c].deleted <=> build[c].deleted
    BY <1>2, <1>3
  <2>2. \A c \in Builders : build'[c].stage = "blocked" => build[c].stage = "blocked"
    BY <1>2, <1>3
  <2> QED BY <1>1, <2>1, <2>2 DEF Exclusive
<1>8. Shared'
  <2>1. "shared" \in Builders
    BY DEF Builders
  <2>2. CASE b = "shared"
    BY <1>3, <2>2 DEF Shared, BuildEnded
  <2>3. CASE b # "shared"
    BY <1>1, <1>2, <2>1, <2>3 DEF Shared, BuildEnded
  <2> QED BY <2>2, <2>3
<1> QED BY <1>1, <1>5, <1>6, <1>7, <1>8 DEF SnapshotInv

\* A builder commits or rolls back: those who waited for it go on.
LEMMA BuildLetsGo ==
  ASSUME SnapshotInv, NEW b \in Builders, NEW ok \in BOOLEAN,
         build' = Unblocked(b, ok), BuildEnded(b, ok),
         series' = series \/ (series' \in SnapshotRows /\ ~Holder(b)),
         UNCHANGED <<operations, writing, base, closes, instant>>
  PROVE  SnapshotInv'
<1>1. SnapshotTyped /\ Exclusive /\ Shared
  BY DEF SnapshotInv
<1>2. build'[b] = NoBuild /\ DOMAIN build' = Builders
  BY DEF Unblocked
<1>3. ASSUME NEW c \in Builders \ {b}
      PROVE  build'[c] = build[c]
             \/ \E named \in {"insert", "delete"} :
                  /\ build[c].stage = "blocked" /\ build[b].deleted
                  /\ build'[c] = [build[c] EXCEPT !.stage = named]
  BY DEF Unblocked
<1>4. ASSUME NEW c \in Builders \ {b}
      PROVE  /\ build'[c] \in BuildRow
             /\ build'[c].deleted = build[c].deleted
             /\ build'[c].base = build[c].base
             /\ build'[c].stage = build[c].stage
                \/ (build'[c].stage \in {"insert", "delete"} /\ build[c].stage = "blocked")
  <2>1. build[c] \in BuildRow
    BY <1>1 DEF SnapshotTyped
  <2>2. CASE build'[c] = build[c]
    BY <2>1, <2>2
  <2>3. CASE \E named \in {"insert", "delete"} :
                  /\ build[c].stage = "blocked" /\ build[b].deleted
                  /\ build'[c] = [build[c] EXCEPT !.stage = named]
    BY <2>1, <2>3 DEF BuildRow, BuildStages
  <2> QED BY <1>3, <2>2, <2>3
<1>5. build'[b].stage = "idle" /\ ~build'[b].deleted /\ build'[b] \in BuildRow
  BY <1>1, <1>2, NoBuildTyped
<1>6. build' \in [Builders -> BuildRow]
  <2>1. build' = [c \in Builders |-> build'[c]]
    BY DEF Unblocked
  <2> QED BY <1>4, <1>5, <2>1
<1>7. DOMAIN reader' = Readers
  BY <1>1 DEF SnapshotTyped, BuildEnded
<1>8. SnapshotTyped'
  BY <1>1, <1>6, <1>7 DEF SnapshotTyped
<1>9. \A c \in Builders : Stepwise(c)'
  <2>1. ASSUME NEW c \in Builders \ {b} PROVE Stepwise(c)'
    <3>1. Stepwise(c)
      BY DEF SnapshotInv
    <3>2. build'[c].deleted => series' = series
      BY <1>4 DEF Holder
    <3>3. build'[c].deleted => build'[c].stage = "insert"
      BY <1>4, <3>1 DEF Stepwise
    <3>4. build'[c].deleted => series' # Nothing
      BY <1>4, <3>1, <3>2 DEF Stepwise
    <3>5. build'[c].stage \in {"begin", "delete", "blocked", "insert"} => build'[c].base \in Bases
      BY <1>4, <3>1 DEF Stepwise
    <3> QED BY <3>3, <3>4, <3>5 DEF Stepwise
  <2>2. Stepwise(b)'
    BY <1>5 DEF Stepwise
  <2> QED BY <2>1, <2>2
<1>10. Exclusive'
  <2>1. \A c, d \in Builders : build'[c].deleted /\ build'[d].deleted => c = d
    BY <1>1, <1>4, <1>5 DEF Exclusive
  <2>2. ASSUME NEW c \in Builders, build'[c].stage = "blocked"
        PROVE  \E d \in Builders \ {c} : build'[d].deleted
    <3>1. c # b
      BY <1>5, <2>2
    <3>2. build[c].stage = "blocked" /\ ~build[b].deleted
      <4>1. build'[c] = build[c]
        BY <1>3, <2>2, <3>1, <1>1 DEF SnapshotTyped, BuildRow
      <4>2. build[c].stage = "blocked"
        BY <2>2, <4>1
      <4>3. build[b].deleted => build'[c].stage \in {"insert", "delete"}
        <5>1. build[c] \in BuildRow
          BY <1>1 DEF SnapshotTyped
        <5>2. SUFFICES ASSUME build[b].deleted PROVE build'[c].stage \in {"insert", "delete"}
          OBVIOUS
        <5>3. build'[c] = [build[c] EXCEPT !.stage = IF ok THEN "insert" ELSE "delete"]
          BY <3>1, <4>2, <5>2 DEF Unblocked
        <5> QED BY <5>1, <5>3 DEF BuildRow
      <4> QED BY <2>2, <4>2, <4>3
    <3>3. PICK d \in Builders \ {c} : build[d].deleted
      BY <1>1, <3>2 DEF Exclusive
    <3> QED BY <1>4, <3>2, <3>3
  <2> QED BY <2>1, <2>2 DEF Exclusive
<1>11. Shared'
  <2>1. "shared" \in Builders
    BY DEF Builders
  <2>2. CASE b = "shared"
    BY <1>5, <2>2 DEF Shared, BuildEnded
  <2>3. CASE b # "shared"
    <3>1. build'["shared"].stage # "idle" <=> build["shared"].stage # "idle"
      BY <1>4, <2>1, <2>3
    <3> QED BY <1>1, <2>3, <3>1 DEF Shared, BuildEnded
  <2> QED BY <2>2, <2>3
<1> QED BY <1>1, <1>8, <1>9, <1>10, <1>11 DEF SnapshotInv

\* The reads of a build, and its DELETE.
LEMMA BuildReadsKeep ==
  ASSUME SnapshotInv, NEW b \in Builders,
         StartBuild(b) \/ RebuildSnapshots(b) \/ LoadBook(b) \/ DeleteAll(b) \/ ReadGrids(b)
  PROVE  SnapshotInv'
<1>1. SnapshotTyped /\ Stepwise(b)
  BY DEF SnapshotInv
<1>2. build[b] \in BuildRow
  BY <1>1 DEF SnapshotTyped
<1>3. CASE StartBuild(b) \/ RebuildSnapshots(b)
  <2>1. b # "shared"
    BY <1>1, <1>3, SnapshotAssumption DEF StartBuild, RebuildSnapshots
  <2>2. ~build[b].deleted
    BY <1>1, <1>3 DEF StartBuild, RebuildSnapshots, Stepwise
  <2> DEFINE row == [NoBuild EXCEPT !.stage = "events"]
  <2>3. row \in BuildRow /\ row.stage = "events" /\ ~row.deleted
    BY <1>1, NoBuildTyped
  <2>4. build' = [build EXCEPT ![b] = row]
    BY <1>3 DEF StartBuild, RebuildSnapshots, Start
  <2> HIDE DEF row
  <2> QED BY <1>3, <2>1, <2>2, <2>3, <2>4, BuildMovesOn DEF StartBuild, RebuildSnapshots
<1>4. CASE LoadBook(b)
  <2>1. build[b].stage = "events" /\ ~build[b].deleted
    BY <1>1, <1>4 DEF LoadBook, Stepwise
  <2>2. CASE \E o \in operations : o.id \notin Ahead
    <3> DEFINE row == [build[b] EXCEPT !.stage = "grids", !.of = operations]
    <3>1. build' = [build EXCEPT ![b] = row]
      BY <1>1, <1>4, <2>2 DEF LoadBook, SnapshotTyped
    <3>2. row \in BuildRow /\ row.stage = "grids" /\ ~row.deleted
      BY <1>1, <1>2, <2>1 DEF SnapshotTyped, BuildRow, BuildStages
    <3>3. UNCHANGED <<operations, writing, base, closes, series, active, reader, instant>>
      BY <1>4, <2>2 DEF LoadBook
    <3> HIDE DEF row
    <3> QED BY <2>1, <3>1, <3>2, <3>3, BuildMovesOn
  <2>3. CASE ~(\E o \in operations : o.id \notin Ahead) /\ operations = {}
    <3> DEFINE row == [NoBuild EXCEPT !.stage = "empty"]
    <3>1. build' = [build EXCEPT ![b] = row]
      BY <1>4, <2>3 DEF LoadBook
    <3>2. row \in BuildRow /\ row.stage = "empty" /\ ~row.deleted
      BY <1>1, NoBuildTyped
    <3>3. UNCHANGED <<operations, writing, base, closes, series, active, reader, instant>>
      BY <1>4, <2>3 DEF LoadBook
    <3> HIDE DEF row
    <3> QED BY <2>1, <3>1, <3>2, <3>3, BuildMovesOn
  <2>4. CASE ~(\E o \in operations : o.id \notin Ahead) /\ operations # {}
    <3>1. build' = [build EXCEPT ![b] = NoBuild]
      BY <1>4, <2>4 DEF LoadBook, NoBuild
    <3>2. BuildEnded(b, TRUE) /\ series' = series /\ UNCHANGED <<operations, writing, base, closes, instant>>
      BY <1>4, <2>4 DEF LoadBook
    <3> QED BY <2>1, <3>1, <3>2, BuildEnds
  <2> QED BY <2>2, <2>3, <2>4
<1>5. CASE DeleteAll(b)
  <2>1. ~build[b].deleted
    BY <1>1, <1>5 DEF DeleteAll, Stepwise
  <2>2. \A c \in Builders : ~build[c].deleted
    BY <1>5, <2>1 DEF DeleteAll, Holder
  <2> QED BY <1>5, <2>1, <2>2, BuildEnds DEF DeleteAll
<1>6. CASE ReadGrids(b)
  <2>1. build[b].stage = "grids" /\ ~build[b].deleted
    BY <1>1, <1>6 DEF ReadGrids, Stepwise
  <2> DEFINE row == [build[b] EXCEPT !.stage = "begin", !.base = base, !.closes = closes]
  <2>2. build' = [build EXCEPT ![b] = row]
    BY <1>1, <1>6 DEF ReadGrids, SnapshotTyped
  <2>3. row \in BuildRow /\ row.stage = "begin" /\ ~row.deleted /\ row.base \in Bases
    BY <1>1, <1>2, <2>1 DEF SnapshotTyped, BuildRow, BuildStages
  <2> HIDE DEF row
  <2> QED BY <1>6, <2>1, <2>2, <2>3, BuildMovesOn DEF ReadGrids
<1> QED BY <1>3, <1>4, <1>5, <1>6

LEMMA DeleteKeeps ==
  ASSUME SnapshotInv, NEW b \in Builders, Delete(b)
  PROVE  SnapshotInv'
<1>1. SnapshotTyped /\ Stepwise(b) /\ Exclusive /\ Shared
  BY DEF SnapshotInv
<1>2. /\ build[b] \in BuildRow /\ build[b].stage \in {"begin", "delete"}
      /\ ~build[b].deleted /\ build[b].base \in Bases
  BY <1>1 DEF Delete, SnapshotTyped, Stepwise
<1>3. UNCHANGED <<operations, writing, base, closes, series, active, reader, instant>>
  BY DEF Delete
<1> DEFINE row == [build[b] EXCEPT !.at = IF build[b].stage = "begin" THEN instant ELSE @,
                                   !.stage = IF series # Nothing /\ Holder(b) THEN "blocked" ELSE "insert",
                                   !.deleted = series # Nothing /\ ~Holder(b)]
<1>4. build' = [build EXCEPT ![b] = row]
  BY <1>1, <1>2 DEF Delete, SnapshotTyped
<1>5. /\ row \in BuildRow /\ row.base \in Bases /\ row.stage \in {"blocked", "insert"}
      /\ row.stage = "blocked" => Holder(b)
      /\ row.deleted => row.stage = "insert" /\ series # Nothing /\ ~Holder(b)
  BY <1>1, <1>2 DEF SnapshotTyped, BuildRow, BuildStages
<1> HIDE DEF row
<1>6. build' \in [Builders -> BuildRow] /\ build'[b] = row /\ \A c \in Builders \ {b} : build'[c] = build[c]
  BY <1>1, <1>4, <1>5 DEF SnapshotTyped
<1>7. SnapshotTyped'
  BY <1>1, <1>3, <1>6 DEF SnapshotTyped
<1>8. \A c \in Builders : Stepwise(c)'
  BY <1>3, <1>5, <1>6 DEF SnapshotInv, Stepwise
<1>9. Exclusive'
  <2>1. ASSUME NEW c \in Builders, NEW d \in Builders, build'[c].deleted, build'[d].deleted
        PROVE  c = d
    <3>1. ASSUME row.deleted, NEW e \in Builders \ {b} PROVE ~build'[e].deleted
      BY <1>5, <1>6, <3>1 DEF Holder
    <3>2. CASE c = b /\ d # b
      BY <1>6, <2>1, <3>1, <3>2
    <3>3. CASE d = b /\ c # b
      BY <1>6, <2>1, <3>1, <3>3
    <3>4. CASE c # b /\ d # b
      BY <1>1, <1>6, <2>1, <3>4 DEF Exclusive
    <3> QED BY <3>2, <3>3, <3>4
  <2>2. ASSUME NEW c \in Builders, build'[c].stage = "blocked"
        PROVE  \E d \in Builders \ {c} : build'[d].deleted
    <3>1. CASE c = b
      BY <1>5, <1>6, <2>2, <3>1 DEF Holder
    <3>2. CASE c # b
      <4>1. PICK d \in Builders \ {c} : build[d].deleted
        BY <1>1, <1>6, <2>2, <3>2 DEF Exclusive
      <4> QED BY <1>2, <1>6, <4>1
    <3> QED BY <3>1, <3>2
  <2> QED BY <2>1, <2>2 DEF Exclusive
<1>10. Shared'
  <2>1. "shared" \in Builders
    BY DEF Builders
  <2>2. build'["shared"].stage # "idle" <=> build["shared"].stage # "idle"
    BY <1>2, <1>5, <1>6, <2>1
  <2> QED BY <1>1, <1>3, <2>2 DEF Shared
<1> QED BY <1>1, <1>7, <1>8, <1>9, <1>10 DEF SnapshotInv

LEMMA BuildEndsKeep ==
  ASSUME SnapshotInv, NEW b \in Builders, Insert(b) \/ FailBuild(b)
  PROVE  SnapshotInv'
<1>1. CASE Insert(b)
  <2>1. build[b] \in BuildRow /\ build[b].base \in Bases
    BY <1>1 DEF SnapshotInv, SnapshotTyped, Stepwise, Insert
  <2>2. Rows(b) \in SnapshotRows
    BY <2>1 DEF Rows, SnapshotRows, BuildRow, OperationsRead
  <2> DEFINE refused == series # Nothing /\ ~build[b].deleted
  <2>3. /\ series' = (IF refused THEN series ELSE Rows(b)) /\ ~Holder(b)
        /\ build' = Unblocked(b, ~refused) /\ BuildEnded(b, ~refused)
        /\ UNCHANGED <<operations, writing, base, closes, instant>>
    BY <1>1 DEF Insert
  <2>4. (~refused) \in BOOLEAN
    OBVIOUS
  <2> HIDE DEF refused
  <2> QED BY <2>2, <2>3, <2>4, BuildLetsGo
<1>2. CASE FailBuild(b)
  BY <1>2, BuildLetsGo DEF FailBuild
<1> QED BY <1>1, <1>2

\* A query asks, joins or starts the build of the queries, reads, answers.
LEMMA QueriesKeep ==
  ASSUME SnapshotInv, NEW r \in Readers, EnsureCurrent(r) \/ Join(r) \/ Read(r) \/ Answer(r)
  PROVE  SnapshotInv'
<1>1. SnapshotTyped /\ Exclusive /\ Shared
  BY DEF SnapshotInv
<1>2. CASE EnsureCurrent(r) \/ Read(r) \/ Answer(r)
  <2>1. UNCHANGED <<operations, writing, base, closes, series, build, active, instant>>
    BY <1>2 DEF EnsureCurrent, Read, Answer
  <2>2. /\ DOMAIN reader' = Readers /\ reader'[r].stage # "joined"
        /\ \A q \in Readers \ {r} : reader'[q] = reader[q]
    BY <1>1, <1>2 DEF EnsureCurrent, Read, Answer, SnapshotTyped
  <2>3. SnapshotTyped'
    BY <1>1, <2>1, <2>2 DEF SnapshotTyped
  <2>4. Shared'
    BY <1>1, <2>1, <2>2 DEF Shared
  <2> QED BY <1>1, <2>1, <2>3, <2>4 DEF SnapshotInv, Stepwise, Exclusive
<1>3. CASE Join(r)
  <2>1. /\ UNCHANGED <<operations, writing, base, closes, series, instant>> /\ active' = TRUE
        /\ build' = IF active THEN build ELSE Start("shared")
        /\ DOMAIN reader' = Readers
    BY <1>1, <1>3 DEF Join, SnapshotTyped
  <2>2. CASE active
    <3>1. build' = build /\ active'
      BY <2>1, <2>2
    <3>2. build["shared"].stage # "idle"
      BY <1>1, <2>2 DEF Shared
    <3> QED BY <1>1, <2>1, <3>1, <3>2
         DEF SnapshotInv, SnapshotTyped, Stepwise, Exclusive, Shared
  <2>3. CASE ~active
    <3> DEFINE row == [NoBuild EXCEPT !.stage = "events"]
    <3>1. row \in BuildRow /\ row.stage = "events" /\ ~row.deleted
      BY <1>1, NoBuildTyped
    <3>2. "shared" \in Builders
      BY DEF Builders
    <3>3. build["shared"].stage = "idle" /\ ~build["shared"].deleted
      BY <1>1, <2>3, <3>2 DEF Shared, SnapshotInv, Stepwise
    <3>4. build' = [build EXCEPT !["shared"] = row]
      BY <2>1, <2>3 DEF Start
    <3> HIDE DEF row
    <3>5. /\ build' \in [Builders -> BuildRow] /\ build'["shared"] = row
          /\ \A c \in Builders \ {"shared"} : build'[c] = build[c]
      BY <1>1, <3>1, <3>2, <3>4 DEF SnapshotTyped
    <3>6. SnapshotTyped'
      BY <1>1, <2>1, <3>5 DEF SnapshotTyped
    <3>7. \A c \in Builders : Stepwise(c)'
      BY <2>1, <3>1, <3>5 DEF SnapshotInv, Stepwise
    <3>8. Exclusive'
      <4>1. \A c \in Builders : build'[c].deleted <=> build[c].deleted
        BY <3>1, <3>3, <3>5
      <4>2. \A c \in Builders : build'[c].stage = "blocked" => build[c].stage = "blocked"
        BY <3>1, <3>5
      <4> QED BY <1>1, <4>1, <4>2 DEF Exclusive
    <3>9. Shared'
      BY <2>1, <3>1, <3>5 DEF Shared
    <3> QED BY <1>1, <3>6, <3>7, <3>8, <3>9 DEF SnapshotInv
  <2> QED BY <2>2, <2>3
<1> QED BY <1>2, <1>3

LEMMA SnapshotStep ==
  ASSUME SnapshotInv, [SnapshotNext]_snapshotVars
  PROVE  SnapshotInv'
<1>1. CASE SnapshotNext
  BY <1>1, BookKeepsSnapshots, BuildReadsKeep, DeleteKeeps, BuildEndsKeep, QueriesKeep DEF SnapshotNext
<1>2. CASE UNCHANGED snapshotVars
  BY <1>2 DEF snapshotVars, SnapshotInv, SnapshotTyped, Stepwise, Exclusive, Shared
<1> QED BY <1>1, <1>2

LEMMA SnapshotTypes == SnapshotInv => SnapshotTypeOK
<1> SUFFICES ASSUME SnapshotInv PROVE SnapshotTypeOK
  OBVIOUS
<1> DEFINE holders == {b \in Builders : build[b].deleted}
<1>1. Cardinality(holders) <= 1
  <2>1. CASE holders = {}
    BY <2>1, FS_EmptySet
  <2>2. CASE holders # {}
    <3>1. PICK b \in holders : TRUE
      BY <2>2
    <3>2. holders = {b}
      BY <3>1 DEF SnapshotInv, Exclusive
    <3>3. Cardinality({b}) = 1
      BY FS_Singleton
    <3> HIDE DEF holders
    <3> QED BY <3>2, <3>3
  <2> QED BY <2>1, <2>2
<1>2. series \in SnapshotRows \cup {Nothing} /\ \A b \in Builders : build[b].stage \in BuildStages
  BY DEF SnapshotInv, SnapshotTyped, BuildRow
<1>3. \A b \in Builders : build[b].deleted => series # Nothing
  BY DEF SnapshotInv, Stepwise
<1>4. \A b \in Builders : build[b].stage = "blocked" => Holder(b)
  BY DEF SnapshotInv, Exclusive, Holder
<1> QED BY <1>1, <1>2, <1>3, <1>4 DEF SnapshotTypeOK, SnapshotInv, Shared

(* For any queries, jobs and operations: one build at most holds the rows of   *)
(* the series, a build waits only while another one holds them, and a query     *)
(* only for a build that runs, whatever fails (buildForUser, ensureCurrent).    *)
THEOREM BuildsExclude == SnapshotSpec => []SnapshotTypeOK
<1>1. SnapshotInit => SnapshotInv
  BY SnapshotInitial
<1> QED BY <1>1, SnapshotTypes, SnapshotStep, PTL DEF SnapshotSpec

-----------------------------------------------------------------------------
(* The services together. *)

(* A step of the services is a step of one, and the others stay.               *)
LEMMA ServicesMoves ==
  [ServicesNext]_<<exercised, vars, recurringVars, snapshotVars, doorAndSession>> =>
    /\ [Next]_vars /\ [RecurringNext]_recurringVars /\ [SessionNext]_sessionVars
    /\ [AccessNext]_accessVars /\ [SnapshotNext]_snapshotVars
<1> SUFFICES ASSUME [ServicesNext]_<<exercised, vars, recurringVars, snapshotVars, doorAndSession>>
             PROVE  /\ [Next]_vars /\ [RecurringNext]_recurringVars /\ [SessionNext]_sessionVars
                    /\ [AccessNext]_accessVars /\ [SnapshotNext]_snapshotVars
  OBVIOUS
<1>1. CASE /\ Next \/ UNCHANGED vars
           /\ UNCHANGED <<recurringVars, snapshotVars, doorAndSession>>
  BY <1>1, Zenon DEF doorAndSession
<1>2. CASE RecurringNext /\ UNCHANGED <<vars, snapshotVars, doorAndSession>>
  BY <1>2, Zenon DEF doorAndSession
<1>3. CASE SnapshotNext /\ UNCHANGED <<vars, recurringVars, doorAndSession>>
  BY <1>3, Zenon DEF doorAndSession
<1>4. CASE SessionNext /\ UNCHANGED <<vars, recurringVars, snapshotVars, accessVars>>
  BY <1>4, Zenon
<1>5. CASE AccessNext /\ UNCHANGED <<vars, recurringVars, snapshotVars, sessionVars>>
  BY <1>5, Zenon
<1>6. CASE ServicesNext
  <2>1. \/ Next /\ UNCHANGED <<recurringVars, snapshotVars, doorAndSession>>
        \/ RecurringNext /\ UNCHANGED <<vars, snapshotVars, doorAndSession>>
        \/ SnapshotNext /\ UNCHANGED <<vars, recurringVars, doorAndSession>>
        \/ AccessNext /\ UNCHANGED <<vars, recurringVars, snapshotVars, sessionVars>>
        \/ SessionNext /\ UNCHANGED <<vars, recurringVars, snapshotVars, accessVars>>
    BY <1>6 DEF ServicesNext
  <2> QED BY <1>1, <1>2, <1>3, <1>4, <1>5, <2>1, Zenon
<1>7. CASE UNCHANGED <<exercised, vars, recurringVars, snapshotVars, doorAndSession>>
  BY <1>7, Zenon DEF doorAndSession
<1> QED BY <1>6, <1>7, Zenon

(* Every behaviour of the services together is one of each of them, so what    *)
(* the theorems say of a service holds beside the others too.                   *)
THEOREM ServicesAreIndependent ==
  ServicesSpec => Spec /\ RecurringSpec /\ SessionSpec /\ AccessSpec /\ SnapshotSpec
<1>1. ServicesInit => Init /\ RecurringInit /\ SessionInit /\ AccessInit /\ SnapshotInit
  BY DEF ServicesInit
<1>2. ServicesSpec => ServicesInit /\ [][ServicesNext]_<<exercised, vars, recurringVars, snapshotVars, doorAndSession>>
  BY DEF ServicesSpec
<1> QED
  BY <1>1, <1>2, ServicesMoves, PTL DEF Spec, RecurringSpec, SessionSpec, AccessSpec, SnapshotSpec

ServicesInv == QueueInv /\ RecurringInv /\ SessionInv /\ AccessInv /\ SnapshotInv

LEMMA ServicesStep ==
  ServicesInv /\ [ServicesNext]_<<exercised, vars, recurringVars, snapshotVars, doorAndSession>>
    => ServicesInv'
  BY ServicesMoves, QueueStep, RecurringStep, SessionStep, AccessStep, SnapshotStep DEF ServicesInv

(* The tables and the memory of the five services have their types, whichever  *)
(* of them a behaviour exercises: for every number of tasks, of templates, of   *)
(* clients, of commands and of builders.                                        *)
THEOREM ServicesTypeCorrect == ServicesSpec => []ServicesTypesOK
<1>1. ServicesInit => ServicesInv
  BY QueueStart, RecurringStart, SessionStarts, AccessStarts, SnapshotInitial DEF ServicesInit, ServicesInv
<1>2. ServicesInv => ServicesTypesOK
  BY RecurringTypes, SessionTypes, AccessTypes, SnapshotTypes DEF QueueInv, ServicesInv, ServicesTypesOK
<1>3. ServicesSpec => ServicesInit /\ [][ServicesNext]_<<exercised, vars, recurringVars, snapshotVars, doorAndSession>>
  BY DEF ServicesSpec
<1> QED BY <1>1, <1>2, <1>3, ServicesStep, PTL

==============================================================================
