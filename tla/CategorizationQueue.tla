------------------------ MODULE CategorizationQueue ------------------------
(***************************************************************************)
(* The in-process queue that classifies purchases in the background: at     *)
(* most Concurrency requests to the classifier at once, the rest wait in    *)
(* order, and the shutdown waits for them up to a limit.  JavaScript runs   *)
(* each synchronous stretch (enqueue with its pump, the finally of execute  *)
(* with its pump) without interruption, so each is one step.                *)
(***************************************************************************)
EXTENDS Integers, Sequences, FiniteSets

CONSTANTS
  Tasks,        \* tasks that may be enqueued, each once
  Concurrency   \* CATEGORIZATION_CONCURRENCY

ASSUME QueueAssumption == Concurrency \in Nat \ {0} /\ IsFiniteSet(Tasks)

VARIABLES
  waiting,    \* the tasks in line
  running,    \* the counter of tasks in course
  executing,  \* the tasks whose run() has been called and has not settled
  settled,    \* the tasks whose promise settled, either way
  drain       \* the shutdown: "none", "waiting", "drained" or "timedOut"

vars == <<waiting, running, executing, settled, drain>>

Enqueued == {waiting[i] : i \in DOMAIN waiting} \cup executing \cup settled
Pending(r, w) == r + Len(w)
AtMost(a, b) == IF a <= b THEN a ELSE b

(* mutant: the loop compares with <= and starts one task too many *)
Starting_OneMore(r, w) == AtMost(Concurrency + 1 - r, Len(w))

(* how many tasks the while loop of pump takes off the line *)
Starting(r, w) == AtMost(Concurrency - r, Len(w))

(* mutant: the loop takes the last task of the line, not the first *)
Pump_Pop(r, e, w) ==
  LET n == Starting(r, w) IN
  /\ running' = r + n
  /\ executing' = e \cup {w[i] : i \in Len(w) - n + 1 .. Len(w)}
  /\ waiting' = SubSeq(w, 1, Len(w) - n)

(* pump, with r tasks in course, e executing and the line w *)
Pump(r, e, w) ==
  LET n == Starting(r, w) IN
  /\ running' = r + n
  /\ executing' = e \cup {w[i] : i \in 1 .. n}
  /\ waiting' = SubSeq(w, n + 1, Len(w))

Enqueue(t) ==
  /\ t \notin Enqueued
  /\ Pump(running, executing, Append(waiting, t))
  /\ UNCHANGED <<settled, drain>>

(* mutant: execute does not pump again when a task ends *)
Settle_NoPump(t) ==
  /\ t \in executing
  /\ running' = running - 1 /\ executing' = executing \ {t} /\ UNCHANGED waiting
  /\ settled' = settled \cup {t}
  /\ drain' = IF drain = "waiting" /\ Pending(running', waiting') = 0
              THEN "drained" ELSE drain

(* mutant: a rejected task frees its place in the catch and in the finally *)
Settle_FreesTwice(t) ==
  /\ t \in executing
  /\ Pump(running - 2, executing \ {t}, waiting)
  /\ settled' = settled \cup {t}
  /\ drain' = IF drain = "waiting" /\ Pending(running', waiting') = 0
              THEN "drained" ELSE drain

(* mutant: nobody is told that the queue is idle *)
Settle_NoWakeUp(t) ==
  /\ t \in executing
  /\ Pump(running - 1, executing \ {t}, waiting)
  /\ settled' = settled \cup {t}
  /\ UNCHANGED drain

(* a task resolves or rejects: the finally block frees its place, pumps and  *)
(* wakes whoever waits for the queue to be idle                              *)
Settle(t) ==
  /\ t \in executing
  /\ Pump(running - 1, executing \ {t}, waiting)
  /\ settled' = settled \cup {t}
  /\ drain' = IF drain = "waiting" /\ Pending(running', waiting') = 0
              THEN "drained" ELSE drain

(* beforeApplicationShutdown calls drain; requests may still be enqueued *)
BeginDrain ==
  /\ drain = "none"
  /\ drain' = IF Pending(running, waiting) = 0 THEN "drained" ELSE "waiting"
  /\ UNCHANGED <<waiting, running, executing, settled>>

TimeOut ==
  /\ drain = "waiting"
  /\ drain' = "timedOut"
  /\ UNCHANGED <<waiting, running, executing, settled>>

Init ==
  /\ waiting = <<>> /\ running = 0 /\ executing = {} /\ settled = {}
  /\ drain = "none"

Next ==
  \/ \E t \in Tasks : Enqueue(t) \/ Settle(t)
  \/ BeginDrain
  \/ TimeOut

Spec == Init /\ [][Next]_vars

(* every request to the classifier ends: it carries a timeout of its own.    *)
(* Nothing is assumed of the timer of the shutdown.                          *)
FairSpec == Spec /\ \A t \in Tasks : WF_vars(Settle(t))

-----------------------------------------------------------------------------
TypeOK ==
  /\ waiting \in Seq(Tasks)
  /\ running \in Nat
  /\ executing \subseteq Tasks
  /\ settled \subseteq Tasks
  /\ drain \in {"none", "waiting", "drained", "timedOut"}

(* The counter says how many tasks are in course, and never more than        *)
(* Concurrency of them are.                                                  *)
RunningBounded == running = Cardinality(executing) /\ running <= Concurrency

(* No place stays free while a task waits: every way a place can be freed,   *)
(* or a task can arrive, ends in a pump.                                     *)
WorkConserving == waiting # <<>> => running = Concurrency

(* No wake-up is lost: whoever waits for the queue to be idle has something  *)
(* to wait for.                                                              *)
NoLostWakeUp == drain = "waiting" => Pending(running, waiting) > 0

(* A task is in one place only: it is never run twice nor dropped. *)
RunOnce ==
  /\ \A i, j \in DOMAIN waiting : waiting[i] = waiting[j] => i = j
  /\ \A i \in DOMAIN waiting : waiting[i] \notin executing \cup settled
  /\ executing \cap settled = {}

InOrder ==
  \A i, j \in DOMAIN waiting :
    i < j /\ waiting[j] \in executing' => waiting[i] \in executing' \cup settled'

(* Tasks leave the line in the order they joined it. *)
FirstInFirstOut == [][InOrder]_vars

(* Every task that was enqueued is run to its end, the process staying up:   *)
(* time and again none is outstanding (each of them is enqueued once).       *)
EveryTaskSettles == []<>(Enqueued = settled)

(* A shutdown that waits is told when the last task ends, without the help   *)
(* of its timer.                                                             *)
ShutdownEnds == drain = "waiting" ~> drain \in {"drained", "timedOut"}
=============================================================================
