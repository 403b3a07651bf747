----------------------------- MODULE XtbSession -----------------------------
(***************************************************************************)
(* A session with XTB (class XtbSession, connectors/xtb.connector.ts): a     *)
(* socket, commands one after another whose answers are told apart by a      *)
(* customTag, and four timers: the connection, the command, the ping and the  *)
(* idle close.  Time goes by in ticks; a timer that is due fires before the   *)
(* next tick, in any order with the messages that arrive.                     *)
(***************************************************************************)
EXTENDS Naturals, Sequences

CONSTANTS
  Commands,        \* login, and those of the work: a sequence
  ConnectTimeout,  \* CONNECT_TIMEOUT_MS (15 s)
  CommandTimeout,  \* COMMAND_TIMEOUT_MS (20 s)
  PingInterval,    \* PING_INTERVAL_MS (8 s)
  IdleClose,       \* IDLE_CLOSE_MS (30 s)
  Off              \* a timer that is not running

\* The code's constants: an answer is waited for less than it takes a session to be idle.
ASSUME SessionAssumption ==
  /\ ConnectTimeout \in Nat /\ CommandTimeout \in Nat /\ PingInterval \in Nat \ {0}
  /\ IdleClose \in Nat /\ CommandTimeout < IdleClose
  /\ Len(Commands) \in Nat \ {0} /\ Off \notin Nat

VARIABLES
  stage,     \* of withSession: opening, ready, gap, waiting, over
  step,      \* commands answered
  socket,    \* connecting, open, closed
  pending,   \* tags whose answer is awaited
  timer,     \* what is left of each timer
  asked,     \* what the server has not answered; PingTag for a ping
  resolved,  \* history: tags a command was resolved with, by the tag it had
  elapsed    \* history: ticks since the session began

sessionVars == <<stage, step, socket, pending, timer, asked, resolved, elapsed>>

Timers == {"connect", "command", "ping", "idle"}
PingTag == 0

\* counter: the commands of a session are numbered from one.
Tag == step + 1

SessionInit ==
  /\ stage = "opening" /\ step = 0 /\ socket = "connecting"
  /\ pending = {} /\ asked = {} /\ resolved = {} /\ elapsed = 0
  /\ timer = [t \in Timers |-> IF t = "connect" THEN ConnectTimeout ELSE Off]

\* close, and what follows the end of the work: the finally of withSession.
CloseSession ==
  /\ stage' = "over" /\ socket' = "closed" /\ pending' = {}
  /\ timer' = [t \in Timers |-> Off]

SocketOpens ==
  /\ stage = "opening" /\ socket = "connecting"
  /\ socket' = "open" /\ stage' = "ready"
  /\ timer' = [timer EXCEPT !["connect"] = Off, !["ping"] = PingInterval, !["idle"] = IdleClose]
  /\ UNCHANGED <<step, pending, asked, resolved, elapsed>>

\* terminate, or the error of the socket: open is rejected.
ConnectionFails ==
  /\ socket = "connecting"
  /\ CloseSession
  /\ UNCHANGED <<step, asked, resolved, elapsed>>

\* "close": failPending rejects whoever waits; between two commands nobody does.
SocketCloses ==
  /\ socket = "open"
  /\ IF pending # {} THEN CloseSession
     ELSE socket' = "closed" /\ UNCHANGED <<stage, pending, timer>>
  /\ UNCHANGED <<step, asked, resolved, elapsed>>

\* The socket is looked at before the wait between commands.
BeginCommand ==
  /\ stage = "ready"
  /\ IF socket = "open" THEN stage' = "gap" /\ UNCHANGED <<socket, pending, timer>>
     ELSE CloseSession
  /\ UNCHANGED <<step, asked, resolved, elapsed>>

\* A socket closed during the wait swallows what is sent: the timeout is left.
SendCommand ==
  /\ stage = "gap"
  /\ stage' = "waiting"
  /\ pending' = pending \cup {Tag}
  /\ timer' = [timer EXCEPT !["command"] = CommandTimeout, !["idle"] = IdleClose]
  /\ asked' = IF socket = "open" THEN asked \cup {Tag} ELSE asked
  /\ UNCHANGED <<step, socket, resolved, elapsed>>

\* Mutant of Waiter: whatever arrives is taken for the answer awaited.
Waiter_Untagged(tag) == pending
\* The commands a message answers.
Waiter(tag) == pending \cap {tag}

\* A command that is refused ends the session, as does the answer to the last.
OnMessage(tag, accepted) ==
  /\ socket = "open" /\ tag \in asked
  /\ asked' = asked \ {tag}
  /\ IF Waiter(tag) = {}
     THEN UNCHANGED <<stage, step, socket, pending, timer, resolved>>
     ELSE /\ resolved' = resolved \cup {<<Tag, tag>>}
          /\ IF accepted /\ Tag < Len(Commands)
             THEN /\ step' = Tag /\ stage' = "ready"
                  /\ pending' = pending \ Waiter(tag)
                  /\ timer' = [timer EXCEPT !["command"] = Off]
                  /\ UNCHANGED socket
             ELSE CloseSession /\ UNCHANGED step
  /\ UNCHANGED elapsed

\* No answer to the command, or to nothing for too long.
TimeRunsOut ==
  /\ \E t \in {"command", "idle"} : timer[t] = 0
  /\ CloseSession
  /\ UNCHANGED <<step, asked, resolved, elapsed>>

KeepAlive ==
  /\ timer["ping"] = 0
  /\ timer' = [timer EXCEPT !["ping"] = PingInterval]
  /\ asked' = IF socket = "open" THEN asked \cup {PingTag} ELSE asked
  /\ UNCHANGED <<stage, step, socket, pending, resolved, elapsed>>

Tick ==
  /\ stage \in {"opening", "waiting"}
  /\ \A t \in Timers : timer[t] # 0
  /\ timer' = [t \in Timers |-> IF timer[t] = Off THEN Off ELSE timer[t] - 1]
  /\ elapsed' = elapsed + 1
  /\ UNCHANGED <<stage, step, socket, pending, asked, resolved>>

SessionNext ==
  \/ SocketOpens \/ ConnectionFails \/ SocketCloses
  \/ BeginCommand \/ SendCommand
  \/ \E tag \in asked, accepted \in BOOLEAN : OnMessage(tag, accepted)
  \/ TimeRunsOut \/ KeepAlive \/ Tick

SessionSpec == SessionInit /\ [][SessionNext]_sessionVars

SessionTypeOK ==
  /\ stage \in {"opening", "ready", "gap", "waiting", "over"}
  /\ step \in 0 .. Len(Commands) - 1 /\ pending \subseteq {Tag}
  /\ \A t \in Timers : timer[t] = Off \/ timer[t] \in Nat

\* A session of trading is contained (xtb.connector.ts, "la cierra SIEMPRE", "no
\* dejamos una sesión de trading abierta colgando"): a command is only resolved with
\* its own answer, whatever pings and late answers arrive; the idle close never
\* takes a session from a command in course; when withSession ends, socket and
\* timers are gone; and it ends within what its timeouts add up to.
SessionContained ==
  /\ \A answer \in resolved : answer[1] = answer[2]
  /\ timer["idle"] = 0 => pending = {}
  /\ stage = "over" => socket = "closed" /\ pending = {} /\ \A t \in Timers : timer[t] = Off
  /\ elapsed <= ConnectTimeout + Len(Commands) * CommandTimeout
=============================================================================
