--------------------------- MODULE SlackConnection ---------------------------
(***************************************************************************)
(* The bot's connection to Slack and its health (pkg/bot/bot.go,            *)
(* pkg/metrics/server.go, cmd/bot/main.go). Three parties share one flag:   *)
(* the Slack client connects, retries and reports through a queue of        *)
(* events; one goroutine handles the queue and sets the flag; the reconnect *)
(* loop clears it when the client gives up, and starts the client again     *)
(* after a delay that doubles. The kubelet reads the probes and replaces a  *)
(* process whose liveness fails.                                            *)
(*                                                                         *)
(* The Slack client and Slack are external: the actions of the section so   *)
(* named allow everything the code says it expects of them.                 *)
(***************************************************************************)
EXTENDS Integers, Sequences

CONSTANTS
  RetryInitial, RetryMax,  \* bounds of the delay between attempts, in ticks
  Stable,                  \* slackStableRun, in ticks
  Stale,                   \* how long the liveness probe waits for an event
  QueueSize,               \* bound: events waiting to be handled
  MaxOutages,              \* bound: times Slack goes down
  MaxRestarts              \* bound: times the kubelet replaces the process

ASSUME DelaysAssumption ==
  /\ RetryInitial \in Nat \ {0} /\ RetryMax \in Nat
  /\ RetryInitial <= RetryMax
ASSUME BoundsAssumption ==
  /\ Stable \in Nat /\ Stale \in Nat /\ QueueSize \in Nat
  /\ MaxOutages \in Nat /\ MaxRestarts \in Nat

VARIABLES
  slack,      \* whether Slack accepts the bot
  outages,    \* times it went down
  restarts,   \* times the process was replaced
  bot,        \* "starting", then "running", or "absent" for good
  cancelled,  \* the context of the process is done
  loop,       \* where reconnectLoop stands
  delay,      \* its next delay
  lasted,     \* how long RunContext has been running
  waited,     \* how long the loop has been waiting
  link,       \* whether the client has a connection
  queue,      \* events the client has reported
  handler,    \* "listening" or "stopped"
  handling,   \* the event taken from the queue, not acted upon yet
  connected,  \* socketConnected
  quiet       \* time since lastEventTime, or Never

Never == -1
Events == {"connected", "connection_error", "disconnect", "other"}
Nothing == "nothing"

outside  == <<slack, outages>>
process  == <<restarts, bot, cancelled>>
retrying == <<loop, delay, lasted, waited>>
client   == <<link, queue>>
health   == <<handler, handling, connected, quiet>>
vars     == <<outside, process, retrying, client, health>>

Least(a, b) == IF a < b THEN a ELSE b

-----------------------------------------------------------------------------
(* main and NewBot. A bot that cannot authenticate is given up: the process  *)
(* serves on without one.                                                    *)

StartBot ==
  /\ bot = "starting"
  /\ IF slack
     THEN bot' = "running" /\ loop' = "run"
     ELSE bot' = "absent" /\ UNCHANGED loop
  /\ UNCHANGED <<outside, restarts, cancelled, delay, lasted, waited, client, health>>

(* A signal cancels the context. *)
Shutdown ==
  /\ bot = "running" /\ ~cancelled
  /\ cancelled' = TRUE
  /\ UNCHANGED <<outside, restarts, bot, retrying, client, health>>

-----------------------------------------------------------------------------
(* reconnectLoop.                                                            *)

(* Mutation: an error of the client ends the loop. *)
GiveUp ==
  /\ loop = "returned"
  /\ connected' = FALSE
  /\ loop' = "ended"
  /\ UNCHANGED <<outside, process, delay, lasted, waited, client, handler, handling, quiet>>

(* Mutation: the flag is left to the events. *)
BackOffSilently ==
  /\ loop = "returned"
  /\ loop' = IF cancelled THEN "ended" ELSE "backoff"
  /\ delay' = IF lasted >= Stable THEN RetryInitial ELSE delay
  /\ waited' = 0
  /\ UNCHANGED <<outside, process, lasted, client, health>>

(* RunContext returned: the flag is cleared, and unless the context is done  *)
(* the loop waits, from the shortest delay if the run was a long one.        *)
BackOff ==
  /\ loop = "returned"
  /\ connected' = FALSE
  /\ loop' = IF cancelled THEN "ended" ELSE "backoff"
  /\ delay' = IF lasted >= Stable /\ ~cancelled THEN RetryInitial ELSE delay
  /\ waited' = 0
  /\ UNCHANGED <<outside, process, lasted, client, handler, handling, quiet>>

(* Mutation: the delay doubles without a ceiling. *)
RetryUncapped ==
  /\ loop = "backoff" /\ waited >= delay
  /\ loop' = "run"
  /\ lasted' = 0
  /\ delay' = 2 * delay
  /\ UNCHANGED <<outside, process, waited, client, health>>

Retry ==
  /\ loop = "backoff" /\ waited >= delay
  /\ loop' = "run"
  /\ lasted' = 0
  /\ delay' = Least(2 * delay, RetryMax)
  /\ UNCHANGED <<outside, process, waited, client, health>>

StopWaiting ==
  /\ loop = "backoff" /\ cancelled
  /\ loop' = "ended"
  /\ UNCHANGED <<outside, process, delay, lasted, waited, client, health>>

-----------------------------------------------------------------------------
(* handleSocketMode. Whichever of a done context and a waiting event the     *)
(* select takes, it takes at random.                                         *)

Listening == bot = "running" /\ handler = "listening" /\ handling = Nothing

(* recordEvent... *)
TakeEvent ==
  /\ Listening /\ queue # <<>>
  /\ handling' = Head(queue)
  /\ queue' = Tail(queue)
  /\ quiet' = 0
  /\ UNCHANGED <<outside, process, retrying, link, handler, connected>>

(* ...and then the case of the event. *)
HandleEvent ==
  /\ handling # Nothing
  /\ connected' = CASE handling = "connected" -> TRUE
                    [] handling \in {"connection_error", "disconnect"} -> FALSE
                    [] OTHER -> connected
  /\ handling' = Nothing
  /\ UNCHANGED <<outside, process, retrying, client, handler, quiet>>

(* Mutation: the handler just returns. *)
StopSilently ==
  /\ Listening /\ cancelled
  /\ handler' = "stopped"
  /\ UNCHANGED <<outside, process, retrying, client, handling, connected, quiet>>

StopHandling ==
  /\ Listening /\ cancelled
  /\ handler' = "stopped"
  /\ connected' = FALSE
  /\ UNCHANGED <<outside, process, retrying, client, handling, quiet>>

-----------------------------------------------------------------------------
(* Slack, its client (RunContext) and the passing of time.                   *)

Report(e) == Len(queue) < QueueSize /\ queue' = Append(queue, e)

InRunContext == loop = "run" /\ UNCHANGED <<outside, process, health>>

ClientConnects ==
  /\ InRunContext /\ slack /\ ~link
  /\ link' = TRUE
  /\ Report("connected")
  /\ UNCHANGED retrying

(* A transient failure: the client retries by itself. *)
ClientFails ==
  /\ InRunContext /\ ~slack /\ ~link
  /\ Report("connection_error")
  /\ UNCHANGED <<retrying, link>>

(* A fatal one, or the end of the context. *)
ClientReturns ==
  /\ InRunContext
  /\ (~slack /\ ~link) \/ cancelled
  /\ loop' = "returned"
  /\ link' = FALSE
  /\ UNCHANGED <<delay, lasted, waited, queue>>

(* A connection is lost, announced or not. *)
ClientDisconnects ==
  /\ InRunContext /\ link
  /\ link' = FALSE
  /\ Report("disconnect") \/ UNCHANGED queue
  /\ UNCHANGED retrying

ClientDelivers ==
  /\ InRunContext /\ link
  /\ Report("other")
  /\ UNCHANGED <<retrying, link>>

SlackChanges ==
  /\ slack => outages < MaxOutages
  /\ slack' = ~slack
  /\ outages' = IF slack THEN outages + 1 ELSE outages
  /\ UNCHANGED <<process, retrying, client, health>>

(* Times stop at the values beyond which the code does not tell them apart. *)
Tick ==
  /\ lasted' = IF loop = "run" THEN Least(lasted + 1, Stable) ELSE lasted
  /\ waited' = IF loop = "backoff" THEN Least(waited + 1, RetryMax) ELSE waited
  /\ quiet' = IF quiet = Never THEN Never ELSE Least(quiet + 1, Stale + 1)
  /\ UNCHANGED <<outside, process, loop, delay, client, handler, handling, connected>>

-----------------------------------------------------------------------------
(* The probes. Without a bot there is no health checker.                     *)

Ready == bot = "running" => connected

LivenessFails == bot = "running" /\ ~connected /\ quiet # Never /\ quiet > Stale

(* What a new process starts with. *)
Fresh(x) ==
  CASE x = "loop" -> "idle" [] x = "delay" -> RetryInitial
    [] x = "handler" -> "listening" [] x = "quiet" -> Never

KubeletReplaces ==
  /\ LivenessFails /\ restarts < MaxRestarts
  /\ restarts' = restarts + 1
  /\ bot' = "starting" /\ cancelled' = FALSE
  /\ loop' = Fresh("loop") /\ delay' = Fresh("delay") /\ lasted' = 0 /\ waited' = 0
  /\ link' = FALSE /\ queue' = <<>>
  /\ handler' = Fresh("handler") /\ handling' = Nothing
  /\ connected' = FALSE /\ quiet' = Fresh("quiet")
  /\ UNCHANGED outside

Init ==
  /\ slack \in BOOLEAN /\ outages = 0 /\ restarts = 0
  /\ bot = "starting" /\ cancelled = FALSE
  /\ loop = Fresh("loop") /\ delay = Fresh("delay") /\ lasted = 0 /\ waited = 0
  /\ link = FALSE /\ queue = <<>>
  /\ handler = Fresh("handler") /\ handling = Nothing
  /\ connected = FALSE /\ quiet = Fresh("quiet")

Loop    == BackOff \/ Retry \/ StopWaiting
Handler == TakeEvent \/ HandleEvent \/ StopHandling
Client  == ClientConnects \/ ClientFails \/ ClientReturns

Next ==
  \/ StartBot \/ Shutdown
  \/ Loop \/ Handler
  \/ Client \/ ClientDisconnects \/ ClientDelivers
  \/ SlackChanges \/ Tick \/ KubeletReplaces

Spec == Init /\ [][Next]_vars

(* The goroutines run, time passes and the client keeps trying, notices an   *)
(* outage and heeds the context. A handler whose context is done does not    *)
(* prefer events for ever: select is fair. Nothing else is owed.             *)
FairSpec ==
  /\ Spec
  /\ WF_vars(StartBot) /\ WF_vars(Tick)
  /\ WF_vars(Loop) /\ WF_vars(Handler) /\ SF_vars(StopHandling)
  /\ WF_vars(Client) /\ WF_vars(ClientReturns /\ cancelled)
  /\ WF_vars(ClientDisconnects /\ ~slack)

-----------------------------------------------------------------------------
(* Properties.                                                               *)

TypeOK ==
  /\ slack \in BOOLEAN /\ outages \in 0 .. MaxOutages /\ restarts \in 0 .. MaxRestarts
  /\ bot \in {"starting", "running", "absent"} /\ cancelled \in BOOLEAN
  /\ loop \in {"idle", "run", "returned", "backoff", "ended"}
  /\ delay \in RetryInitial .. RetryMax
  /\ lasted \in 0 .. Stable /\ waited \in 0 .. RetryMax
  /\ link \in BOOLEAN /\ queue \in Seq(Events) /\ Len(queue) <= QueueSize
  /\ handler \in {"listening", "stopped"} /\ handling \in Events \cup {Nothing}
  /\ connected \in BOOLEAN /\ quiet \in Never .. Stale + 1

(* bot.go: the bot recovers on its own when Slack returns. Whatever errors,  *)
(* outages and late events came before, a bot that was started and is not    *)
(* shut down is ready again and again once Slack stays up.                   *)
RecoversOnItsOwn ==
  <>[](slack /\ bot = "running" /\ ~cancelled) => []<>(connected)

(* The README: readiness reports the socket as disconnected throughout an    *)
(* outage. Once the events of before are handled it does.                    *)
OutageIsReported ==
  <>[](~slack /\ bot = "running") => <>[](~Ready)

(* Start returns on a shutdown, in the middle of a delay or of a connection, *)
(* and leaves the socket reported as disconnected.                           *)
StopsWhenCancelled ==
  <>[](cancelled) => <>[](loop = "ended" /\ handler = "stopped" /\ ~connected)

(* The README: a bad token or a sustained outage does not end it, the        *)
(* connection is retried. So the bot is connected some time once Slack       *)
(* accepts it for good.                                                      *)
SlackIsRetried == <>[](slack /\ ~cancelled) => []<>(connected)
=============================================================================
