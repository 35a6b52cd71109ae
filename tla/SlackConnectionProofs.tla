------------------------- MODULE SlackConnectionProofs -------------------------
(***************************************************************************)
(* Proofs about SlackConnection: its types, and that nothing but a shutdown *)
(* ends the reconnect loop or the handler of events. What is proved holds   *)
(* for any delays and bounds; that the bot gets connected again in the end  *)
(* is liveness and is model-checked.                                        *)
(***************************************************************************)
EXTENDS SlackConnection, TLAPS

-----------------------------------------------------------------------------
(* The loop and the handler run for as long as the process is not told to     *)
(* end, and no connection outlives the run of the client that made it.        *)
Unended ==
  /\ loop = "ended" => cancelled
  /\ handler = "stopped" => cancelled /\ ~connected
  /\ cancelled => bot = "running"
  /\ loop # "idle" => bot = "running"
  /\ link => loop = "run"
  /\ bot # "running" => loop = "idle" /\ handling = Nothing /\ ~connected
  /\ handler = "stopped" => handling = Nothing

ConnectionInv == TypeOK /\ Unended

-----------------------------------------------------------------------------
LEMMA Numbers ==
  /\ RetryInitial \in Nat /\ RetryMax \in Nat /\ RetryInitial <= RetryMax /\ RetryInitial > 0
  /\ Stable \in Nat /\ Stale \in Nat /\ QueueSize \in Nat
  /\ MaxOutages \in Nat /\ MaxRestarts \in Nat
  BY DelaysAssumption, BoundsAssumption

LEMMA LeastIs ==
  ASSUME NEW a \in Int, NEW b \in Int
  PROVE  Least(a, b) \in {a, b} /\ Least(a, b) <= a /\ Least(a, b) <= b
  BY DEF Least

(* What the client reports is an event, and the queue takes it if it can. *)
LEMMA ReportKeeps ==
  ASSUME queue \in Seq(Events), NEW e \in Events, Report(e)
  PROVE  queue' \in Seq(Events) /\ Len(queue') <= QueueSize
  <1>1. Len(queue) \in Nat /\ Len(queue) < QueueSize /\ queue' = Append(queue, e)
    BY DEF Report
  <1>2. Len(Append(queue, e)) = Len(queue) + 1 /\ Append(queue, e) \in Seq(Events)
    OBVIOUS
  <1>. QED  BY <1>1, <1>2, Numbers

LEMMA FreshIs ==
  /\ Fresh("loop") = "idle" /\ Fresh("delay") = RetryInitial
  /\ Fresh("handler") = "listening" /\ Fresh("quiet") = Never
  BY DEF Fresh

LEMMA BoundsHold ==
  /\ RetryInitial \in RetryInitial .. RetryMax /\ Never \in Never .. Stale + 1
  /\ 0 \in 0 .. Stable /\ 0 \in 0 .. RetryMax
  /\ 0 \in 0 .. MaxOutages /\ 0 \in 0 .. MaxRestarts
  /\ <<>> \in Seq(Events) /\ Len(<<>>) <= QueueSize
  BY Numbers DEF Never

LEMMA ConnectionStart == Init => ConnectionInv
  BY FreshIs, BoundsHold DEF Init, ConnectionInv, TypeOK, Unended

-----------------------------------------------------------------------------
(* The steps.                                                                *)

LEMMA ProcessSteps ==
  ASSUME ConnectionInv, StartBot \/ Shutdown \/ KubeletReplaces \/ SlackChanges
  PROVE  ConnectionInv'
  <1>. USE DEF outside, process, retrying, client, health
  <1>1. CASE StartBot
    BY <1>1 DEF StartBot, ConnectionInv, TypeOK, Unended
  <1>2. CASE Shutdown
    BY <1>2 DEF Shutdown, ConnectionInv, TypeOK, Unended
  <1>3. CASE KubeletReplaces
    <2>1. restarts' \in 0 .. MaxRestarts
      BY <1>3, Numbers DEF KubeletReplaces, ConnectionInv, TypeOK
    <2>. QED
      BY <1>3, <2>1, FreshIs, BoundsHold DEF KubeletReplaces, ConnectionInv, TypeOK, Unended
  <1>4. CASE SlackChanges
    <2>1. outages' \in 0 .. MaxOutages /\ slack' \in BOOLEAN
      BY <1>4, Numbers DEF SlackChanges, ConnectionInv, TypeOK
    <2>. QED  BY <1>4, <2>1 DEF SlackChanges, ConnectionInv, TypeOK, Unended
  <1>. QED  BY <1>1, <1>2, <1>3, <1>4

LEMMA LoopSteps ==
  ASSUME ConnectionInv, Loop
  PROVE  ConnectionInv'
  <1>. USE DEF outside, process, retrying, client, health
  <1>1. CASE BackOff
    <2>1. delay' \in RetryInitial .. RetryMax /\ waited' \in 0 .. RetryMax
      BY <1>1, Numbers DEF BackOff, ConnectionInv, TypeOK
    <2>. QED  BY <1>1, <2>1 DEF BackOff, ConnectionInv, TypeOK, Unended
  <1>2. CASE Retry
    <2>1. delay' \in RetryInitial .. RetryMax /\ lasted' \in 0 .. Stable
      <3>1. delay \in Int /\ 2 * delay \in Int /\ delay >= RetryInitial /\ 2 * delay >= delay
        BY Numbers DEF ConnectionInv, TypeOK
      <3>. QED  BY <1>2, <3>1, Numbers, LeastIs DEF Retry
    <2>. QED  BY <1>2, <2>1 DEF Retry, ConnectionInv, TypeOK, Unended
  <1>3. CASE StopWaiting
    BY <1>3 DEF StopWaiting, ConnectionInv, TypeOK, Unended
  <1>. QED  BY <1>1, <1>2, <1>3 DEF Loop

LEMMA HandlerSteps ==
  ASSUME ConnectionInv, Handler
  PROVE  ConnectionInv'
  <1>. USE DEF outside, process, retrying, client, health
  <1>1. CASE TakeEvent
    <2>1. queue # <<>> /\ queue \in Seq(Events) /\ Len(queue) <= QueueSize
      BY <1>1 DEF TakeEvent, ConnectionInv, TypeOK
    <2>2. /\ Head(queue) \in Events /\ Tail(queue) \in Seq(Events)
          /\ Len(Tail(queue)) = Len(queue) - 1 /\ Len(queue) \in Nat
      BY <2>1
    <2>3. /\ handling' \in Events \cup {Nothing} /\ queue' \in Seq(Events)
          /\ Len(queue') <= QueueSize
      BY <1>1, <2>1, <2>2, Numbers DEF TakeEvent
    <2>4. quiet' \in Never .. Stale + 1
      BY <1>1, Numbers DEF TakeEvent, Never
    <2>. QED
      BY <1>1, <2>3, <2>4 DEF TakeEvent, Listening, ConnectionInv, TypeOK, Unended
  <1>2. CASE HandleEvent
    <2>1. connected' \in BOOLEAN
      BY <1>2 DEF HandleEvent, ConnectionInv, TypeOK
    <2>. QED  BY <1>2, <2>1 DEF HandleEvent, ConnectionInv, TypeOK, Unended
  <1>3. CASE StopHandling
    BY <1>3 DEF StopHandling, Listening, ConnectionInv, TypeOK, Unended
  <1>. QED  BY <1>1, <1>2, <1>3 DEF Handler

LEMMA ClientSteps ==
  ASSUME ConnectionInv, Client \/ ClientDisconnects \/ ClientDelivers
  PROVE  ConnectionInv'
  <1>. USE DEF outside, process, retrying, client, health, InRunContext
  <1>1. queue \in Seq(Events) /\ Len(queue) <= QueueSize
    BY DEF ConnectionInv, TypeOK
  <1>2. CASE ClientConnects
    <2>1. queue' \in Seq(Events) /\ Len(queue') <= QueueSize
      BY <1>1, <1>2, ReportKeeps DEF ClientConnects, Events
    <2>. QED  BY <1>2, <2>1 DEF ClientConnects, ConnectionInv, TypeOK, Unended
  <1>3. CASE ClientFails
    <2>1. queue' \in Seq(Events) /\ Len(queue') <= QueueSize
      BY <1>1, <1>3, ReportKeeps DEF ClientFails, Events
    <2>. QED  BY <1>3, <2>1 DEF ClientFails, ConnectionInv, TypeOK, Unended
  <1>4. CASE ClientReturns
    BY <1>4 DEF ClientReturns, ConnectionInv, TypeOK, Unended
  <1>5. CASE ClientDisconnects
    <2>1. queue' \in Seq(Events) /\ Len(queue') <= QueueSize
      BY <1>1, <1>5, ReportKeeps DEF ClientDisconnects, Events
    <2>. QED  BY <1>5, <2>1 DEF ClientDisconnects, ConnectionInv, TypeOK, Unended
  <1>6. CASE ClientDelivers
    <2>1. queue' \in Seq(Events) /\ Len(queue') <= QueueSize
      BY <1>1, <1>6, ReportKeeps DEF ClientDelivers, Events
    <2>. QED  BY <1>6, <2>1 DEF ClientDelivers, ConnectionInv, TypeOK, Unended
  <1>. QED  BY <1>2, <1>3, <1>4, <1>5, <1>6 DEF Client

LEMMA TickStep ==
  ASSUME ConnectionInv, Tick
  PROVE  ConnectionInv'
  <1>. USE DEF outside, process, retrying, client, health
  <1>1. lasted' \in 0 .. Stable /\ waited' \in 0 .. RetryMax /\ quiet' \in Never .. Stale + 1
    BY Numbers DEF Tick, ConnectionInv, TypeOK, Least, Never
  <1>. QED  BY <1>1 DEF Tick, ConnectionInv, TypeOK, Unended

-----------------------------------------------------------------------------
(* The theorems.                                                             *)

(* The invariant holds of every behaviour. *)
THEOREM ConnectionInvHolds == Spec => []ConnectionInv
  <1>1. Init => ConnectionInv
    BY ConnectionStart
  <1>2. ConnectionInv /\ [Next]_vars => ConnectionInv'
    <2>. SUFFICES ASSUME ConnectionInv, [Next]_vars PROVE ConnectionInv'
      OBVIOUS
    <2>1. CASE Next
      BY <2>1, ProcessSteps, LoopSteps, HandlerSteps, ClientSteps, TickStep DEF Next
    <2>2. CASE UNCHANGED vars
      BY <2>2 DEF vars, outside, process, retrying, client, health,
                  ConnectionInv, TypeOK, Unended
    <2>. QED  BY <2>1, <2>2
  <1>. QED  BY <1>1, <1>2, PTL DEF Spec

(* The state has its types; above all the delay stays between its bounds      *)
(* however often it doubles and starts over (bot.go:218-258).                 *)
THEOREM TypesHold == Spec => []TypeOK
  <1>1. ConnectionInv => TypeOK
    BY DEF ConnectionInv
  <1>. QED  BY <1>1, ConnectionInvHolds, PTL

(* bot.go: Start returns only when the context is cancelled, whatever Slack   *)
(* and its client do. The loop ends and the handler stops only in a process   *)
(* that was told to, and a handler that stopped leaves the socket reported as *)
(* disconnected, although events wait in the queue (bot.go:179-208). A panic  *)
(* of the handler is not part of the model.                                   *)
OnlyShutdownEnds ==
  /\ loop = "ended" => cancelled
  /\ handler = "stopped" => cancelled /\ ~connected

(* Nothing but a shutdown ends the loop or the handler, for any delays,       *)
(* outages and events (bot.go:218-258).                                       *)
THEOREM NothingElseEnds == Spec => []OnlyShutdownEnds
  <1>1. ConnectionInv => OnlyShutdownEnds
    BY DEF ConnectionInv, Unended, OnlyShutdownEnds
  <1>. QED  BY <1>1, ConnectionInvHolds, PTL
=============================================================================
