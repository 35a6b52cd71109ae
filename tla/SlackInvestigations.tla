------------------------- MODULE SlackInvestigations -------------------------
(***************************************************************************)
(* The Slack half of the bot (pkg/bot): every Events API event is handled   *)
(* by a goroutine of its own, and the goroutines share the tracker of       *)
(* active requesters, the store of conversations, the conversations_active  *)
(* gauge and the report files in /tmp with each other and with the hourly   *)
(* cleanup loop. One action is one critical section, one outbound call or   *)
(* one unlocked access of that shared state.                                *)
(*                                                                         *)
(* What the agent loop does between the start of a run and its answer is    *)
(* one outbound call here: AgentLoop models it.                             *)
(***************************************************************************)
EXTENDS Integers, FiniteSets, Functions

CONSTANTS
  Users, Channels, Threads,  \* Slack's identifiers; a thread is its timestamp
  BotUser,                   \* the bot's own user
  Events,                    \* the events Slack may deliver
  Files, NoFile,             \* names of report files in /tmp, and no name
  NoEvent,                   \* a goroutine not started yet handles no event
  McpCaller,                 \* a caller of generate_pdf on the MCP transport
  MaxDeliveries,             \* bound: events delivered (one goroutine each)
  MaxRestarts,               \* bound: times the process is replaced
  Expiry,                    \* ConversationExpiry, in ticks
  Retention,                 \* fileRetention, in ticks
  PdfDisabled                \* the PDF_DISABLED setting

Kinds == {"root_mention", "thread_mention", "thread_message"}
Texts == {"help", "question", "disable_pdf", "enable_pdf"}

EventType == [kind : Kinds, channel : Channels, user : Users \cup {BotUser},
              thread : Threads, text : Texts]

ASSUME EventsAssumption == Events \subseteq EventType
ASSUME BoundsAssumption ==
  /\ MaxDeliveries \in Nat
  /\ MaxRestarts \in Nat
  /\ Expiry \in Nat
  /\ Retention \in Nat
ASSUME ThreadsAssumption == IsFiniteSet(Threads)
ASSUME SwitchAssumption == PdfDisabled \in BOOLEAN

Goroutines == 1 .. MaxDeliveries  \* in the order their events arrive
Cleaner    == 0                   \* the cleanup loop
Actors     == Goroutines \cup {Cleaner}

VARIABLES
  delivered,  \* events delivered so far
  restarts,   \* times the process was replaced
  event,      \* event[g]: the event goroutine g handles
  pc,         \* where each goroutine and the cleanup loop stand
  active,     \* tracker.active: the requesters with a handler at work
  store,      \* conversations: thread -> the conversation created by goroutine g
  conv,       \* conv[g]: the Conversation that goroutine g created
  ptr,        \* ptr[g]: the *Conversation goroutine g works on
  pdf,        \* pdf[g]: the pdfEnabled flag g read before its run
  gauge,      \* the conversations_active metric
  counted,    \* counted[a]: the Count() that a is about to publish
  tmp,        \* /tmp: report name -> the thread it was made for, and its age
  found,      \* found[a]: paths of a's glob it has not handled yet
  current     \* current[a]: the path a is about to remove

vars == <<delivered, restarts, event, pc, active, store, conv, ptr, pdf, gauge,
          counted, tmp, found, current>>

tracking == <<active, event, delivered, restarts>>
storing  == <<store, conv, ptr, pdf>>
metrics  == <<gauge, counted>>
files    == <<tmp, found, current>>

-----------------------------------------------------------------------------
(* Where a goroutine stands. Held is what lies between a successful TryStart *)
(* and the deferred Done.                                                    *)

Held == {"match", "count", "set", "begin", "lookup", "command", "run", "send",
         "scan", "upload", "remove", "release"}

InvestigationKey(e) == <<e.channel, e.user>>

Keys == Channels \X (Users \cup {BotUser})

Goto(a, label) == pc' = [pc EXCEPT ![a] = label]

Put(f, x, y) == [z \in DOMAIN f \cup {x} |-> IF z = x THEN y ELSE f[z]]

Drop(f, S) == Restrict(f, DOMAIN f \ S)

Older(age, limit) == IF age > limit THEN age ELSE age + 1

-----------------------------------------------------------------------------
(* The tracker.                                                              *)

(* Mutation: the map is not consulted before the key is claimed. *)
TryStartUnchecked(g, started) ==
  Goto(g, started) /\ active' = active \cup {InvestigationKey(event[g])}

(* TryStart succeeds and claims the key, or finds it active. *)
TryStart(g, started) ==
  IF InvestigationKey(event[g]) \in active
  THEN Goto(g, "done") /\ UNCHANGED active
  ELSE Goto(g, started) /\ active' = active \cup {InvestigationKey(event[g])}

(* defer b.tracker.Done(key) runs, however the handler ended. *)
Done(g) ==
  /\ pc[g] = "release"
  /\ active' = active \ {InvestigationKey(event[g])}
  /\ Goto(g, "done")
  /\ ptr' = [ptr EXCEPT ![g] = g]          \* the handler's locals are gone
  /\ pdf' = [pdf EXCEPT ![g] = FALSE]
  /\ counted' = [counted EXCEPT ![g] = 0]
  /\ found' = [found EXCEPT ![g] = {}]
  /\ current' = [current EXCEPT ![g] = NoFile]
  /\ UNCHANGED <<event, delivered, restarts, store, conv, gauge, tmp>>

-----------------------------------------------------------------------------
(* Events. Slack may deliver any event at any time, again and again.         *)

(* handleSocketMode acknowledges the event and hands it to a new goroutine. *)
Deliver(e) ==
  /\ delivered < MaxDeliveries
  /\ delivered' = delivered + 1
  /\ event' = [event EXCEPT ![delivered + 1] = e]
  /\ Goto(delivered + 1, "new")
  /\ UNCHANGED <<active, restarts, storing, metrics, files>>

(* Own mentions and help requests end here; a mention inside a thread is a  *)
(* reply, any other one starts an investigation.                            *)
HandleAppMention(g) ==
  /\ pc[g] = "new"
  /\ event[g].kind \in {"root_mention", "thread_mention"}
  /\ \/ /\ event[g].user = BotUser \/ event[g].text = "help"
        /\ Goto(g, "done") /\ UNCHANGED active
     \/ /\ event[g].user # BotUser /\ event[g].text # "help"
        /\ TryStart(g, IF event[g].kind = "thread_mention" THEN "lookup" ELSE "match")
  /\ UNCHANGED <<event, delivered, restarts, storing, metrics, files>>

(* A thread message counts only in a thread whose conversation is tracked. *)
HandleMessage(g) ==
  /\ pc[g] = "new"
  /\ event[g].kind = "thread_message"
  /\ Goto(g, IF event[g].user = BotUser \/ event[g].thread \notin DOMAIN store
             THEN "done" ELSE "reply")
  /\ UNCHANGED <<tracking, storing, metrics, files>>

(* It then enters handleThreadReply, as a mention inside the thread does. *)
EnterThreadReply(g) ==
  /\ pc[g] = "reply"
  /\ TryStart(g, "lookup")
  /\ UNCHANGED <<event, delivered, restarts, storing, metrics, files>>

-----------------------------------------------------------------------------
(* The conversation store.                                                   *)

NewConversation == [pdf |-> TRUE, age |-> 0]

(* conversations.Create replaces whatever the thread had. *)
CreateConversation(g) ==
  /\ store' = Put(store, event[g].thread, g)
  /\ conv' = [conv EXCEPT ![g] = NewConversation]
  /\ ptr' = [ptr EXCEPT ![g] = g]

(* SetPDFEnabled looks the thread up again and counts as activity. *)
SetPDFEnabled(t, enabled) ==
  IF t \in DOMAIN store
  THEN conv' = [conv EXCEPT ![store[t]] = [pdf |-> enabled, age |-> 0]]
  ELSE UNCHANGED conv

(* Mutation: the comparison the wrong way round. *)
ExpiredReversed == {t \in DOMAIN store : conv[store[t]].age < Expiry}

Expired == {t \in DOMAIN store : conv[store[t]].age > Expiry}

(* syncConversationsActive reads the size of the store under its lock... *)
SyncCount(a) ==
  /\ pc[a] = "count"
  /\ counted' = [counted EXCEPT ![a] = Cardinality(DOMAIN store)]
  /\ Goto(a, "set")
  /\ UNCHANGED <<tracking, storing, gauge, files>>

(* Mutation: the count is added to the gauge. *)
SyncAdd(a) ==
  /\ pc[a] = "set"
  /\ gauge' = gauge + counted[a]
  /\ counted' = [counted EXCEPT ![a] = 0]
  /\ Goto(a, IF a = Cleaner THEN "glob" ELSE "begin")
  /\ UNCHANGED <<tracking, storing, files>>

(* ...and publishes it later. *)
SyncSet(a) ==
  /\ pc[a] = "set"
  /\ gauge' = counted[a]
  /\ counted' = [counted EXCEPT ![a] = 0]
  /\ Goto(a, IF a = Cleaner THEN "glob" ELSE "begin")
  /\ UNCHANGED <<tracking, storing, files>>

-----------------------------------------------------------------------------
(* startInvestigation and handleThreadReply, once they hold the requester.   *)

(* Mutation: the path without a match returns without giving the key back. *)
StartKeepingKey(g) ==
  /\ pc[g] = "match"
  /\ \/ Goto(g, "done") /\ UNCHANGED storing
     \/ Goto(g, "count") /\ CreateConversation(g) /\ UNCHANGED pdf
  /\ UNCHANGED <<tracking, metrics, files>>

(* The channel's name is fetched and the message matched to a skill: without *)
(* a match the thread gets an error message, with one a conversation.        *)
StartInvestigation(g) ==
  /\ pc[g] = "match"
  /\ \/ Goto(g, "release") /\ UNCHANGED storing
     \/ Goto(g, "count") /\ CreateConversation(g) /\ UNCHANGED pdf
  /\ UNCHANGED <<tracking, metrics, files>>

(* A reply finds its conversation or reports that there is none. The skill   *)
(* of a stored conversation always loads: it came from the same library.     *)
HandleThreadReply(g) ==
  /\ pc[g] = "lookup"
  /\ IF event[g].thread \in DOMAIN store
     THEN /\ ptr' = [ptr EXCEPT ![g] = store[event[g].thread]]
          /\ Goto(g, IF event[g].text \in {"disable_pdf", "enable_pdf"}
                     THEN "command" ELSE "begin")
     ELSE Goto(g, "release") /\ UNCHANGED ptr
  /\ UNCHANGED <<tracking, store, conv, pdf, metrics, files>>

HandlePDFCommand(g) ==
  /\ pc[g] = "command"
  /\ SetPDFEnabled(event[g].thread, event[g].text = "enable_pdf")
  /\ Goto(g, "release")
  /\ UNCHANGED <<tracking, store, ptr, pdf, metrics, files>>

PdfEnabledFor(c) == ~PdfDisabled /\ conv[c].pdf

(* The toggle is read once, before the run. *)
BeginRun(g) ==
  /\ pc[g] = "begin"
  /\ pdf' = [pdf EXCEPT ![g] = PdfEnabledFor(ptr[g])]
  /\ Goto(g, "run")
  /\ UNCHANGED <<tracking, store, conv, ptr, metrics, files>>

(* executeGeneratePDF: the name is the caller's choice and an existing file  *)
(* is overwritten.                                                           *)
GeneratePDF(f, owner) ==
  /\ tmp' = Put(tmp, f, [owner |-> owner, age |-> 0])
  /\ UNCHANGED <<pc, tracking, storing, metrics, found, current>>

(* A run may call it any number of times, and even when its catalog withholds *)
(* the tool: runTool dispatches whatever name the model calls.               *)
GenerateReport(g) ==
  /\ pc[g] = "run"
  /\ \E f \in Files : GeneratePDF(f, event[g].thread)

GenerateOverMCP == \E f \in Files : GeneratePDF(f, McpCaller)

(* RunInvestigation fails, or its answer is stored for the next follow-up    *)
(* (the texts that a prompt is built from are left out) and goes to Slack.   *)
RunInvestigation(g) ==
  /\ pc[g] = "run"
  /\ Goto(g, "release") \/ Goto(g, "send")
  /\ UNCHANGED <<tracking, storing, metrics, files>>

(* The answer is posted in the thread, or the post fails and ends it all. *)
SendFormattedMessage(g) ==
  /\ pc[g] = "send"
  /\ Goto(g, "release") \/ Goto(g, IF pdf[g] THEN "scan" ELSE "release")
  /\ UNCHANGED <<tracking, storing, metrics, files>>

(* scanAndUploadPDFs globs /tmp/*.pdf ... *)
ScanForPDFs(g) ==
  /\ pc[g] = "scan"
  /\ found' = [found EXCEPT ![g] = DOMAIN tmp]
  /\ Goto(g, "upload")
  /\ UNCHANGED <<tracking, storing, metrics, tmp, current>>

(* ... and takes the paths in turn (sorted in the code, any order here). The *)
(* upload may fail, the wait for a stable file may time out, and a path may  *)
(* be gone: the next one is tried.                                           *)
UploadFile(g) ==
  /\ pc[g] = "upload"
  /\ \E f \in found[g] :
       /\ found' = [found EXCEPT ![g] = @ \ {f}]
       /\ \/ UNCHANGED <<pc, current>>
          \/ /\ f \in DOMAIN tmp
             /\ current' = [current EXCEPT ![g] = f]
             /\ Goto(g, "remove")
  /\ UNCHANGED <<tracking, storing, metrics, tmp>>

(* A report that cannot be removed stays for the next scan. *)
RemoveUploaded(g) ==
  /\ pc[g] = "remove"
  /\ tmp' \in {Drop(tmp, {current[g]}), tmp}
  /\ current' = [current EXCEPT ![g] = NoFile]
  /\ Goto(g, "upload")
  /\ UNCHANGED <<tracking, storing, metrics, found>>

(* The reactions and the resolved metric: nothing the handlers share. *)
Complete(g) ==
  /\ pc[g] = "upload" /\ found[g] = {}
  /\ Goto(g, "release")
  /\ UNCHANGED <<tracking, storing, metrics, files>>

(* Mutation: Done is called at the end of the handler instead of deferred. *)
PanicWithoutDone(g) ==
  /\ pc[g] \in {"new", "reply"} \cup Held
  /\ Goto(g, "done")
  /\ UNCHANGED <<tracking, storing, metrics, files>>

(* A panic anywhere in the handler runs the deferred Done if TryStart was    *)
(* passed; recoverPanic contains it.                                         *)
Panic(g) ==
  /\ \/ pc[g] \in Held \ {"release"} /\ Goto(g, "release")
     \/ pc[g] \in {"new", "reply"} /\ Goto(g, "done")
  /\ UNCHANGED <<tracking, storing, metrics, files>>

-----------------------------------------------------------------------------
(* The cleanup loop: one pass an hour, on its own goroutine.                 *)

(* Mutation: the pass does not publish the new count. *)
RunCleanupUnsynced ==
  /\ pc[Cleaner] = "wait"
  /\ store' = Drop(store, Expired)
  /\ Goto(Cleaner, "glob")
  /\ UNCHANGED <<tracking, conv, ptr, pdf, metrics, files>>

(* Mutation: the pass looks for *.md only. *)
CleanupNoReports ==
  /\ pc[Cleaner] = "glob"
  /\ found' = [found EXCEPT ![Cleaner] = {}]
  /\ Goto(Cleaner, "stat")
  /\ UNCHANGED <<tracking, storing, metrics, tmp, current>>

RunCleanup ==
  /\ pc[Cleaner] = "wait"
  /\ store' = Drop(store, Expired)
  /\ Goto(Cleaner, "count")
  /\ UNCHANGED <<tracking, conv, ptr, pdf, metrics, files>>

CleanupOldFiles ==
  /\ pc[Cleaner] = "glob"
  /\ found' = [found EXCEPT ![Cleaner] = DOMAIN tmp]
  /\ Goto(Cleaner, "stat")
  /\ UNCHANGED <<tracking, storing, metrics, tmp, current>>

(* removeOldFile decides on the age it read ... *)
StatOldFile ==
  /\ pc[Cleaner] = "stat"
  /\ \E f \in found[Cleaner] :
       /\ found' = [found EXCEPT ![Cleaner] = @ \ {f}]
       /\ IF f \in DOMAIN tmp /\ tmp[f].age > Retention
          THEN /\ current' = [current EXCEPT ![Cleaner] = f]
               /\ Goto(Cleaner, "unlink")
          ELSE UNCHANGED <<pc, current>>
  /\ UNCHANGED <<tracking, storing, metrics, tmp>>

(* ... and removes whatever the path names by then, unless that fails. *)
AfterOldFile ==
  /\ pc[Cleaner] = "unlink"
  /\ current' = [current EXCEPT ![Cleaner] = NoFile]
  /\ Goto(Cleaner, "stat")
  /\ UNCHANGED <<tracking, storing, metrics, found>>

RemoveOldFile ==
  /\ AfterOldFile
  /\ tmp' = Drop(tmp, {current[Cleaner]})

FailToRemoveOldFile == AfterOldFile /\ UNCHANGED tmp

EndCleanup ==
  /\ pc[Cleaner] = "stat" /\ found[Cleaner] = {}
  /\ Goto(Cleaner, "wait")
  /\ UNCHANGED <<tracking, storing, metrics, files>>

-----------------------------------------------------------------------------
(* Time, and the process being replaced.                                     *)

(* A tick passes. Ages stop one past their limit: the code only compares.    *)
Tick ==
  /\ conv' = [c \in Goroutines |->
                [conv[c] EXCEPT !.age = Older(@, Expiry)]]
  /\ tmp' = [f \in DOMAIN tmp |-> [tmp[f] EXCEPT !.age = Older(@, Retention)]]
  /\ UNCHANGED <<pc, tracking, store, ptr, pdf, metrics, found, current>>

(* What a new process starts with. *)
Fresh ==
  [store   |-> [t \in {} |-> Cleaner],
   conv    |-> [g \in Goroutines |-> NewConversation],
   ptr     |-> [g \in Goroutines |-> g],
   pdf     |-> [g \in Goroutines |-> FALSE],
   counted |-> [a \in Actors |-> 0],
   found   |-> [a \in Actors |-> {}],
   current |-> [a \in Actors |-> NoFile],
   tmp     |-> [f \in {} |-> Cleaner]]

(* The process ends wherever its goroutines are; the next one starts empty,  *)
(* and /tmp survives or does not.                                            *)
Restart ==
  /\ restarts < MaxRestarts
  /\ restarts' = restarts + 1
  /\ pc' = [a \in Actors |-> IF a = Cleaner THEN "wait"
                             ELSE IF pc[a] = "idle" THEN "idle" ELSE "done"]
  /\ active' = {}
  /\ store' = Fresh.store
  /\ conv' = Fresh.conv
  /\ ptr' = Fresh.ptr
  /\ pdf' = Fresh.pdf
  /\ gauge' = 0
  /\ counted' = Fresh.counted
  /\ found' = Fresh.found
  /\ current' = Fresh.current
  /\ UNCHANGED tmp \/ tmp' = Fresh.tmp
  /\ UNCHANGED <<delivered, event>>

Init ==
  /\ delivered = 0
  /\ restarts = 0
  /\ event = [g \in Goroutines |-> NoEvent]
  /\ pc = [a \in Actors |-> IF a = Cleaner THEN "wait" ELSE "idle"]
  /\ active = {}
  /\ store = Fresh.store
  /\ conv = Fresh.conv
  /\ ptr = Fresh.ptr
  /\ pdf = Fresh.pdf
  /\ gauge = 0
  /\ counted = Fresh.counted
  /\ tmp = Fresh.tmp
  /\ found = Fresh.found
  /\ current = Fresh.current

(* Everything goroutine g does of its own accord. *)
Handle(g) ==
  \/ HandleAppMention(g) \/ HandleMessage(g) \/ EnterThreadReply(g)
  \/ StartInvestigation(g) \/ SyncCount(g) \/ SyncSet(g)
  \/ HandleThreadReply(g) \/ HandlePDFCommand(g)
  \/ BeginRun(g) \/ RunInvestigation(g) \/ SendFormattedMessage(g)
  \/ ScanForPDFs(g) \/ UploadFile(g) \/ RemoveUploaded(g) \/ Complete(g)
  \/ Done(g)

Cleanup ==
  \/ RunCleanup \/ SyncCount(Cleaner) \/ SyncSet(Cleaner)
  \/ CleanupOldFiles \/ StatOldFile \/ RemoveOldFile \/ FailToRemoveOldFile
  \/ EndCleanup

(* Everything but the passing of time. *)
Operate ==
  \/ \E e \in Events : Deliver(e)
  \/ \E g \in Goroutines : Handle(g) \/ GenerateReport(g) \/ Panic(g)
  \/ GenerateOverMCP
  \/ Cleanup
  \/ Restart

Next == Operate \/ Tick

Spec == Init /\ [][Next]_vars

(***************************************************************************)
(* Fairness. The Go scheduler runs every runnable goroutine, the ticker of  *)
(* the cleanup loop fires and time passes. Weak fairness of Handle(g) also   *)
(* says that a call of the model or of Slack ends sooner or later, with an   *)
(* answer or an error: the code sets no timeout of its own on them. Strong   *)
(* fairness of RemoveOldFile says that the file system does not refuse the   *)
(* removal for ever. Slack's deliveries, PDF generation, panics and restarts *)
(* are never owed.                                                           *)
(***************************************************************************)
FairSpec ==
  /\ Spec
  /\ \A g \in Goroutines : WF_vars(Handle(g))
  /\ WF_vars(Cleanup)
  /\ SF_vars(RemoveOldFile)
  /\ WF_vars(Tick)

-----------------------------------------------------------------------------
(* Properties.                                                               *)

GoroutinePCs == {"idle", "new", "reply", "done"} \cup Held
CleanerPCs   == {"wait", "count", "set", "glob", "stat", "unlink"}

TrackingTypeOK ==
  /\ delivered \in 0 .. MaxDeliveries
  /\ restarts \in 0 .. MaxRestarts
  /\ event \in [Goroutines -> EventType \cup {NoEvent}]
  /\ pc \in [Actors -> GoroutinePCs \cup CleanerPCs]
  /\ pc[Cleaner] \in CleanerPCs
  /\ \A g \in Goroutines :
       /\ pc[g] \in GoroutinePCs
       /\ pc[g] # "idle" => event[g] \in EventType
       /\ pc[g] # "idle" <=> g <= delivered
  /\ active \subseteq Keys

StoreTypeOK ==
  /\ DOMAIN store \subseteq Threads
  /\ store \in [DOMAIN store -> Goroutines]
  /\ conv \in [Goroutines -> [pdf : BOOLEAN, age : 0 .. Expiry + 1]]
  /\ ptr \in [Goroutines -> Goroutines]
  /\ pdf \in [Goroutines -> BOOLEAN]

MetricsTypeOK ==
  /\ gauge \in 0 .. Cardinality(Threads)
  /\ counted \in [Actors -> 0 .. Cardinality(Threads)]

FilesTypeOK ==
  /\ DOMAIN tmp \subseteq Files
  /\ tmp \in [DOMAIN tmp -> [owner : Threads \cup {McpCaller}, age : 0 .. Retention + 1]]
  /\ found \in [Actors -> SUBSET Files]
  /\ current \in [Actors -> Files \cup {NoFile}]

(* Every variable has its type, the goroutines started so far are the ones  *)
(* with an event, and the gauge never counts more than the threads there    *)
(* are.                                                                      *)
TypeOK == TrackingTypeOK /\ StoreTypeOK /\ MetricsTypeOK /\ FilesTypeOK

Holders == {g \in Goroutines : pc[g] \in Held}

(* At most one handler works for a requester at a time, and the tracker's   *)
(* map holds exactly the requesters somebody works for: no panic, error     *)
(* path, duplicate or restart strands a key or frees another handler's.     *)
OneRunPerRequester ==
  /\ \A g, h \in Holders :
       InvestigationKey(event[g]) = InvestigationKey(event[h]) => g = h
  /\ active = {InvestigationKey(event[g]) : g \in Holders}

(* The handlers implement the abstract slots, one per requester. *)
Slots == INSTANCE RequesterSlots
           WITH Handlers <- Goroutines,
                held <- {<<InvestigationKey(event[g]), g>> : g \in Holders}

ImplementsSlots == Slots!Spec

(* A requester who holds a slot gets it back: tracker.Done is reached from   *)
(* every early return, failed call and panic of the two handlers.            *)
SlotsAreReturned == \A k \in Keys : (k \in active) ~> (k \notin active)

(* The count published by syncConversationsActive may be stale, and it may   *)
(* overwrite a newer one; the cleanup passes keep bringing the gauge back to *)
(* the number of tracked conversations.                                      *)
GaugeCatchesUp == []<>(gauge = Cardinality(DOMAIN store))

(* Once its users fall silent (deliveries are bounded here) every tracked    *)
(* conversation is forgotten: the store does not grow for ever.              *)
ConversationsExpire ==
  \A t \in Threads : (t \in DOMAIN store) ~> (t \notin DOMAIN store)

(* A report past its retention leaves /tmp, uploaded or not, unless somebody *)
(* writes it again.                                                          *)
OldReportsAreRemoved ==
  \A f \in Files :
    (f \in DOMAIN tmp /\ tmp[f].age > Retention)
      ~> (f \notin DOMAIN tmp \/ tmp[f].age = 0)

(* The README: the bot replies in the thread, attaching any generated PDF.   *)
(* What a scan uploads to a thread was generated for that thread.            *)
ReportsStayInTheirThread ==
  [][\A g \in Goroutines :
       (pc[g] = "upload" /\ pc'[g] = "remove")
         => tmp[current'[g]].owner = event[g].thread]_vars
=============================================================================
