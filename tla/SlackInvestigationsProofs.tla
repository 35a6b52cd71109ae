---------------------- MODULE SlackInvestigationsProofs ----------------------
(***************************************************************************)
(* Proofs about SlackInvestigations, for any users, channels, threads,      *)
(* events and files, and any bounds: the type invariant, that at most one   *)
(* handler works for a requester, and that the handlers implement           *)
(* RequesterSlots.                                                          *)
(*                                                                         *)
(* The last two need to know of a step only what it does to the holders of  *)
(* slots: TrackingSteps sorts every step into four kinds, and what follows  *)
(* reasons about the kinds.                                                 *)
(***************************************************************************)
EXTENDS SlackInvestigations, FiniteSetTheorems, TLAPS

(* How many conversations the store holds is at most how many threads exist. *)
LEMMA StoreSize ==
  ASSUME DOMAIN store \subseteq Threads
  PROVE  Cardinality(DOMAIN store) \in 0 .. Cardinality(Threads)
<1>1. /\ IsFiniteSet(DOMAIN store)
      /\ Cardinality(DOMAIN store) <= Cardinality(Threads)
  BY ThreadsAssumption, FS_Subset
<1>2. Cardinality(DOMAIN store) \in Nat /\ Cardinality(Threads) \in Nat
  BY <1>1, ThreadsAssumption, FS_CardinalityType
<1> QED
  BY <1>1, <1>2

(* The goroutines and the cleanup loop are different actors. *)
LEMMA ActorsAreDistinct == Cleaner \in Actors /\ Cleaner \notin Goroutines
BY BoundsAssumption DEF Cleaner, Actors, Goroutines

(* A requester's key is made of a channel and a user. *)
LEMMA KeysAreTyped ==
  ASSUME NEW e \in EventType
  PROVE  InvestigationKey(e) \in Keys
BY DEF InvestigationKey, Keys, EventType

LEMMA InitTypeOK == Init => TypeOK
<1> SUFFICES ASSUME Init PROVE TypeOK
  OBVIOUS
<1>1. Cardinality(Threads) \in Nat
  BY ThreadsAssumption, FS_CardinalityType
<1>2. TrackingTypeOK
  BY BoundsAssumption, ActorsAreDistinct
     DEF Init, TrackingTypeOK, Actors, Goroutines, GoroutinePCs, CleanerPCs
<1>3. StoreTypeOK
  BY BoundsAssumption DEF Init, Fresh, NewConversation, StoreTypeOK
<1>4. MetricsTypeOK
  BY <1>1 DEF Init, Fresh, MetricsTypeOK
<1>5. FilesTypeOK
  BY DEF Init, Fresh, FilesTypeOK
<1> QED
  BY <1>2, <1>3, <1>4, <1>5 DEF TypeOK

-----------------------------------------------------------------------------
(* Every step keeps the types: first what it does to the tracking variables. *)

(* A started goroutine, or the cleanup loop, may go to any place of its own. *)
LEMMA GotoTypeOK ==
  ASSUME TrackingTypeOK, NEW a \in Actors, NEW label, Goto(a, label),
         IF a = Cleaner THEN label \in CleanerPCs
         ELSE pc[a] # "idle" /\ label \in GoroutinePCs \ {"idle"},
         UNCHANGED <<event, delivered, restarts>>, active' \subseteq Keys
  PROVE  TrackingTypeOK'
BY ActorsAreDistinct DEF TrackingTypeOK, Goto, Actors

(* A step that moves one actor and leaves the tracker alone. *)
Moves(a, places) ==
  /\ \E label \in places : Goto(a, label)
  /\ UNCHANGED tracking

LEMMA MovesTypeOK ==
  ASSUME TrackingTypeOK,
         \/ \E g \in Goroutines : pc[g] # "idle" /\ Moves(g, GoroutinePCs \ {"idle"})
         \/ Moves(Cleaner, CleanerPCs)
  PROVE  TrackingTypeOK'
<1>1. active' \subseteq Keys /\ UNCHANGED <<event, delivered, restarts>>
  BY DEF Moves, tracking, TrackingTypeOK
<1>2. CASE \E g \in Goroutines : pc[g] # "idle" /\ Moves(g, GoroutinePCs \ {"idle"})
  <2>1. PICK g \in Goroutines, label \in GoroutinePCs \ {"idle"} : pc[g] # "idle" /\ Goto(g, label)
    BY <1>2 DEF Moves
  <2>2. g \in Actors /\ g # Cleaner
    BY ActorsAreDistinct DEF Actors
  <2> QED
    BY <1>1, <2>1, <2>2, GotoTypeOK
<1>3. CASE Moves(Cleaner, CleanerPCs)
  BY <1>1, <1>3, GotoTypeOK, ActorsAreDistinct DEF Moves
<1> QED
  BY <1>2, <1>3

-----------------------------------------------------------------------------
(* The kinds of steps, as far as the tracking variables go.                  *)

(* Every handler keeps the slot it has, or goes on without one. *)
Stays ==
  /\ UNCHANGED tracking
  /\ \/ UNCHANGED pc
     \/ Moves(Cleaner, CleanerPCs)
     \/ \E g \in Goroutines :
          /\ pc[g] # "idle"
          /\ \/ pc[g] \in Held /\ Moves(g, Held)
             \/ pc[g] \notin Held /\ Moves(g, {"reply", "done"})

(* TryStart succeeds. *)
Acquires(g) ==
  /\ pc[g] \in {"new", "reply"}
  /\ InvestigationKey(event[g]) \notin active
  /\ active' = active \cup {InvestigationKey(event[g])}
  /\ \E label \in Held : Goto(g, label)
  /\ UNCHANGED <<event, delivered, restarts>>

Releases(g) ==
  /\ pc[g] = "release"
  /\ active' = active \ {InvestigationKey(event[g])}
  /\ Goto(g, "done")
  /\ UNCHANGED <<event, delivered, restarts>>

TrackingStep ==
  \/ Stays
  \/ \E g \in Goroutines : Acquires(g) \/ Releases(g)
  \/ \E e \in Events : Deliver(e)
  \/ Restart

(* TryStart claims the requester's key, or the handler ends. *)
LEMMA TryStartSteps ==
  ASSUME NEW g \in Goroutines, pc[g] \in {"new", "reply"},
         NEW started \in Held, TryStart(g, started),
         UNCHANGED <<event, delivered, restarts>>
  PROVE  TrackingStep
<1>1. CASE InvestigationKey(event[g]) \in active
  <2>1. Moves(g, {"reply", "done"})
    BY <1>1 DEF TryStart, Moves, tracking
  <2> QED
    BY <2>1 DEF TrackingStep, Stays, Moves, Held
<1>2. CASE InvestigationKey(event[g]) \notin active
  BY <1>2 DEF TryStart, TrackingStep, Acquires
<1> QED
  BY <1>1, <1>2

LEMMA HandleSteps ==
  ASSUME NEW g \in Goroutines, Handle(g) \/ GenerateReport(g) \/ Panic(g)
  PROVE  TrackingStep
<1> USE DEF TrackingStep, Stays, Moves, Held
<1>1. CASE HandleAppMention(g)
  <2>1. CASE Goto(g, "done") /\ UNCHANGED active
    BY <1>1, <2>1 DEF HandleAppMention, tracking
  <2>2. CASE \E started \in {"lookup", "match"} : TryStart(g, started)
    BY <1>1, <2>2, TryStartSteps DEF HandleAppMention
  <2> QED
    BY <1>1, <2>1, <2>2 DEF HandleAppMention
<1>2. CASE HandleMessage(g)
  BY <1>2 DEF HandleMessage
<1>3. CASE EnterThreadReply(g)
  BY <1>3, TryStartSteps DEF EnterThreadReply
<1>4. CASE StartInvestigation(g)
  BY <1>4 DEF StartInvestigation
<1>5. CASE SyncCount(g)
  BY <1>5 DEF SyncCount
<1>6. CASE SyncSet(g)
  BY <1>6, ActorsAreDistinct DEF SyncSet
<1>7. CASE HandleThreadReply(g)
  BY <1>7 DEF HandleThreadReply
<1>8. CASE HandlePDFCommand(g)
  BY <1>8 DEF HandlePDFCommand
<1>9. CASE BeginRun(g)
  BY <1>9 DEF BeginRun
<1>10. CASE RunInvestigation(g)
  BY <1>10 DEF RunInvestigation
<1>11. CASE SendFormattedMessage(g)
  BY <1>11 DEF SendFormattedMessage
<1>12. CASE ScanForPDFs(g)
  BY <1>12 DEF ScanForPDFs
<1>13. CASE UploadFile(g)
  BY <1>13 DEF UploadFile
<1>14. CASE RemoveUploaded(g)
  BY <1>14 DEF RemoveUploaded
<1>15. CASE Complete(g)
  BY <1>15 DEF Complete
<1>16. CASE Done(g)
  BY <1>16 DEF Done, Releases
<1>17. CASE GenerateReport(g)
  BY <1>17 DEF GenerateReport, GeneratePDF
<1>18. CASE Panic(g)
  BY <1>18 DEF Panic
<1> QED
  BY <1>1, <1>2, <1>3, <1>4, <1>5, <1>6, <1>7, <1>8, <1>9, <1>10, <1>11, <1>12,
     <1>13, <1>14, <1>15, <1>16, <1>17, <1>18 DEF Handle

LEMMA TrackingSteps == [Next]_vars => TrackingStep
<1> SUFFICES ASSUME [Next]_vars PROVE TrackingStep
  OBVIOUS
<1>1. CASE UNCHANGED vars
  BY <1>1 DEF vars, TrackingStep, Stays, tracking
<1>2. CASE \E g \in Goroutines : Handle(g) \/ GenerateReport(g) \/ Panic(g)
  BY <1>2, HandleSteps
<1>3. CASE GenerateOverMCP
  BY <1>3 DEF GenerateOverMCP, GeneratePDF, TrackingStep, Stays
<1>4. CASE Cleanup
  <2>1. UNCHANGED tracking /\ (UNCHANGED pc \/ Moves(Cleaner, CleanerPCs))
    BY <1>4 DEF Cleanup, RunCleanup, SyncCount, SyncSet, CleanupOldFiles, StatOldFile,
                RemoveOldFile, FailToRemoveOldFile, AfterOldFile, EndCleanup, Moves, CleanerPCs
  <2> QED
    BY <2>1 DEF TrackingStep, Stays
<1>5. CASE Tick
  BY <1>5 DEF Tick, TrackingStep, Stays
<1>6. CASE (\E e \in Events : Deliver(e)) \/ Restart
  BY <1>6 DEF TrackingStep
<1> QED
  BY <1>1, <1>2, <1>3, <1>4, <1>5, <1>6 DEF Next, Operate

LEMMA NextTrackingTypeOK == TrackingTypeOK /\ [Next]_vars => TrackingTypeOK'
<1> SUFFICES ASSUME TrackingTypeOK, TrackingStep PROVE TrackingTypeOK'
  BY TrackingSteps
<1>1. CASE Stays
  <2>1. CASE UNCHANGED pc
    BY <1>1, <2>1 DEF Stays, tracking, TrackingTypeOK
  <2>2. CASE ~UNCHANGED pc
    BY <1>1, <2>2, MovesTypeOK DEF Stays, Moves, Held, GoroutinePCs
  <2> QED
    BY <2>1, <2>2
<1>2. ASSUME NEW g \in Goroutines, Acquires(g)
      PROVE  TrackingTypeOK'
  <2>1. g \in Actors /\ g # Cleaner /\ pc[g] # "idle"
    BY <1>2, ActorsAreDistinct DEF Actors, Acquires
  <2>2. active' \subseteq Keys
    BY <1>2, <2>1, KeysAreTyped DEF Acquires, TrackingTypeOK
  <2> QED
    BY <1>2, <2>1, <2>2, GotoTypeOK DEF Acquires, Held, GoroutinePCs
<1>3. ASSUME NEW g \in Goroutines, Releases(g)
      PROVE  TrackingTypeOK'
  <2>1. g \in Actors /\ g # Cleaner /\ pc[g] # "idle"
    BY <1>3, ActorsAreDistinct DEF Actors, Releases
  <2>2. active' \subseteq Keys
    BY <1>3 DEF Releases, TrackingTypeOK
  <2> QED
    BY <1>3, <2>1, <2>2, GotoTypeOK DEF Releases, Held, GoroutinePCs
<1>4. ASSUME NEW e \in Events, Deliver(e)
      PROVE  TrackingTypeOK'
  BY <1>4, ActorsAreDistinct, EventsAssumption, BoundsAssumption
     DEF TrackingTypeOK, Deliver, Goto, Actors, Goroutines, GoroutinePCs
<1>5. CASE Restart
  BY <1>5, ActorsAreDistinct, BoundsAssumption
     DEF TrackingTypeOK, Restart, Actors, GoroutinePCs, CleanerPCs
<1> QED
  BY <1>1, <1>2, <1>3, <1>4, <1>5 DEF TrackingStep

-----------------------------------------------------------------------------
(* Then what it does to the conversations, the metrics and the files.        *)

LEMMA NextStoreTypeOK == TypeOK /\ [Next]_vars => StoreTypeOK'
<1> SUFFICES ASSUME TypeOK, [Next]_vars PROVE StoreTypeOK'
  OBVIOUS
<1> USE DEF StoreTypeOK
<1>0. CASE UNCHANGED storing
  BY <1>0 DEF storing, TypeOK
<1>1. ASSUME NEW g \in Goroutines, StartInvestigation(g)
      PROVE  StoreTypeOK'
  <2>1. event[g].thread \in Threads
    BY <1>1 DEF TypeOK, TrackingTypeOK, StartInvestigation, EventType
  <2>2. CASE CreateConversation(g) /\ UNCHANGED pdf
    <3>1. DOMAIN store' \subseteq Threads /\ store' \in [DOMAIN store' -> Goroutines]
      BY <2>1, <2>2 DEF TypeOK, CreateConversation, Put
    <3>2. conv' \in [Goroutines -> [pdf : BOOLEAN, age : 0 .. Expiry + 1]]
      BY <2>2, BoundsAssumption DEF TypeOK, CreateConversation, NewConversation
    <3> QED
      BY <2>2, <3>1, <3>2 DEF TypeOK, CreateConversation
  <2> QED
    BY <1>0, <1>1, <2>2 DEF StartInvestigation, storing
<1>2. ASSUME NEW g \in Goroutines, HandleThreadReply(g)
      PROVE  StoreTypeOK'
  BY <1>2 DEF TypeOK, HandleThreadReply
<1>3. ASSUME NEW g \in Goroutines, HandlePDFCommand(g)
      PROVE  StoreTypeOK'
  <2>1. conv' \in [Goroutines -> [pdf : BOOLEAN, age : 0 .. Expiry + 1]]
    <3>1. CASE event[g].thread \in DOMAIN store
      <4> DEFINE c == store[event[g].thread]
      <4>1. [pdf |-> event[g].text = "enable_pdf", age |-> 0] \in [pdf : BOOLEAN, age : 0 .. Expiry + 1]
        BY BoundsAssumption
      <4>2. conv' = [conv EXCEPT ![c] = [pdf |-> event[g].text = "enable_pdf", age |-> 0]]
        BY <1>3, <3>1 DEF HandlePDFCommand, SetPDFEnabled
      <4> QED
        BY <4>1, <4>2 DEF TypeOK
    <3>2. CASE event[g].thread \notin DOMAIN store
      BY <1>3, <3>2 DEF TypeOK, HandlePDFCommand, SetPDFEnabled
    <3> QED
      BY <3>1, <3>2
  <2> QED
    BY <1>3, <2>1 DEF TypeOK, HandlePDFCommand
<1>4. ASSUME NEW g \in Goroutines, BeginRun(g)
      PROVE  StoreTypeOK'
  BY <1>4, SwitchAssumption DEF TypeOK, BeginRun, PdfEnabledFor
<1>5. ASSUME NEW g \in Goroutines, Done(g)
      PROVE  StoreTypeOK'
  BY <1>5 DEF TypeOK, Done
<1>6. CASE RunCleanup
  BY <1>6 DEF TypeOK, RunCleanup, Drop, Restrict
<1>7. CASE Tick
  <2>1. conv' \in [Goroutines -> [pdf : BOOLEAN, age : 0 .. Expiry + 1]]
    BY <1>7, BoundsAssumption DEF TypeOK, Tick, Older
  <2> QED
    BY <1>7, <2>1 DEF TypeOK, Tick
<1>8. CASE Restart
  BY <1>8, BoundsAssumption DEF TypeOK, Restart, Fresh, NewConversation
<1>9. \/ UNCHANGED storing \/ RunCleanup \/ Tick \/ Restart
      \/ \E g \in Goroutines : \/ StartInvestigation(g) \/ HandleThreadReply(g)
                               \/ HandlePDFCommand(g) \/ BeginRun(g) \/ Done(g)
  BY DEF Next, Operate, Handle, Cleanup, vars, storing, Deliver, HandleAppMention, HandleMessage,
         EnterThreadReply, SyncCount, SyncSet, RunInvestigation, SendFormattedMessage,
         ScanForPDFs, UploadFile, RemoveUploaded, Complete, GenerateReport, GenerateOverMCP,
         GeneratePDF, Panic, CleanupOldFiles, StatOldFile, RemoveOldFile, FailToRemoveOldFile, AfterOldFile, EndCleanup
<1> QED
  BY <1>0, <1>1, <1>2, <1>3, <1>4, <1>5, <1>6, <1>7, <1>8, <1>9

LEMMA NextMetricsTypeOK == TypeOK /\ [Next]_vars => MetricsTypeOK'
<1> SUFFICES ASSUME TypeOK, [Next]_vars PROVE MetricsTypeOK'
  OBVIOUS
<1> USE DEF MetricsTypeOK
<1>1. Cardinality(DOMAIN store) \in 0 .. Cardinality(Threads)
  BY StoreSize DEF TypeOK, StoreTypeOK
<1>2. 0 \in 0 .. Cardinality(Threads)
  BY <1>1, ThreadsAssumption, FS_CardinalityType
<1>3. CASE UNCHANGED metrics
  BY <1>3 DEF metrics, TypeOK
<1>4. ASSUME NEW a \in Actors, SyncCount(a)
      PROVE  MetricsTypeOK'
  BY <1>1, <1>4 DEF TypeOK, SyncCount
<1>5. ASSUME NEW a \in Actors, SyncSet(a)
      PROVE  MetricsTypeOK'
  BY <1>2, <1>5 DEF TypeOK, SyncSet
<1>6. ASSUME NEW g \in Goroutines, Done(g)
      PROVE  MetricsTypeOK'
  BY <1>2, <1>6 DEF TypeOK, Done
<1>7. CASE Restart
  BY <1>2, <1>7 DEF Restart, Fresh
<1>8. \/ UNCHANGED metrics \/ Restart
      \/ \E a \in Actors : SyncCount(a) \/ SyncSet(a)
      \/ \E g \in Goroutines : Done(g)
  BY ActorsAreDistinct
     DEF Actors, Next, Operate, Handle, Cleanup, vars, metrics, Deliver, HandleAppMention,
         HandleMessage, EnterThreadReply, StartInvestigation, HandleThreadReply,
         HandlePDFCommand, BeginRun, RunInvestigation, SendFormattedMessage,
         ScanForPDFs, UploadFile, RemoveUploaded, Complete, GenerateReport, GenerateOverMCP,
         GeneratePDF, Panic, RunCleanup, CleanupOldFiles, StatOldFile,
         RemoveOldFile, FailToRemoveOldFile, AfterOldFile, EndCleanup, Tick
<1> QED
  BY <1>3, <1>4, <1>5, <1>6, <1>7, <1>8

LEMMA NextFilesTypeOK == TypeOK /\ [Next]_vars => FilesTypeOK'
<1> SUFFICES ASSUME TypeOK, [Next]_vars PROVE FilesTypeOK'
  OBVIOUS
<1> USE DEF FilesTypeOK
<1>1. CASE UNCHANGED files
  BY <1>1 DEF files, TypeOK
<1>2. ASSUME NEW f \in Files, NEW owner \in Threads \cup {McpCaller}, GeneratePDF(f, owner)
      PROVE  FilesTypeOK'
  BY <1>2, BoundsAssumption DEF TypeOK, GeneratePDF, Put
<1>3. ASSUME NEW g \in Goroutines, GenerateReport(g)
      PROVE  FilesTypeOK'
  <2>1. event[g].thread \in Threads
    BY <1>3 DEF TypeOK, TrackingTypeOK, GenerateReport, EventType
  <2> QED
    BY <1>2, <1>3, <2>1 DEF GenerateReport
<1>4. CASE GenerateOverMCP
  BY <1>2, <1>4 DEF GenerateOverMCP
<1>5. ASSUME NEW g \in Goroutines, ScanForPDFs(g)
      PROVE  FilesTypeOK'
  BY <1>5 DEF TypeOK, ScanForPDFs
<1>6. ASSUME NEW a \in Actors,
             UNCHANGED tmp,
             \/ UNCHANGED current
             \/ \E f \in Files \cup {NoFile} : current' = [current EXCEPT ![a] = f],
             \E S \in SUBSET Files : found' = [found EXCEPT ![a] = S]
      PROVE  FilesTypeOK'
  BY <1>6 DEF TypeOK
<1>7. ASSUME NEW g \in Goroutines, UploadFile(g)
      PROVE  FilesTypeOK'
  <2>1. \E f \in found[g] : found' = [found EXCEPT ![g] = found[g] \ {f}]
    BY <1>7 DEF UploadFile
  <2>2. found[g] \subseteq Files
    BY DEF Actors, TypeOK
  <2>3. UNCHANGED tmp /\ (UNCHANGED current \/ \E f \in Files : current' = [current EXCEPT ![g] = f])
    BY <1>7, <2>2 DEF UploadFile
  <2> QED
    BY <1>6, <2>1, <2>2, <2>3 DEF Actors
<1>8. CASE StatOldFile
  <2>1. \E f \in found[Cleaner] : found' = [found EXCEPT ![Cleaner] = found[Cleaner] \ {f}]
    BY <1>8 DEF StatOldFile
  <2>2. found[Cleaner] \subseteq Files
    BY ActorsAreDistinct DEF TypeOK
  <2>3. /\ UNCHANGED tmp
        /\ UNCHANGED current \/ \E f \in Files : current' = [current EXCEPT ![Cleaner] = f]
    BY <1>8, <2>2 DEF StatOldFile
  <2> QED
    BY <1>6, <2>1, <2>2, <2>3, ActorsAreDistinct
<1>9. ASSUME NEW a \in Actors, tmp' \in {Drop(tmp, {current[a]}), tmp}, UNCHANGED found,
             current' = [current EXCEPT ![a] = NoFile]
      PROVE  FilesTypeOK'
  BY <1>9 DEF TypeOK, Drop, Restrict
<1>10. ASSUME NEW g \in Goroutines, RemoveUploaded(g)
       PROVE  FilesTypeOK'
  BY <1>9, <1>10 DEF RemoveUploaded, Actors
<1>11. CASE RemoveOldFile \/ FailToRemoveOldFile
  BY <1>9, <1>11, ActorsAreDistinct DEF RemoveOldFile, FailToRemoveOldFile, AfterOldFile
<1>12. CASE CleanupOldFiles
  BY <1>12 DEF TypeOK, CleanupOldFiles
<1>13. ASSUME NEW g \in Goroutines, Done(g)
       PROVE  FilesTypeOK'
  BY <1>13 DEF TypeOK, Done
<1>14. CASE Tick
  <2>1. \A f \in DOMAIN tmp : /\ tmp[f].age \in 0 .. Retention + 1
                              /\ tmp[f].owner \in Threads \cup {McpCaller}
                              /\ DOMAIN tmp[f] = {"owner", "age"}
    BY DEF TypeOK
  <2>2. tmp' \in [DOMAIN tmp -> [owner : Threads \cup {McpCaller}, age : 0 .. Retention + 1]]
    BY <1>14, BoundsAssumption DEF TypeOK, Tick, Older
  <2> QED
    BY <1>14, <2>2 DEF TypeOK, Tick
<1>15. CASE Restart
  BY <1>15 DEF TypeOK, Restart, Fresh
<1>16. \/ UNCHANGED files \/ GenerateOverMCP \/ StatOldFile \/ RemoveOldFile
       \/ FailToRemoveOldFile \/ CleanupOldFiles \/ Tick \/ Restart
       \/ \E g \in Goroutines : \/ GenerateReport(g) \/ ScanForPDFs(g) \/ UploadFile(g)
                                \/ RemoveUploaded(g) \/ Done(g)
  BY DEF Next, Operate, Handle, Cleanup, vars, files, Deliver, HandleAppMention,
         HandleMessage, EnterThreadReply, StartInvestigation, SyncCount, SyncSet,
         HandleThreadReply, HandlePDFCommand, BeginRun, RunInvestigation,
         SendFormattedMessage, Complete, Panic, RunCleanup, EndCleanup
<1> QED
  BY <1>1, <1>3, <1>4, <1>5, <1>7, <1>8, <1>10, <1>11, <1>12, <1>13, <1>14, <1>15, <1>16

LEMMA NextTypeOK == TypeOK /\ [Next]_vars => TypeOK'
BY NextTrackingTypeOK, NextStoreTypeOK, NextMetricsTypeOK, NextFilesTypeOK DEF TypeOK

(* Every variable keeps its type, a goroutine that has started has an event  *)
(* to handle, and no stale count ever lifts the gauge above the threads.     *)
THEOREM TypeCorrect == Spec => []TypeOK
BY InitTypeOK, NextTypeOK, PTL DEF Spec

-----------------------------------------------------------------------------
(* The holders of slots. OneRunPerRequester is inductive once the types are  *)
(* known: it says that the map of active keys is the image of the holders    *)
(* and that no two holders share a key, and neither half is kept without the *)
(* other. TryStart needs the first (a key that is not in the map belongs to  *)
(* nobody), Done the second (deleting the key frees nobody else's).          *)

Inv == TypeOK /\ OneRunPerRequester

LEMMA StaysHolders ==
  ASSUME TrackingTypeOK, Stays
  PROVE  Holders' = Holders /\ UNCHANGED <<event, active>>
<1>1. UNCHANGED <<event, active>>
  BY DEF Stays, tracking
<1>2. CASE UNCHANGED pc
  BY <1>1, <1>2 DEF Holders
<1>3. CASE Moves(Cleaner, CleanerPCs)
  BY <1>1, <1>3, ActorsAreDistinct DEF Holders, Moves, Goto, TrackingTypeOK, Actors
<1>4. CASE \E g \in Goroutines :
             \/ pc[g] \in Held /\ Moves(g, Held)
             \/ pc[g] \notin Held /\ Moves(g, {"reply", "done"})
  BY <1>1, <1>4, ActorsAreDistinct DEF Holders, Moves, Goto, TrackingTypeOK, Actors, Held
<1> QED
  BY <1>1, <1>2, <1>3, <1>4 DEF Stays

LEMMA AcquiresHolders ==
  ASSUME TrackingTypeOK, NEW g \in Goroutines, Acquires(g)
  PROVE  /\ g \notin Holders /\ Holders' = Holders \cup {g}
         /\ event' = event /\ event[g] \in EventType
BY DEF Acquires, Holders, Goto, TrackingTypeOK, Actors, Held

LEMMA ReleasesHolders ==
  ASSUME TrackingTypeOK, NEW g \in Goroutines, Releases(g)
  PROVE  /\ g \in Holders /\ Holders' = Holders \ {g}
         /\ event' = event /\ event[g] \in EventType
BY DEF Releases, Holders, Goto, TrackingTypeOK, Actors, Held

LEMMA DeliverHolders ==
  ASSUME TrackingTypeOK, NEW e \in Events, Deliver(e)
  PROVE  /\ Holders' = Holders /\ active' = active
         /\ \A g \in Holders : event'[g] = event[g]
<1> DEFINE n == delivered + 1
<1>1. n \in Goroutines /\ pc[n] = "idle" /\ event' = [event EXCEPT ![n] = e]
  BY BoundsAssumption DEF Deliver, TrackingTypeOK, Goroutines
<1>2. pc' = [pc EXCEPT ![n] = "new"] /\ active' = active
  BY DEF Deliver, Goto
<1> HIDE DEF n
<1> QED
  BY <1>1, <1>2 DEF Holders, TrackingTypeOK, Actors, Held

LEMMA RestartHolders ==
  ASSUME Restart
  PROVE  Holders' = {} /\ active' = {}
BY ActorsAreDistinct DEF Restart, Holders, Held, Actors

LEMMA NextOneRun ==
  ASSUME Inv, [Next]_vars
  PROVE  OneRunPerRequester'
<1>1. TrackingTypeOK /\ TrackingStep
  BY TrackingSteps DEF Inv, TypeOK
<1>2. CASE Stays
  BY <1>1, <1>2, StaysHolders DEF Inv, OneRunPerRequester, InvestigationKey
<1>3. ASSUME NEW g \in Goroutines, Acquires(g)
      PROVE  OneRunPerRequester'
  <2>1. /\ InvestigationKey(event[g]) \notin active
        /\ active' = active \cup {InvestigationKey(event[g])}
    BY <1>3 DEF Acquires
  <2> QED
    BY <1>1, <1>3, <2>1, AcquiresHolders DEF Inv, OneRunPerRequester
<1>4. ASSUME NEW g \in Goroutines, Releases(g)
      PROVE  OneRunPerRequester'
  <2>1. active' = active \ {InvestigationKey(event[g])}
    BY <1>4 DEF Releases
  <2> QED
    BY <1>1, <1>4, <2>1, ReleasesHolders DEF Inv, OneRunPerRequester
<1>5. ASSUME NEW e \in Events, Deliver(e)
      PROVE  OneRunPerRequester'
  BY <1>1, <1>5, DeliverHolders DEF Inv, OneRunPerRequester, InvestigationKey
<1>6. CASE Restart
  BY <1>6, RestartHolders DEF OneRunPerRequester
<1> QED
  BY <1>1, <1>2, <1>3, <1>4, <1>5, <1>6 DEF TrackingStep

LEMMA InitInv == Init => Inv
<1> SUFFICES ASSUME Init PROVE OneRunPerRequester
  BY InitTypeOK DEF Inv
<1>1. Holders = {} /\ active = {}
  BY ActorsAreDistinct DEF Init, Holders, Held, Actors
<1> QED
  BY <1>1 DEF OneRunPerRequester

LEMMA NextInv == Inv /\ [Next]_vars => Inv'
BY NextTypeOK, NextOneRun DEF Inv

THEOREM InvHolds == Spec => []Inv
BY InitInv, NextInv, PTL DEF Spec

(* Whatever the events, panics, errors and restarts, no two handlers work   *)
(* for the same requester, and the tracker's map holds a key exactly while  *)
(* somebody works for it: none is stranded, none is freed by another.        *)
THEOREM OneRun == Spec => []OneRunPerRequester
<1>1. Inv => OneRunPerRequester
  BY DEF Inv
<1> QED
  BY <1>1, InvHolds, PTL

-----------------------------------------------------------------------------
(* The handlers implement RequesterSlots.                                    *)

slots == {<<InvestigationKey(event[g]), g>> : g \in Holders}

LEMMA StepImplementsSlots ==
  ASSUME Inv, [Next]_vars
  PROVE  [Slots!Next]_slots
<1>1. TrackingTypeOK /\ TrackingStep
  BY TrackingSteps DEF Inv, TypeOK
<1>2. CASE Stays
  <2>1. slots' = slots
    BY <1>1, <1>2, StaysHolders DEF slots, InvestigationKey
  <2> QED
    BY <2>1
<1>3. ASSUME NEW g \in Goroutines, Acquires(g)
      PROVE  Slots!Next
  <2> DEFINE k == InvestigationKey(event[g])
  <2>1. g \notin Holders /\ Holders' = Holders \cup {g} /\ event' = event /\ k \in Keys
    BY <1>1, <1>3, AcquiresHolders, KeysAreTyped
  <2>2. k \notin active
    BY <1>3 DEF Acquires
  <2>3. \A slot \in slots : slot[1] # k /\ slot[2] # g
    BY <2>1, <2>2 DEF slots, Inv, OneRunPerRequester
  <2>4. slots' = slots \cup {<<k, g>>}
    BY <2>1 DEF slots
  <2> HIDE DEF k
  <2> QED
    BY <2>1, <2>3, <2>4 DEF Slots!Next, Slots!Acquire, slots
<1>4. ASSUME NEW g \in Goroutines, Releases(g)
      PROVE  Slots!Next
  <2> DEFINE k == InvestigationKey(event[g])
  <2>1. g \in Holders /\ Holders' = Holders \ {g} /\ event' = event /\ k \in Keys
    BY <1>1, <1>4, ReleasesHolders, KeysAreTyped
  <2>2. slots' = slots \ {<<k, g>>} /\ <<k, g>> \in slots
    BY <2>1 DEF slots
  <2> HIDE DEF k
  <2> QED
    BY <2>1, <2>2 DEF Slots!Next, Slots!Release, slots
<1>5. ASSUME NEW e \in Events, Deliver(e)
      PROVE  slots' = slots
  BY <1>1, <1>5, DeliverHolders DEF slots, InvestigationKey
<1>6. CASE Restart
  <2>1. slots' = {}
    BY <1>6, RestartHolders DEF slots
  <2> QED
    BY <2>1 DEF Slots!Next, Slots!Reset, slots
<1> QED
  BY <1>1, <1>2, <1>3, <1>4, <1>5, <1>6 DEF TrackingStep

(* What the bot promises of an investigation: every behaviour of the         *)
(* handlers, the tracker and restarts is one of the abstract slots.           *)
THEOREM SlotsRefinement == Spec => ImplementsSlots
<1>1. Init => Slots!Init
  <2>1. Init => Holders = {}
    BY ActorsAreDistinct DEF Init, Holders, Held, Actors
  <2> QED
    BY <2>1 DEF Slots!Init
<1>2. Inv /\ [Next]_vars => [Slots!Next]_slots
  BY StepImplementsSlots
<1> QED
  BY <1>1, <1>2, InvHolds, PTL DEF Spec, ImplementsSlots, Slots!Spec, slots
=============================================================================
