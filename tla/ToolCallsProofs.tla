--------------------------- MODULE ToolCallsProofs ----------------------------
(***************************************************************************)
(* Proofs about the two parts of McpServer whose calls change something     *)
(* outside: DashboardEdits and ApiClient.                                   *)
(*                                                                         *)
(* Dashboards: for any number of handlers, dashboards, parts, values and    *)
(* folders, what a Grafana write reports is what happened, and an edit of a *)
(* dashboard that nobody touched since it was read changes what it names    *)
(* only. The argument ties each call to the one request it has under way: a *)
(* write is only ever sent for an operation that writes, once, and its      *)
(* answer says whether it took effect. What outlives the call is a write    *)
(* whose call gave up, and that call reported a failure.                    *)
(*                                                                         *)
(* Third-party APIs: for any files, calls and parameters, every slot in use *)
(* is a call's, and with one file for each API what is sent is what was     *)
(* checked. What is delicate is how a name is resolved: the first endpoint  *)
(* whose tool has that name, the last file of its API's name, the first     *)
(* endpoint of its own name in that file. The lemmas say what each finds.   *)
(***************************************************************************)
EXTENDS McpServer, SequenceTheorems, FiniteSetTheorems, WellFoundedInduction, TLAPS

-----------------------------------------------------------------------------
(* Dashboards: the inductive invariant.                                       *)

Board == [versions : Seq(Boards!Bodies), folder : Folders \cup {Boards!None}]

Wire ==
  [state : {"quiet"}] \cup
  [state : {"request"}, op : Operations, does : {"read", "write"}, base : Board] \cup
  [state : {"answer"}, op : Operations, does : {"read", "write"}, base : Board,
   ok : BOOLEAN]

EditCall ==
  [at : {"idle"}] \cup
  [at : {"waiting"}, op : Operations, effects : Nat] \cup
  [at : {"done"}, ok : BOOLEAN, writes : BOOLEAN, effects : Nat, logged : BOOLEAN]

BoardsTyped ==
  /\ outside \in 0 .. MaxOutside
  /\ boards \in [Uids -> Board]
  /\ wire \in [Workers -> Wire]
  /\ edits \in [Workers -> EditCall]

(* A request is of the kind its operation asks for, and what was read before  *)
(* a write was there.                                                         *)
RequestFits(w) ==
  w.state # "quiet" =>
    /\ w.does = "read" => Boards!Execute(w.op).reads
    /\ w.does = "write" => Boards!Execute(w.op).writes
    /\ Boards!ReadsFirst(w.op) /\ (w.does = "write" \/ (w.state = "answer" /\ w.ok)) =>
         w.base.versions # <<>>

(* A call that waits has one request under way and its effect is that of the  *)
(* answer; one that is over may have left a write behind, if it failed.       *)
WaitsForIt(c, w) ==
  c.at = "waiting" =>
    /\ w.state # "quiet" /\ w.op = c.op
    /\ w.state = "answer" /\ w.does = "write" /\ w.ok => c.effects = 1
    /\ ~(w.state = "answer" /\ w.does = "write" /\ w.ok) => c.effects = 0

ToldTheTruth(c, w) ==
  c.at = "done" =>
    /\ c.effects <= 1
    /\ c.logged => c.effects = 1
    /\ c.ok /\ c.writes => c.logged
    /\ ~c.writes => c.effects = 0
    /\ w.state # "quiet" => /\ w.state = "request" /\ w.does = "write"
                            /\ c.effects = 0 /\ c.writes /\ ~c.ok /\ ~c.logged

HandlerOK(c, w) ==
  /\ c.at = "idle" => w.state = "quiet"
  /\ RequestFits(w) /\ WaitsForIt(c, w) /\ ToldTheTruth(c, w)

BoardsInv == BoardsTyped /\ \A h \in Workers : HandlerOK(edits[h], wire[h])

-----------------------------------------------------------------------------
(* What each operation does.                                                 *)

LEMMA BoardConstants ==
  /\ Operations \subseteq Boards!AnyOperation /\ First \in Boards!Bodies
  /\ MaxOutside \in Nat
  BY PartsAssumption DEF Boards!ConstantsOK

LEMMA StepsAre ==
  ASSUME NEW reads \in BOOLEAN, NEW writes \in BOOLEAN
  PROVE  /\ Boards!Steps(reads, writes).reads = reads
         /\ Boards!Steps(reads, writes).writes = writes
  BY DEF Boards!Steps

LEMMA Executes ==
  ASSUME NEW op \in Operations
  PROVE  /\ Boards!Execute(op).reads \in BOOLEAN /\ Boards!Execute(op).writes \in BOOLEAN
         /\ Boards!ReadsFirst(op) <=>
              op.kind = "patch" \/ (op.kind = "update" /\ op.folder = Boards!None)
         /\ Boards!ReadsOnly(op) \in BOOLEAN
         /\ Boards!ReadsOnly(op) <=> ~Boards!Execute(op).writes
         /\ Boards!Execute(op).writes \/ Boards!Execute(op).reads
         /\ ~Boards!Execute(op).reads => Boards!Execute(op).writes
         /\ Boards!Execute(op).writes <=>
              op.kind \in {"create", "update", "patch", "restore", "delete", "folder"}
         /\ op.kind \in {"list", "get", "version", "versions", "create", "update", "patch",
                         "restore", "delete", "folder"}
  <1>. DEFINE named == op.folder = Boards!None
  <1>1. op \in Boards!AnyOperation
    BY BoardConstants
  <1>2. op.kind \in {"list", "get", "version", "versions", "create", "update", "patch",
                     "restore", "delete", "folder"}
    BY <1>1 DEF Boards!AnyOperation
  <1>3. named \in BOOLEAN
    OBVIOUS
  <1>4. op.kind = "update" => Boards!Execute(op) = Boards!Steps(named, TRUE)
    BY DEF Boards!Execute, Boards!executeGrafanaUpdateDashboard
  <1>. HIDE DEF named
  <1>5. CASE op.kind = "update"
    <2>1. Boards!Execute(op).reads = named /\ Boards!Execute(op).writes = TRUE
      BY <1>3, <1>4, <1>5, StepsAre
    <2>2. named <=> op.folder = Boards!None
      BY DEF named
    <2>. QED  BY <1>3, <1>5, <2>1, <2>2 DEF Boards!ReadsFirst, Boards!ReadsOnly
  <1>6. CASE op.kind # "update"
    <2>1. Boards!Execute(op) =
            IF op.kind \in {"list", "get", "version", "versions"}
            THEN Boards!Steps(TRUE, FALSE)
            ELSE IF op.kind = "patch" THEN Boards!Steps(TRUE, TRUE)
            ELSE Boards!Steps(FALSE, TRUE)
      BY <1>2, <1>6
         DEF Boards!Execute, Boards!executeGrafanaListDashboards,
             Boards!executeGrafanaGetDashboard, Boards!executeGrafanaGetDashboardVersion,
             Boards!executeGrafanaRestoreDashboardVersion,
             Boards!executeGrafanaCreateDashboard, Boards!executeGrafanaPatchDashboard,
             Boards!executeGrafanaCreateFolder, Boards!executeGrafanaDeleteDashboard
    <2>. QED  BY <1>2, <1>6, <2>1, StepsAre DEF Boards!ReadsFirst, Boards!ReadsOnly
  <1>. QED  BY <1>5, <1>6

LEMMA ReadsAre ==
  ASSUME NEW op \in Operations, Boards!Execute(op).reads
  PROVE  op.kind \notin {"create", "folder"}
  BY StepsAre DEF Boards!Execute, Boards!executeGrafanaCreateDashboard,
     Boards!executeGrafanaCreateFolder

LEMMA AbsentIs == Boards!Absent \in Board
  BY DEF Boards!Absent, Board

LEMMA SavedIs ==
  ASSUME NEW board \in Board, NEW body \in Boards!Bodies,
         NEW folder \in Folders \cup {Boards!None}
  PROVE  /\ Boards!Saved(board, body, folder) \in Board
         /\ Boards!Saved(board, body, folder).folder = folder
         /\ Boards!Body(Boards!Saved(board, body, folder)) = body
  <1>1. /\ Append(board.versions, body) \in Seq(Boards!Bodies)
        /\ Len(Append(board.versions, body)) = Len(board.versions) + 1
        /\ Append(board.versions, body)[Len(board.versions) + 1] = body
    BY AppendProperties DEF Board
  <1>. QED  BY <1>1 DEF Boards!Saved, Boards!Body, Board

LEMMA BodyIs ==
  ASSUME NEW board \in Board, board.versions # <<>>
  PROVE  Boards!Body(board) \in Boards!Bodies
  <1>1. board.versions \in Seq(Boards!Bodies) /\ Len(board.versions) \in Nat \ {0}
    BY DEF Board
  <1>. QED  BY <1>1 DEF Boards!Body

(* A patch of a dashboard's parts names some of them and keeps the others.    *)
LEMMA PatchIs ==
  ASSUME NEW body \in Boards!Bodies, NEW edit \in Boards!Edits
  PROVE  /\ Boards!applyDashboardPatch(body, edit) \in Boards!Bodies
         /\ \A f \in Fields : Boards!applyDashboardPatch(body, edit)[f] =
              IF f \in DOMAIN edit THEN edit[f] ELSE body[f]
  <1>1. PICK part \in SUBSET Fields : edit \in [part -> Values]
    BY DEF Boards!Edits
  <1>2. body \in [Fields -> Values]
    BY DEF Boards!Bodies
  <1>3. DOMAIN body \cup DOMAIN edit = Fields
    BY <1>1, <1>2
  <1>. QED  BY <1>1, <1>2, <1>3 DEF Boards!applyDashboardPatch, Boards!Bodies

-----------------------------------------------------------------------------
(* The steps of a call.                                                      *)

(* A step moves one call and its request.                                     *)
LEMMA OneMoves ==
  ASSUME BoardsInv, NEW h \in Workers, NEW c \in EditCall, NEW w \in Wire,
         edits' = [edits EXCEPT ![h] = c], wire' = [wire EXCEPT ![h] = w],
         HandlerOK(c, w), boards' \in [Uids -> Board], outside' \in 0 .. MaxOutside
  PROVE  BoardsInv'
  <1>1. edits' \in [Workers -> EditCall] /\ wire' \in [Workers -> Wire]
    BY DEF BoardsInv, BoardsTyped
  <1>2. edits'[h] = c /\ wire'[h] = w
    BY DEF BoardsInv, BoardsTyped
  <1>3. ASSUME NEW x \in Workers PROVE HandlerOK(edits'[x], wire'[x])
    <2>1. CASE x = h
      BY <1>2, <2>1
    <2>2. CASE x # h
      <3>1. edits'[x] = edits[x] /\ wire'[x] = wire[x]
        BY <2>2 DEF BoardsInv, BoardsTyped
      <3>. QED  BY <3>1 DEF BoardsInv
    <2>. QED  BY <2>1, <2>2
  <1>. QED  BY <1>1, <1>3 DEF BoardsInv, BoardsTyped

LEMMA Whose ==
  ASSUME BoardsInv, NEW h \in Workers
  PROVE  /\ edits[h] \in EditCall /\ wire[h] \in Wire /\ HandlerOK(edits[h], wire[h])
         /\ boards \in [Uids -> Board] /\ outside \in 0 .. MaxOutside
         /\ wire = [wire EXCEPT ![h] = wire[h]] /\ edits = [edits EXCEPT ![h] = edits[h]]
  BY DEF BoardsInv, BoardsTyped

LEMMA QuietIs == Boards!Quiet \in Wire /\ Boards!Quiet.state = "quiet"
  BY DEF Boards!Quiet, Wire

LEMMA CallStep ==
  ASSUME BoardsInv, NEW h \in Workers, NEW op \in Operations, Boards!Call(h, op)
  PROVE  BoardsInv'
  <1>. DEFINE does == IF Boards!Execute(op).reads THEN "read" ELSE "write"
              c == [at |-> "waiting", op |-> op, effects |-> 0]
              w == [state |-> "request", op |-> op, base |-> Boards!Absent, does |-> does]
  <1>1. /\ edits' = [edits EXCEPT ![h] = c] /\ wire' = [wire EXCEPT ![h] = w]
        /\ UNCHANGED <<boards, outside>>
    BY DEF Boards!Call
  <1>2. /\ does \in {"read", "write"}
        /\ does = "read" => Boards!Execute(op).reads
        /\ does = "write" => Boards!Execute(op).writes /\ ~Boards!Execute(op).reads
    BY Executes
  <1>3. does = "write" => ~Boards!ReadsFirst(op)
    BY <1>2 DEF Boards!ReadsFirst
  <1>. HIDE DEF does
  <1>4. c \in EditCall /\ c.at = "waiting" /\ c.op = op /\ c.effects = 0
    BY DEF EditCall
  <1>5. w \in Wire /\ w.state = "request" /\ w.op = op /\ w.does = does
    BY <1>2, AbsentIs DEF Wire
  <1>. HIDE DEF c, w
  <1>6. HandlerOK(c, w)
    BY <1>2, <1>3, <1>4, <1>5 DEF HandlerOK, RequestFits, WaitsForIt, ToldTheTruth
  <1>. QED  BY <1>1, <1>4, <1>5, <1>6, Whose, OneMoves

(* A call that ends says what its answer said.                                *)
LEMMA Finished ==
  ASSUME BoardsInv, NEW h \in Workers, edits[h].at = "waiting", NEW told \in BOOLEAN,
         Boards!Finish(h, edits[h].op, told), NEW w \in Wire,
         wire' = [wire EXCEPT ![h] = w], UNCHANGED <<boards, outside>>,
         RequestFits(w),
         \/ w.state = "quiet"
         \/ w.state = "request" /\ w.does = "write" /\ w = wire[h],
         \/ /\ wire[h].state = "answer" /\ told = wire[h].ok
            /\ ~(wire[h].does = "read" /\ Boards!ReadsFirst(edits[h].op))
            /\ w.state = "quiet"
         \/ ~told /\ (edits[h].effects = 1 => Boards!Execute(edits[h].op).writes)
  PROVE  BoardsInv'
  <1>. DEFINE op == edits[h].op
              writes == ~Boards!ReadsOnly(op)
              logged == told /\ writes
              c == [at |-> "done", ok |-> told, writes |-> writes,
                    effects |-> edits[h].effects, logged |-> logged]
  <1>1. /\ edits[h] \in EditCall /\ HandlerOK(edits[h], wire[h]) /\ wire[h] \in Wire
        /\ boards \in [Uids -> Board] /\ outside \in 0 .. MaxOutside
    BY Whose
  <1>2. op \in Operations /\ edits[h].effects \in {0, 1}
    BY <1>1 DEF EditCall, HandlerOK, WaitsForIt
  <1>3. writes \in BOOLEAN /\ (writes <=> Boards!Execute(op).writes)
    BY <1>2, Executes
  <1>4. edits' = [edits EXCEPT ![h] = c]
    BY DEF Boards!Finish, BoardsInv, BoardsTyped
  <1>. HIDE DEF writes
  <1>5. logged \in BOOLEAN /\ (logged <=> told /\ writes)
    BY <1>3
  <1>. HIDE DEF logged
  <1>6. /\ c \in EditCall /\ c.at = "done" /\ c.ok = told /\ c.writes = writes
        /\ c.effects = edits[h].effects /\ c.logged = logged
    BY <1>2, <1>3, <1>5 DEF EditCall
  <1>. HIDE DEF c
  <1>7. edits[h].effects = 1 => writes
    BY <1>1, <1>2, <1>3 DEF HandlerOK, RequestFits, WaitsForIt
  <1>8. told => /\ wire[h].state = "answer" /\ wire[h].ok
                /\ writes => wire[h].does = "write"
    <2>1. told => /\ wire[h].state = "answer" /\ wire[h].ok
                  /\ ~(wire[h].does = "read" /\ Boards!ReadsFirst(op))
      OBVIOUS
    <2>2. wire[h].state = "answer" => /\ wire[h].op = op /\ wire[h].does \in {"read", "write"}
                                      /\ wire[h].does = "read" => Boards!Execute(op).reads
      BY <1>1 DEF HandlerOK, RequestFits, WaitsForIt, Wire
    <2>. QED  BY <1>3, <2>1, <2>2 DEF Boards!ReadsFirst
  <1>9. told /\ writes => edits[h].effects = 1
    BY <1>1, <1>8 DEF HandlerOK, WaitsForIt
  <1>10. w.state # "quiet" => ~told /\ edits[h].effects = 0 /\ writes
    BY <1>1, <1>3 DEF HandlerOK, RequestFits, WaitsForIt
  <1>11. ToldTheTruth(c, w)
    BY <1>2, <1>3, <1>5, <1>6, <1>7, <1>9, <1>10 DEF ToldTheTruth
  <1>12. HandlerOK(c, w)
    BY <1>6, <1>11 DEF HandlerOK, WaitsForIt
  <1>. QED  BY <1>1, <1>4, <1>6, <1>12, OneMoves

LEMMA HearStep ==
  ASSUME BoardsInv, NEW h \in Workers, Boards!Hear(h)
  PROVE  BoardsInv'
  <1>. DEFINE op == edits[h].op
  <1>1. /\ edits[h].at = "waiting" /\ wire[h].state = "answer" /\ UNCHANGED <<boards, outside>>
    BY DEF Boards!Hear
  <1>2. /\ edits[h] \in EditCall /\ HandlerOK(edits[h], wire[h]) /\ wire[h] \in Wire
    BY Whose
  <1>3. wire[h].op = op /\ op \in Operations /\ wire[h].ok \in BOOLEAN /\ wire[h].base \in Board
    BY <1>1, <1>2 DEF EditCall, HandlerOK, WaitsForIt, Wire
  <1>4. CASE wire[h].ok /\ wire[h].does = "read" /\ Boards!ReadsFirst(op)
    <2>. DEFINE w == [state |-> "request", op |-> op, base |-> wire[h].base, does |-> "write"]
    <2>1. wire' = [wire EXCEPT ![h] = w] /\ UNCHANGED edits
      BY <1>4 DEF Boards!Hear
    <2>2. /\ w \in Wire /\ w.state = "request" /\ w.op = op /\ w.base = wire[h].base
          /\ w.does = "write"
      BY <1>3 DEF Wire
    <2>. HIDE DEF w
    <2>3. HandlerOK(edits[h], w)
      BY <1>1, <1>2, <1>3, <1>4, <2>2
         DEF HandlerOK, RequestFits, WaitsForIt, ToldTheTruth, Boards!ReadsFirst
    <2>4. edits' = [edits EXCEPT ![h] = edits[h]]
      BY <2>1, Whose
    <2>. QED  BY <1>1, <1>2, <2>1, <2>2, <2>3, <2>4, Whose, OneMoves
  <1>5. CASE ~(wire[h].ok /\ wire[h].does = "read" /\ Boards!ReadsFirst(op))
    <2>. DEFINE w == Boards!Quiet
    <2>1. /\ Boards!Finish(h, op, wire[h].ok) /\ wire' = [wire EXCEPT ![h] = w]
      BY <1>5 DEF Boards!Hear
    <2>2. w \in Wire /\ w.state = "quiet"
      BY QuietIs
    <2>. HIDE DEF w
    <2>3. RequestFits(w)
      BY <2>2 DEF RequestFits
    <2>4. CASE wire[h].does = "read" /\ Boards!ReadsFirst(op)
      <3>1. ~wire[h].ok /\ (edits[h].effects = 1 => Boards!Execute(op).writes)
        BY <1>5, <2>4 DEF Boards!ReadsFirst
      <3>. QED  BY <1>1, <1>3, <2>1, <2>2, <2>3, <3>1, Finished
    <2>5. CASE ~(wire[h].does = "read" /\ Boards!ReadsFirst(op))
      BY <1>1, <1>3, <2>1, <2>2, <2>3, <2>5, Finished
    <2>. QED  BY <2>4, <2>5
  <1>. QED  BY <1>4, <1>5

LEMMA PatchFailsStep ==
  ASSUME BoardsInv, NEW h \in Workers, Boards!PatchFails(h)
  PROVE  BoardsInv'
  <1>. DEFINE w == Boards!Quiet
  <1>1. /\ edits[h].at = "waiting" /\ wire[h].state = "answer" /\ wire[h].does = "read"
        /\ Boards!Finish(h, edits[h].op, FALSE)
        /\ wire' = [wire EXCEPT ![h] = w] /\ UNCHANGED <<boards, outside>>
    BY DEF Boards!PatchFails
  <1>2. edits[h].effects = 1 => Boards!Execute(edits[h].op).writes
    BY <1>1, Whose DEF HandlerOK, WaitsForIt
  <1>3. w \in Wire /\ w.state = "quiet"
    BY QuietIs
  <1>. HIDE DEF w
  <1>4. RequestFits(w)
    BY <1>3 DEF RequestFits
  <1>. QED  BY <1>1, <1>2, <1>3, <1>4, Finished

LEMMA FailStep ==
  ASSUME BoardsInv, NEW h \in Workers, Boards!Fail(h)
  PROVE  BoardsInv'
  <1>. DEFINE w == IF wire[h].state = "request" /\ wire[h].does = "write" THEN wire[h]
                   ELSE Boards!Quiet
  <1>1. /\ edits[h].at = "waiting" /\ Boards!Finish(h, edits[h].op, FALSE)
        /\ wire' = [wire EXCEPT ![h] = w] /\ UNCHANGED <<boards, outside>>
    BY DEF Boards!Fail
  <1>2. /\ HandlerOK(edits[h], wire[h]) /\ wire[h] \in Wire
    BY Whose
  <1>3. edits[h].effects = 1 => Boards!Execute(edits[h].op).writes
    BY <1>1, <1>2 DEF HandlerOK, RequestFits, WaitsForIt
  <1>4. /\ w \in Wire
        /\ \/ w.state = "quiet"
           \/ w.state = "request" /\ w.does = "write" /\ w = wire[h]
    BY <1>2, QuietIs
  <1>. HIDE DEF w
  <1>5. RequestFits(w)
    BY <1>2, <1>4 DEF HandlerOK, RequestFits
  <1>. QED  BY <1>1, <1>3, <1>4, <1>5, Finished

-----------------------------------------------------------------------------
(* Grafana's side.                                                           *)

(* What Grafana answers goes to the call that waits for it, or nowhere.       *)
LEMMA AnswerIs ==
  ASSUME BoardsInv, NEW h \in Workers, NEW told \in BOOLEAN, NEW base \in Board,
         wire[h].state = "request", Boards!Answer(h, told, base)
  PROVE  \E w \in Wire :
           /\ wire' = [wire EXCEPT ![h] = w]
           /\ edits[h].at # "waiting" => w.state = "quiet"
           /\ edits[h].at = "waiting" =>
                /\ w.state = "answer" /\ w.op = wire[h].op /\ w.does = wire[h].does
                /\ w.ok = told /\ w.base = base
  <1>1. wire[h] \in Wire
    BY Whose
  <1>2. CASE edits[h].at = "waiting"
    <2>. DEFINE w == [state |-> "answer", op |-> wire[h].op, does |-> wire[h].does,
                      ok |-> told, base |-> base]
    <2>1. wire' = [wire EXCEPT ![h] = w]
      BY <1>2 DEF Boards!Answer
    <2>2. w \in Wire
      BY <1>1 DEF Wire
    <2>. QED  BY <1>2, <2>1, <2>2
  <1>3. CASE edits[h].at # "waiting"
    <2>1. wire' = [wire EXCEPT ![h] = Boards!Quiet]
      BY <1>3 DEF Boards!Answer
    <2>. QED  BY <1>3, <2>1, QuietIs
  <1>. QED  BY <1>2, <1>3

LEMMA ServeReadStep ==
  ASSUME BoardsInv, NEW h \in Workers, Boards!ServeRead(h)
  PROVE  BoardsInv'
  <1>. DEFINE op == wire[h].op
  <1>1. /\ wire[h].state = "request" /\ wire[h].does = "read"
        /\ UNCHANGED <<boards, outside, edits>>
    BY DEF Boards!ServeRead
  <1>2. /\ edits[h] \in EditCall /\ HandlerOK(edits[h], wire[h]) /\ wire[h] \in Wire
        /\ boards \in [Uids -> Board] /\ edits' = [edits EXCEPT ![h] = edits[h]]
    BY <1>1, Whose
  <1>3. op \in Operations /\ op \in Boards!AnyOperation
    BY <1>1, <1>2, BoardConstants DEF Wire
  <1>4. edits[h].at = "waiting"
    BY <1>1, <1>2 DEF HandlerOK, ToldTheTruth, EditCall
  <1>5. PICK told \in BOOLEAN, base \in Board :
          /\ Boards!Answer(h, told, base)
          /\ Boards!ReadsFirst(op) /\ told => base.versions # <<>>
    <2>1. CASE op.kind \in {"list", "versions", "version"}
      <3>1. ~Boards!ReadsFirst(op)
        BY <1>3, <2>1, Executes
      <3>. DEFINE there == boards[op.uid].versions # <<>>
                  old == op.version <= Len(boards[op.uid].versions)
      <3>2. there \in BOOLEAN /\ old \in BOOLEAN
        OBVIOUS
      <3>3. \/ Boards!Answer(h, TRUE, Boards!Absent) \/ Boards!Answer(h, there, Boards!Absent)
            \/ Boards!Answer(h, old, Boards!Absent)
        BY <2>1 DEF Boards!ServeRead, Boards!ListDashboards, Boards!ListDashboardVersions,
           Boards!GetDashboardVersion, Boards!There
      <3>. HIDE DEF there, old
      <3>. QED  BY <3>1, <3>2, <3>3, AbsentIs
    <2>2. CASE op.kind \notin {"list", "versions", "version"}
      <3>. DEFINE there == boards[op.uid].versions # <<>>
      <3>1. Boards!Answer(h, there, boards[op.uid])
        BY <2>2 DEF Boards!ServeRead, Boards!GetDashboard, Boards!There
      <3>2. op.uid \in Uids
        <4>1. Boards!Execute(op).reads
          BY <1>1, <1>2 DEF HandlerOK, RequestFits
        <4>2. op.kind \notin {"create", "folder"}
          BY <1>3, <4>1, ReadsAre
        <4>. QED  BY <1>3, <2>2, <4>2 DEF Boards!AnyOperation
      <3>3. there \in BOOLEAN /\ boards[op.uid] \in Board
            /\ (there => boards[op.uid].versions # <<>>)
        BY <1>2, <3>2
      <3>. HIDE DEF there
      <3>. QED  BY <3>1, <3>3
    <2>. QED  BY <2>1, <2>2
  <1>6. PICK w \in Wire :
          /\ wire' = [wire EXCEPT ![h] = w]
          /\ w.state = "answer" /\ w.op = op /\ w.does = "read" /\ w.ok = told /\ w.base = base
    BY <1>1, <1>4, <1>5, AnswerIs
  <1>7. HandlerOK(edits[h], w)
    BY <1>1, <1>2, <1>4, <1>5, <1>6 DEF HandlerOK, RequestFits, WaitsForIt, ToldTheTruth
  <1>. QED  BY <1>1, <1>2, <1>6, <1>7, Whose, OneMoves

(* The dashboards a write leaves behind.                                      *)
LEMMA ResultsAre ==
  ASSUME BoardsInv, NEW h \in Workers, wire[h].state = "request", wire[h].does = "write",
         NEW result \in Boards!Results(wire[h])
  PROVE  /\ result \in [Uids -> Board]
         /\ LET op == wire[h].op
                before == boards[op.uid]
                after == result[op.uid] IN
            /\ op.kind \in {"update", "patch"} =>
                 /\ after.folder = Boards!FolderToSave(wire[h])
                 /\ Boards!Body(after) = Boards!BodyToSave(wire[h])
                 /\ op.kind = "patch" => \A f \in Fields :
                      Boards!Body(after)[f] = IF f \in DOMAIN op.edit THEN op.edit[f]
                                              ELSE Boards!Body(wire[h].base)[f]
            /\ op.kind = "restore" => after.folder = before.folder
  <1>. DEFINE op == wire[h].op
              before == boards[op.uid]
              after == result[op.uid]
  <1>1. /\ wire[h] \in Wire /\ boards \in [Uids -> Board] /\ RequestFits(wire[h])
    BY Whose DEF HandlerOK
  <1>2. op \in Operations /\ op \in Boards!AnyOperation /\ wire[h].base \in Board
    BY <1>1, BoardConstants DEF Wire
  <1>3. op.kind \in {"create", "update", "patch", "restore", "delete", "folder"}
    BY <1>1, <1>2, Executes DEF RequestFits
  <1>4. CASE op.kind = "create"
    <2>1. PICK u \in Uids :
            result = [boards EXCEPT ![u] = Boards!Saved(Boards!Absent, op.body, op.folder)]
      BY <1>4 DEF Boards!Results, Boards!CreateDashboard
    <2>2. op.body \in Boards!Bodies /\ op.folder \in Folders \cup {Boards!None}
      BY <1>2, <1>4 DEF Boards!AnyOperation
    <2>3. Boards!Saved(Boards!Absent, op.body, op.folder) \in Board
      BY <2>2, AbsentIs, SavedIs
    <2>. QED  BY <1>1, <1>4, <2>1, <2>3
  <1>5. CASE op.kind \in {"update", "patch"}
    <2>. DEFINE body == Boards!BodyToSave(wire[h])
                folder == Boards!FolderToSave(wire[h])
    <2>1. result = [boards EXCEPT ![op.uid] = Boards!Saved(before, body, folder)]
      BY <1>5 DEF Boards!Results, Boards!UpdateDashboard
    <2>2. op.uid \in Uids /\ before \in Board
      BY <1>1, <1>2, <1>5 DEF Boards!AnyOperation
    <2>3. CASE op.kind = "patch"
      <3>1. op.edit \in Boards!Edits
        BY <1>2, <2>3 DEF Boards!AnyOperation
      <3>2. wire[h].base.versions # <<>>
        BY <1>1, <1>2, <2>3, Executes DEF RequestFits
      <3>3. Boards!Body(wire[h].base) \in Boards!Bodies
        BY <1>2, <3>2, BodyIs
      <3>4. body = Boards!applyDashboardPatch(Boards!Body(wire[h].base), op.edit)
        BY <2>3 DEF Boards!BodyToSave
      <3>5. /\ body \in Boards!Bodies
            /\ \A f \in Fields : body[f] = IF f \in DOMAIN op.edit THEN op.edit[f]
                                           ELSE Boards!Body(wire[h].base)[f]
        BY <3>1, <3>3, <3>4, PatchIs
      <3>6. folder \in Folders \cup {Boards!None}
        BY <1>2, <2>3, Executes DEF Boards!FolderToSave, Board
      <3>. HIDE DEF body, folder
      <3>7. /\ Boards!Saved(before, body, folder) \in Board
            /\ Boards!Saved(before, body, folder).folder = folder
            /\ Boards!Body(Boards!Saved(before, body, folder)) = body
        BY <2>2, <3>5, <3>6, SavedIs
      <3>8. result \in [Uids -> Board] /\ after = Boards!Saved(before, body, folder)
        BY <1>1, <2>1, <2>2, <3>7
      <3>9. after.folder = folder /\ Boards!Body(after) = body
        BY <3>7, <3>8
      <3>. HIDE DEF after
      <3>10. \A f \in Fields : Boards!Body(after)[f] =
               IF f \in DOMAIN op.edit THEN op.edit[f] ELSE Boards!Body(wire[h].base)[f]
        BY <3>5, <3>9
      <3>. QED  BY <2>3, <3>8, <3>9, <3>10 DEF body, folder, after
    <2>4. CASE op.kind = "update"
      <3>1. body = op.body /\ body \in Boards!Bodies
        BY <1>2, <2>4 DEF Boards!BodyToSave, Boards!AnyOperation
      <3>2. folder \in Folders \cup {Boards!None}
        BY <1>2, <2>4 DEF Boards!FolderToSave, Board, Boards!AnyOperation
      <3>. HIDE DEF body, folder
      <3>3. /\ Boards!Saved(before, body, folder) \in Board
            /\ Boards!Saved(before, body, folder).folder = folder
            /\ Boards!Body(Boards!Saved(before, body, folder)) = body
        BY <2>2, <3>1, <3>2, SavedIs
      <3>4. result \in [Uids -> Board] /\ after = Boards!Saved(before, body, folder)
        BY <1>1, <2>1, <2>2, <3>3
      <3>. QED  BY <2>4, <3>3, <3>4 DEF body, folder
    <2>. QED  BY <1>5, <2>3, <2>4
  <1>6. CASE op.kind = "restore"
    <2>1. op.uid \in Uids /\ before \in Board
      BY <1>1, <1>2, <1>6 DEF Boards!AnyOperation
    <2>2. PICK v \in DOMAIN before.versions :
            result = [boards EXCEPT ![op.uid] =
                        Boards!Saved(before, before.versions[v], before.folder)]
      BY <1>6 DEF Boards!Results, Boards!RestoreDashboardVersion
    <2>3. before.versions[v] \in Boards!Bodies /\ before.folder \in Folders \cup {Boards!None}
      BY <2>1, <2>2 DEF Board
    <2>4. /\ Boards!Saved(before, before.versions[v], before.folder) \in Board
          /\ Boards!Saved(before, before.versions[v], before.folder).folder = before.folder
      BY <2>1, <2>3, SavedIs
    <2>5. /\ result \in [Uids -> Board]
          /\ after = Boards!Saved(before, before.versions[v], before.folder)
      BY <1>1, <2>1, <2>2, <2>4
    <2>. QED  BY <1>6, <2>4, <2>5
  <1>7. CASE op.kind = "delete"
    <2>1. result = [boards EXCEPT ![op.uid] = Boards!Absent]
      BY <1>7 DEF Boards!Results, Boards!DeleteDashboard
    <2>. QED  BY <1>1, <1>7, <2>1, AbsentIs
  <1>8. CASE op.kind = "folder"
    <2>1. result = boards
      BY <1>8 DEF Boards!Results, Boards!CreateFolder
    <2>. QED  BY <1>1, <1>8, <2>1
  <1>. QED  BY <1>3, <1>4, <1>5, <1>6, <1>7, <1>8

LEMMA ServeWriteStep ==
  ASSUME BoardsInv, NEW h \in Workers, Boards!ServeWrite(h)
  PROVE  BoardsInv'
  <1>1. wire[h].state = "request" /\ wire[h].does = "write" /\ UNCHANGED outside
    BY DEF Boards!ServeWrite
  <1>2. /\ edits[h] \in EditCall /\ HandlerOK(edits[h], wire[h]) /\ wire[h] \in Wire
        /\ boards \in [Uids -> Board] /\ edits = [edits EXCEPT ![h] = edits[h]]
        /\ outside \in 0 .. MaxOutside
    BY Whose
  <1>3. wire[h].base \in Board
    BY <1>1, <1>2 DEF Wire
  <1>4. edits[h].at \in {"waiting", "done"} /\ edits[h].effects = 0
    BY <1>1, <1>2 DEF HandlerOK, WaitsForIt, ToldTheTruth, EditCall
  <1>5. CASE /\ boards' \in Boards!Results(wire[h])
             /\ edits' = [edits EXCEPT ![h].effects = @ + 1]
             /\ Boards!Answer(h, TRUE, wire[h].base)
    <2>. DEFINE c == [edits[h] EXCEPT !.effects = @ + 1]
    <2>1. boards' \in [Uids -> Board]
      BY <1>1, <1>5, ResultsAre
    <2>2. edits' = [edits EXCEPT ![h] = c]
      BY <1>5 DEF BoardsInv, BoardsTyped
    <2>3. PICK w \in Wire :
            /\ wire' = [wire EXCEPT ![h] = w]
            /\ edits[h].at # "waiting" => w.state = "quiet"
            /\ edits[h].at = "waiting" =>
                 /\ w.state = "answer" /\ w.op = wire[h].op /\ w.does = wire[h].does
                 /\ w.ok = TRUE /\ w.base = wire[h].base
      BY <1>1, <1>3, <1>5, AnswerIs
    <2>4. CASE edits[h].at = "waiting"
      <3>1. c \in EditCall /\ c.at = "waiting" /\ c.op = edits[h].op /\ c.effects = 1
        BY <1>2, <1>4, <2>4 DEF EditCall
      <3>. HIDE DEF c
      <3>2. HandlerOK(c, w)
        BY <1>1, <1>2, <2>3, <2>4, <3>1
           DEF HandlerOK, RequestFits, WaitsForIt, ToldTheTruth
      <3>. QED  BY <1>1, <1>2, <2>1, <2>2, <2>3, <3>1, <3>2, OneMoves
    <2>5. CASE edits[h].at = "done"
      <3>1. /\ c \in EditCall /\ c.at = "done" /\ c.effects = 1 /\ c.ok = edits[h].ok
            /\ c.writes = edits[h].writes /\ c.logged = edits[h].logged
        BY <1>2, <1>4, <2>5 DEF EditCall
      <3>. HIDE DEF c
      <3>2. HandlerOK(c, w)
        BY <1>1, <1>2, <2>3, <2>5, <3>1
           DEF HandlerOK, RequestFits, WaitsForIt, ToldTheTruth
      <3>. QED  BY <1>1, <1>2, <2>1, <2>2, <2>3, <3>1, <3>2, OneMoves
    <2>. QED  BY <1>4, <2>4, <2>5
  <1>6. CASE Boards!Answer(h, FALSE, wire[h].base) /\ UNCHANGED <<boards, edits>>
    <2>1. PICK w \in Wire :
            /\ wire' = [wire EXCEPT ![h] = w]
            /\ edits[h].at # "waiting" => w.state = "quiet"
            /\ edits[h].at = "waiting" =>
                 /\ w.state = "answer" /\ w.op = wire[h].op /\ w.does = wire[h].does
                 /\ w.ok = FALSE /\ w.base = wire[h].base
      BY <1>1, <1>3, <1>6, AnswerIs
    <2>2. HandlerOK(edits[h], w)
      BY <1>1, <1>2, <1>4, <2>1 DEF HandlerOK, RequestFits, WaitsForIt, ToldTheTruth
    <2>. QED  BY <1>1, <1>2, <1>6, <2>1, <2>2, OneMoves
  <1>. QED  BY <1>5, <1>6 DEF Boards!ServeWrite

LEMMA OutsideStep ==
  ASSUME BoardsInv, NEW uid \in Uids, NEW body \in Boards!Bodies, NEW folder \in Folders,
         Boards!Outside(uid, body, folder)
  PROVE  BoardsInv'
  <1>1. /\ outside < MaxOutside /\ outside' = outside + 1
        /\ boards' = [boards EXCEPT ![uid] = Boards!Saved(boards[uid], body, folder)]
        /\ UNCHANGED <<wire, edits>>
    BY DEF Boards!Outside
  <1>2. Boards!Saved(boards[uid], body, folder) \in Board
    BY SavedIs DEF BoardsInv, BoardsTyped
  <1>3. BoardsTyped'
    BY <1>1, <1>2, BoardConstants DEF BoardsInv, BoardsTyped
  <1>. QED  BY <1>1, <1>3 DEF BoardsInv

LEMMA BoardsStart == ASSUME Boards!Init PROVE BoardsInv
  <1>1. PICK uid \in Uids, folder \in Folders :
          boards = [u \in Uids |-> IF u = uid
                                   THEN Boards!Saved(Boards!Absent, First, folder)
                                   ELSE Boards!Absent]
    BY DEF Boards!Init
  <1>2. boards \in [Uids -> Board]
    BY <1>1, AbsentIs, SavedIs, BoardConstants
  <1>3. /\ outside = 0 /\ wire = [h \in Workers |-> Boards!Quiet]
        /\ edits = [h \in Workers |-> [at |-> "idle"]]
    BY DEF Boards!Init
  <1>4. BoardsTyped
    BY <1>2, <1>3, QuietIs, BoardConstants DEF BoardsTyped, EditCall
  <1>5. ASSUME NEW h \in Workers PROVE HandlerOK(edits[h], wire[h])
    <2>1. edits[h].at = "idle" /\ wire[h].state = "quiet"
      BY <1>3, QuietIs
    <2>. QED  BY <2>1 DEF HandlerOK, RequestFits, WaitsForIt, ToldTheTruth
  <1>. QED  BY <1>4, <1>5 DEF BoardsInv

LEMMA BoardsStep == ASSUME BoardsInv, [Boards!Next]_(Boards!vars) PROVE BoardsInv'
  <1>1. CASE UNCHANGED Boards!vars
    BY <1>1 DEF Boards!vars, BoardsInv, BoardsTyped
  <1>. QED  BY <1>1, CallStep, HearStep, PatchFailsStep, FailStep, ServeReadStep,
               ServeWriteStep, OutsideStep DEF Boards!Next

-----------------------------------------------------------------------------
(* What follows of the server.                                               *)

(* A step of the server is a step of this part or leaves it alone.            *)
LEMMA BoardsMove == [Next]_vars => [Boards!Next]_(Boards!vars)
  BY DEF Next, vars, boardVars, Boards!vars

(* The invariant holds of every behaviour of the server.                      *)
THEOREM BoardsInvHolds == Spec => []BoardsInv
  <1>1. Init => BoardsInv
    BY BoardsStart DEF Init
  <1>2. BoardsInv /\ [Next]_vars => BoardsInv'
    BY BoardsStep, BoardsMove
  <1>. QED  BY <1>1, <1>2, PTL DEF Spec

(* A Grafana call that is reported and logged as done took effect once, and   *)
(* no call writes twice (mcp/server.go:1657-1990), whatever answers are lost  *)
(* and whatever is written after its caller gave up.                          *)
THEOREM WritesAreReported == Spec => []ReportsAreTrue
  <1>1. ASSUME BoardsInv PROVE ReportsAreTrue
    <2>1. ASSUME NEW h \in Workers
          PROVE  /\ edits[h].at # "idle" => edits[h].effects <= 1
                 /\ edits[h].at = "done" =>
                      /\ edits[h].logged => edits[h].effects = 1
                      /\ edits[h].ok /\ edits[h].writes => edits[h].logged
                      /\ ~edits[h].writes => edits[h].effects = 0
      BY <1>1, Whose DEF HandlerOK, WaitsForIt, ToldTheTruth, EditCall
    <2>. QED  BY <2>1 DEF ReportsAreTrue, Boards!ReportsAreTrue
  <1>. QED  BY <1>1, BoardsInvHolds, PTL

(* The types of the dashboards' state.                                        *)
THEOREM BoardsTypesHold == Spec => []Boards!TypeOK
  <1>1. BoardsInv => Boards!TypeOK
    BY DEF BoardsInv, BoardsTyped, Boards!TypeOK, Board, Wire, EditCall
  <1>. QED  BY <1>1, BoardsInvHolds, PTL

(* A call's effects are counted when its write is served.                     *)
LEMMA OnlyWritesCount ==
  ASSUME BoardsInv, NEW h \in Workers, wire[h].state = "request",
         edits'[h].effects # edits[h].effects, Boards!Next
  PROVE  boards' \in Boards!Results(wire[h])
  <1>1. ASSUME NEW g \in Workers, NEW op \in Operations, Boards!Call(g, op) PROVE FALSE
    <2>1. g # h
      BY <1>1, Whose DEF Boards!Call, HandlerOK
    <2>. QED  BY <1>1, <2>1 DEF Boards!Call, BoardsInv, BoardsTyped
  <1>2. ASSUME NEW g \in Workers, NEW op, NEW told, Boards!Finish(g, op, told) PROVE FALSE
    BY <1>2 DEF Boards!Finish, BoardsInv, BoardsTyped
  <1>3. ASSUME NEW g \in Workers, Boards!Hear(g) \/ Boards!PatchFails(g) \/ Boards!Fail(g)
        PROVE  FALSE
    BY <1>2, <1>3 DEF Boards!Hear, Boards!PatchFails, Boards!Fail
  <1>4. ASSUME NEW g \in Workers, Boards!ServeRead(g) PROVE FALSE
    BY <1>4 DEF Boards!ServeRead
  <1>5. ASSUME NEW g \in Workers, Boards!ServeWrite(g)
        PROVE  boards' \in Boards!Results(wire[h])
    <2>1. CASE g = h
      BY <1>5, <2>1 DEF Boards!ServeWrite
    <2>2. CASE g # h
      BY <1>5, <2>2 DEF Boards!ServeWrite, BoardsInv, BoardsTyped
    <2>. QED  BY <2>1, <2>2
  <1>6. ASSUME NEW uid \in Uids, NEW body \in Boards!Bodies, NEW folder \in Folders,
               Boards!Outside(uid, body, folder)
        PROVE  FALSE
    BY <1>6 DEF Boards!Outside
  <1>. QED  BY <1>1, <1>3, <1>4, <1>5, <1>6 DEF Boards!Next

(* An edit of a dashboard that nobody touched since it was read leaves alone  *)
(* what it does not name (mcp/grafana.go:476-483).                            *)
THEOREM EditsKeepWhatTheyDoNotName == Spec => EditsKeepTheRest
  <1>. DEFINE Keeps(h) ==
         LET request == wire[h]
             op == request.op
             before == boards[op.uid]
             after == boards'[op.uid] IN
         /\ request.state = "request" /\ request.does = "write"
         /\ edits'[h].effects # edits[h].effects
         /\ op.kind \in {"update", "patch", "restore"}
         /\ Boards!ReadsFirst(op) => before = request.base
         =>
         /\ op.kind # "update" \/ op.folder = Boards!None => after.folder = before.folder
         /\ op.kind = "patch" => \A f \in Fields :
              Boards!Body(after)[f] = IF f \in DOMAIN op.edit THEN op.edit[f]
                                      ELSE Boards!Body(before)[f]
  <1>1. ASSUME BoardsInv, [Boards!Next]_(Boards!vars)
        PROVE  [\A h \in Workers : Keeps(h)]_(Boards!vars)
    <2>1. SUFFICES ASSUME Boards!Next, NEW h \in Workers PROVE Keeps(h)
      BY <1>1
    <2>. DEFINE op == wire[h].op
                before == boards[op.uid]
                after == boards'[op.uid]
    <2>2. SUFFICES ASSUME wire[h].state = "request", wire[h].does = "write",
                          edits'[h].effects # edits[h].effects,
                          op.kind \in {"update", "patch", "restore"},
                          Boards!ReadsFirst(op) => before = wire[h].base
                   PROVE  /\ op.kind # "update" \/ op.folder = Boards!None =>
                               after.folder = before.folder
                          /\ op.kind = "patch" => \A f \in Fields :
                               Boards!Body(after)[f] = IF f \in DOMAIN op.edit THEN op.edit[f]
                                                       ELSE Boards!Body(before)[f]
      OBVIOUS
    <2>3. boards' \in Boards!Results(wire[h])
      BY <1>1, <2>1, <2>2, OnlyWritesCount
    <2>4. op \in Operations
      BY <1>1, <2>2, Whose DEF Wire
    <2>5. /\ op.kind \in {"update", "patch"} => after.folder = Boards!FolderToSave(wire[h])
          /\ op.kind = "patch" => \A f \in Fields :
               Boards!Body(after)[f] = IF f \in DOMAIN op.edit THEN op.edit[f]
                                       ELSE Boards!Body(wire[h].base)[f]
          /\ op.kind = "restore" => after.folder = before.folder
      BY <1>1, <2>2, <2>3, ResultsAre
    <2>6. op.kind = "patch" \/ (op.kind = "update" /\ op.folder = Boards!None) =>
            before = wire[h].base /\ Boards!FolderToSave(wire[h]) = wire[h].base.folder
      BY <2>2, <2>4, Executes DEF Boards!FolderToSave
    <2>. HIDE DEF op, before, after
    <2>. QED  BY <2>2, <2>5, <2>6
  <1>. QED
    BY <1>1, BoardsInvHolds, BoardsMove, PTL
       DEF Spec, EditsKeepTheRest, Boards!EditsKeepTheRest

-----------------------------------------------------------------------------
(* Third-party APIs: the inductive invariant.                                 *)

ApiUnderWay == {"queued", "asking", "pausing"}

(* A configuration as validateConfig admits and applyDefaults leaves it. *)
LoadedEndpoint ==
  [name : Seq(STRING), method : Api!Methods,
   required : SUBSET Params, placed : SUBSET Params, path : SUBSET Params]

LoadedConfig ==
  [name : Seq(STRING), endpoints : Seq(LoadedEndpoint), baseURL : BOOLEAN,
   parses : BOOLEAN, tokenSet : BOOLEAN,
   maxConcurrent : Nat \ {0}, maxRetries : Nat \ {0}, retryOn429 : BOOLEAN]

ApiCall ==
  [at : {"idle"}] \cup [at : {"done"}, ok : BOOLEAN] \cup
  [at : ApiUnderWay, tool : Seq(STRING), client : DOMAIN configs,
   endpoint : LoadedEndpoint, attempt : Nat]

Loaded ==
  /\ configs \in [DOMAIN configs -> LoadedConfig]
  /\ \E n \in Nat : DOMAIN configs \subseteq 1 .. n

ApiTyped ==
  /\ Loaded
  /\ inUse \in [DOMAIN configs -> Nat]
  /\ apiCalls \in [Workers -> ApiCall]

(* No call asks once more than its file allows: one that pauses has an        *)
(* attempt left.                                                             *)
AttemptsLeft ==
  \A c \in Workers :
    /\ apiCalls[c].at \in ApiUnderWay =>
         apiCalls[c].attempt <= configs[apiCalls[c].client].maxRetries
    /\ apiCalls[c].at = "pausing" =>
         apiCalls[c].attempt < configs[apiCalls[c].client].maxRetries

ApiInv == ApiTyped /\ Api!SlotsAreCalls /\ AttemptsLeft /\ Api!SentAsChecked

-----------------------------------------------------------------------------
(* What a name finds.                                                        *)

(* A set of numbers that has a member has a least one. *)
LEMMA LeastExists ==
  ASSUME NEW S \in SUBSET Nat, S # {}
  PROVE  Min(S) \in S /\ \A y \in S : Min(S) <= y
  <1>. DEFINE Below(x) == 1 .. x
              T == {Below(x) : x \in S}
  <1>1. T \subseteq FiniteSubsetsOf(Nat) /\ T # {}
    <2>1. \A x \in S : Below(x) \in SUBSET Nat /\ IsFiniteSet(Below(x))
      BY FS_Interval
    <2>. QED  BY <2>1 DEF FiniteSubsetsOf
  <1>2. PICK low \in T : \A t \in T : ~(<<t, low>> \in StrictSubsetOrdering(Nat))
    <2>. HIDE DEF T
    <2>. QED  BY <1>1, FS_StrictSubsetOrderingWellFounded, WFMin
  <1>3. PICK x \in S : low = Below(x)
    BY <1>2
  <1>4. ASSUME NEW y \in S PROVE x <= y
    <2>. SUFFICES ASSUME y < x PROVE FALSE
      OBVIOUS
    <2>1. Below(y) \in T /\ Below(y) \in SUBSET Nat /\ Below(x) \in SUBSET Nat
      OBVIOUS
    <2>2. Below(y) \subseteq Below(x) /\ Below(y) # Below(x)
      <3>1. x \in Below(x) /\ x \notin Below(y)
        OBVIOUS
      <3>. QED  BY <3>1
    <2>. HIDE DEF Below, T
    <2>3. <<Below(y), Below(x)>> \in StrictSubsetOrdering(Nat)
      BY <2>1, <2>2 DEF StrictSubsetOrdering
    <2>. QED  BY <1>2, <1>3, <2>1, <2>3
  <1>. QED  BY <1>4 DEF Min

(* A bounded one has a greatest. *)
LEMMA GreatestExists ==
  ASSUME NEW n \in Nat, NEW S \in SUBSET (1 .. n), S # {}
  PROVE  Max(S) \in S /\ \A y \in S : Max(S) >= y
  <1>. DEFINE T == {n - x : x \in S}
  <1>1. T \in SUBSET Nat /\ T # {}
    <2>1. \A x \in S : n - x \in Nat
      OBVIOUS
    <2>. QED  BY <2>1
  <1>2. Min(T) \in T /\ \A y \in T : Min(T) <= y
    BY <1>1, LeastExists
  <1>3. PICK x \in S : Min(T) = n - x
    BY <1>2
  <1>4. \A y \in S : x >= y
    <2>. SUFFICES ASSUME NEW y \in S PROVE x >= y
      OBVIOUS
    <2>1. n - x <= n - y
      BY <1>2, <1>3
    <2>2. x \in Nat /\ y \in Nat
      OBVIOUS
    <2>. HIDE DEF T
    <2>. QED  BY <2>1, <2>2
  <1>. QED  BY <1>4 DEF Max

LEMMA FilesAre ==
  ASSUME Loaded, NEW i \in DOMAIN configs
  PROVE  /\ i \in Nat
         /\ configs[i] \in LoadedConfig
         /\ configs[i].name \in Seq(STRING)
         /\ configs[i].endpoints \in Seq(LoadedEndpoint)
         /\ configs[i].maxConcurrent \in Nat \ {0}
         /\ configs[i].maxRetries \in Nat \ {0}
         /\ DOMAIN configs[i].endpoints = 1 .. Len(configs[i].endpoints)
  <1>1. PICK n \in Nat : DOMAIN configs \subseteq 1 .. n
    BY DEF Loaded
  <1>2. i \in Nat
    BY <1>1
  <1>3. configs[i] \in LoadedConfig
    BY DEF Loaded
  <1>4. configs[i].endpoints \in Seq(LoadedEndpoint)
    BY <1>3 DEF LoadedConfig
  <1>. QED  BY <1>2, <1>3, <1>4 DEF LoadedConfig

(* An endpoint of the registry is one of a loaded file, under its name. *)
LEMMA EndpointsAre ==
  ASSUME Loaded, NEW e \in Api!Endpoints
  PROVE  /\ e.config \in DOMAIN configs /\ e.config \in Nat
         /\ e.place \in DOMAIN configs[e.config].endpoints /\ e.place \in Nat
         /\ e.endpoint = configs[e.config].endpoints[e.place]
         /\ e.endpoint \in LoadedEndpoint
         /\ e.tool = configs[e.config].name \o e.endpoint.name
         /\ e.tool \in Seq(STRING)
         /\ e = [config |-> e.config, place |-> e.place, endpoint |-> e.endpoint,
                 tool |-> e.tool]
  <1>0. PICK i \in DOMAIN configs : e \in Api!EndpointsOf(i)
    BY DEF Api!Endpoints
  <1>1. PICK j \in DOMAIN configs[i].endpoints :
          e = [config |-> i, place |-> j, endpoint |-> configs[i].endpoints[j],
               tool |-> configs[i].name \o configs[i].endpoints[j].name]
    BY <1>0 DEF Api!EndpointsOf
  <1>3. /\ configs[i].endpoints \in Seq(LoadedEndpoint)
        /\ configs[i].name \in Seq(STRING)
        /\ DOMAIN configs[i].endpoints = 1 .. Len(configs[i].endpoints)
    BY FilesAre
  <1>4. /\ i \in Nat /\ j \in Nat
        /\ configs[i].endpoints[j] \in LoadedEndpoint
    BY <1>3, FilesAre
  <1>5. configs[i].endpoints[j].name \in Seq(STRING)
    BY <1>4 DEF LoadedEndpoint
  <1>6. configs[i].name \o configs[i].endpoints[j].name \in Seq(STRING)
    BY <1>3, <1>5
  <1>. QED  BY <1>1, <1>4, <1>6

(* And every endpoint of a loaded file is in the registry. *)
LEMMA EndpointsHave ==
  ASSUME Loaded, NEW i \in DOMAIN configs, NEW j \in DOMAIN configs[i].endpoints
  PROVE  [config |-> i, place |-> j, endpoint |-> configs[i].endpoints[j],
          tool |-> configs[i].name \o configs[i].endpoints[j].name] \in Api!Endpoints
  <1>1. Api!EndpointsOf(i) \subseteq Api!Endpoints
    BY DEF Api!Endpoints
  <1>. QED  BY <1>1 DEF Api!EndpointsOf

(* endpointFor finds the first endpoint of a tool's name. *)
LEMMA FirstIsFound ==
  ASSUME Loaded, NEW tool, Api!Called(tool) # {}
  PROVE  /\ Api!endpointFor(tool) \in Api!Called(tool)
         /\ \A f \in Api!Called(tool) : Api!NotAfter(Api!endpointFor(tool), f)
  <1>. DEFINE C == Api!Called(tool)
              files == {e.config : e \in C}
              here == {e \in C : e.config = Min(files)}
              places == {e.place : e \in here}
  <1>1. \A e \in C : e \in Api!Endpoints
    BY DEF Api!Called
  <1>2. \A e \in C : e.config \in Nat /\ e.place \in Nat
    BY <1>1, EndpointsAre
  <1>3. Min(files) \in files /\ \A y \in files : Min(files) <= y
    <2>1. files \in SUBSET Nat /\ files # {}
      BY <1>2
    <2>. HIDE DEF files
    <2>. QED  BY <2>1, LeastExists
  <1>4. Min(places) \in places /\ \A y \in places : Min(places) <= y
    <2>1. places \in SUBSET Nat /\ places # {}
      BY <1>2, <1>3
    <2>. HIDE DEF places
    <2>. QED  BY <2>1, LeastExists
  <1>5. PICK e \in here : e.place = Min(places)
    BY <1>4
  <1>6. \A f \in C : Api!NotAfter(e, f)
    <2>. SUFFICES ASSUME NEW f \in C PROVE Api!NotAfter(e, f)
      OBVIOUS
    <2>1. Min(files) <= f.config
      BY <1>3
    <2>2. f.config = Min(files) => Min(places) <= f.place
      BY <1>4
    <2>3. e.config = Min(files) /\ e.config \in Nat /\ f.config \in Nat
      BY <1>2, <1>5
    <2>. HIDE DEF files, places
    <2>. QED  BY <2>1, <2>2, <2>3, <1>2, <1>5 DEF Api!NotAfter
  <1>. QED  BY <1>5, <1>6 DEF Api!endpointFor

(* ClientOf finds a file of the same API's name. *)
LEMMA ClientIsLoaded ==
  ASSUME Loaded, NEW i \in DOMAIN configs
  PROVE  /\ Api!ClientOf(i) \in DOMAIN configs
         /\ configs[Api!ClientOf(i)].name = configs[i].name
  <1>. DEFINE S == {j \in DOMAIN configs : configs[j].name = configs[i].name}
  <1>1. PICK n \in Nat : DOMAIN configs \subseteq 1 .. n
    BY DEF Loaded
  <1>2. S \in SUBSET (1 .. n) /\ S # {}
    BY <1>1
  <1>3. Max(S) \in S
    <2>. HIDE DEF S
    <2>. QED  BY <1>2, GreatestExists
  <1>4. Api!ClientOf(i) = Max(S)
    BY DEF Api!ClientOf, Api!Max, Max
  <1>. QED  BY <1>3, <1>4

(* findEndpoint finds the first endpoint of that name. *)
LEMMA FirstOfNameIsFound ==
  ASSUME Loaded, NEW i \in DOMAIN configs, NEW name, Api!Places(i, name) # {}
  PROVE  /\ Min(Api!Places(i, name)) \in Api!Places(i, name)
         /\ \A j \in Api!Places(i, name) : Min(Api!Places(i, name)) <= j
         /\ Api!Places(i, name) \subseteq Nat
         /\ Api!findEndpoint(i, name) \in LoadedEndpoint
  <1>1. /\ configs[i].endpoints \in Seq(LoadedEndpoint)
        /\ DOMAIN configs[i].endpoints = 1 .. Len(configs[i].endpoints)
    BY FilesAre
  <1>2. Api!Places(i, name) \in SUBSET Nat
    BY <1>1 DEF Api!Places
  <1>3. /\ Min(Api!Places(i, name)) \in Api!Places(i, name)
        /\ \A j \in Api!Places(i, name) : Min(Api!Places(i, name)) <= j
    BY <1>2, LeastExists
  <1>4. Min(Api!Places(i, name)) \in DOMAIN configs[i].endpoints
    BY <1>3 DEF Api!Places
  <1>5. Api!findEndpoint(i, name) = configs[i].endpoints[Min(Api!Places(i, name))]
    BY DEF Api!findEndpoint, Api!Min, Min
  <1>6. Api!findEndpoint(i, name) \in LoadedEndpoint
    BY <1>1, <1>4, <1>5
  <1>. QED  BY <1>2, <1>3, <1>6

(* With one file for each API's name the endpoint that serves a call is the   *)
(* one its tool was checked on: of two endpoints of one file whose names run  *)
(* together to one tool's name the names are equal, so the first by tool is   *)
(* the first by name.                                                         *)
LEMMA ServedIsChecked ==
  ASSUME Loaded, Api!OneFileEach, NEW tool, Api!Called(tool) # {}
  PROVE  LET found == Api!endpointFor(tool) IN
         /\ Api!ClientOf(found.config) = found.config
         /\ Api!findEndpoint(found.config, found.endpoint.name) = found.endpoint
  <1>. DEFINE found == Api!endpointFor(tool)
              i == found.config
              name == found.endpoint.name
              first == Min(Api!Places(i, name))
  <1>1. found \in Api!Endpoints /\ found.tool = tool
    BY FirstIsFound DEF Api!Called
  <1>2. /\ i \in DOMAIN configs
        /\ i \in Nat /\ found.place \in Nat
        /\ found.place \in DOMAIN configs[i].endpoints
        /\ found.endpoint = configs[i].endpoints[found.place]
        /\ tool = configs[i].name \o name
    BY <1>1, EndpointsAre
  <1>3. Api!ClientOf(i) = i
    BY <1>2, ClientIsLoaded DEF Api!OneFileEach
  <1>4. found.place \in Api!Places(i, name)
    BY <1>2 DEF Api!Places
  <1>5. /\ first \in Api!Places(i, name) /\ first \in Nat
        /\ first <= found.place
    BY <1>2, <1>4, FirstOfNameIsFound
  <1>6. first >= found.place
    <2>. DEFINE other == [config |-> i, place |-> first,
                          endpoint |-> configs[i].endpoints[first],
                          tool |-> configs[i].name \o configs[i].endpoints[first].name]
    <2>1. first \in DOMAIN configs[i].endpoints /\ configs[i].endpoints[first].name = name
      BY <1>5 DEF Api!Places
    <2>2. other \in Api!Endpoints
      BY <1>2, <2>1, EndpointsHave
    <2>3. other \in Api!Called(tool)
      BY <1>2, <2>1, <2>2 DEF Api!Called
    <2>4. Api!NotAfter(found, other)
      BY <2>3, FirstIsFound
    <2>5. found.config = i /\ other.config = i /\ other.place = first
      OBVIOUS
    <2>. HIDE DEF other, found, i, name, first
    <2>. QED  BY <2>4, <2>5, <1>2, <1>5 DEF Api!NotAfter
  <1>7. first = found.place
    <2>. HIDE DEF found, i, name, first
    <2>. QED  BY <1>2, <1>5, <1>6
  <1>8. Api!findEndpoint(i, name) = found.endpoint
    BY <1>2, <1>7 DEF Api!findEndpoint, Api!Min, Min
  <1>. QED  BY <1>3, <1>8

-----------------------------------------------------------------------------
(* The slots.                                                                *)

Holds(c, i) == apiCalls[c].at \in {"asking", "pausing"} /\ apiCalls[c].client = i

(* The instance has its own copy of Cardinality. *)
LEMMA SameCardinality ==
  ASSUME NEW S
  PROVE  Api!Cardinality(S) = Cardinality(S)
  BY DEF Api!Cardinality, Cardinality

LEMMA HoldingAre ==
  /\ \A i : Api!Holding(i) = {c \in Workers : Holds(c, i)}
  /\ \A i : IsFiniteSet(Api!Holding(i)) /\ Cardinality(Api!Holding(i)) \in Nat
  <1>1. \A i : Api!Holding(i) = {c \in Workers : Holds(c, i)}
    BY DEF Api!Holding, Holds
  <1>2. \A i : Api!Holding(i) \in SUBSET Workers
    BY <1>1
  <1>3. ASSUME NEW i
        PROVE  IsFiniteSet(Api!Holding(i)) /\ Cardinality(Api!Holding(i)) \in Nat
    <2>1. IsFiniteSet(Api!Holding(i))
      BY <1>2, WorkersAssumption, FS_Subset
    <2>. QED  BY <2>1, FS_CardinalityType
  <1>. QED  BY <1>1, <1>3

(* Where no call takes a slot or gives one back, the slots stay right.        *)
LEMMA SlotsStay ==
  ASSUME Api!SlotsAreCalls, UNCHANGED <<configs, inUse>>,
         \A c \in Workers, i \in DOMAIN inUse : (Holds(c, i)' <=> Holds(c, i))
  PROVE  Api!SlotsAreCalls'
  <1>. SUFFICES ASSUME NEW i \in DOMAIN inUse
                PROVE  /\ inUse[i] = Cardinality(Api!Holding(i)')
                       /\ inUse[i] <= configs[i].maxConcurrent
    BY SameCardinality DEF Api!SlotsAreCalls
  <1>1. Api!Holding(i)' = Api!Holding(i)
    BY HoldingAre DEF Api!Holding, Holds
  <1>. QED  BY <1>1, SameCardinality DEF Api!SlotsAreCalls

(* One more call that holds a slot is one more slot in use ...                *)
LEMMA SlotTaken ==
  ASSUME ApiTyped, Api!SlotsAreCalls, NEW c \in Workers, NEW k \in DOMAIN inUse,
         UNCHANGED configs,
         inUse[k] < configs[k].maxConcurrent,
         inUse' = [inUse EXCEPT ![k] = @ + 1],
         ~Holds(c, k), Holds(c, k)',
         \A w \in Workers, i \in DOMAIN inUse :
           <<w, i>> # <<c, k>> => (Holds(w, i)' <=> Holds(w, i))
  PROVE  Api!SlotsAreCalls'
  <1>. SUFFICES ASSUME NEW i \in DOMAIN inUse
                PROVE  /\ inUse'[i] = Cardinality(Api!Holding(i)')
                       /\ inUse'[i] <= configs[i].maxConcurrent
    BY SameCardinality DEF Api!SlotsAreCalls
  <1>1. inUse[i] = Cardinality(Api!Holding(i)) /\ inUse[i] <= configs[i].maxConcurrent
    BY SameCardinality DEF Api!SlotsAreCalls
  <1>2. CASE i # k
    <2>1. Api!Holding(i)' = Api!Holding(i)
      BY <1>2 DEF Api!Holding, Holds
    <2>. QED  BY <1>1, <1>2, <2>1 DEF ApiTyped
  <1>3. CASE i = k
    <2>1. Api!Holding(k)' = Api!Holding(k) \cup {c}
      BY DEF Api!Holding, Holds
    <2>2. c \notin Api!Holding(k)
      BY HoldingAre
    <2>3. Cardinality(Api!Holding(k)') = Cardinality(Api!Holding(k)) + 1
      BY <2>1, <2>2, HoldingAre, FS_AddElement
    <2>4. i \in DOMAIN configs /\ inUse[i] \in Nat /\ inUse'[i] = inUse[i] + 1
      BY <1>3 DEF ApiTyped
    <2>5. configs[i].maxConcurrent \in Nat
      BY <2>4, FilesAre DEF ApiTyped
    <2>. QED  BY <1>1, <1>3, <2>3, <2>4, <2>5
  <1>. QED  BY <1>2, <1>3

(* ... and one that ends gives its own back.                                  *)
LEMMA SlotReturned ==
  ASSUME ApiTyped, Api!SlotsAreCalls, NEW c \in Workers, NEW k \in DOMAIN inUse,
         UNCHANGED configs,
         inUse' = [inUse EXCEPT ![k] = @ - 1],
         Holds(c, k), ~Holds(c, k)',
         \A w \in Workers, i \in DOMAIN inUse :
           <<w, i>> # <<c, k>> => (Holds(w, i)' <=> Holds(w, i))
  PROVE  Api!SlotsAreCalls' /\ inUse' \in [DOMAIN configs -> Nat]
  <1>1. \A i \in DOMAIN inUse :
          inUse[i] = Cardinality(Api!Holding(i)) /\ inUse[i] <= configs[i].maxConcurrent
    BY SameCardinality DEF Api!SlotsAreCalls
  <1>2. DOMAIN inUse = DOMAIN configs /\ \A i \in DOMAIN inUse : inUse[i] \in Nat
    BY DEF ApiTyped
  <1>3. Cardinality(Api!Holding(k)') = Cardinality(Api!Holding(k)) - 1
    <2>0. IsFiniteSet(Api!Holding(k))
      BY HoldingAre
    <2>1. Api!Holding(k)' = Api!Holding(k) \ {c}
      BY DEF Api!Holding, Holds
    <2>2. c \in Api!Holding(k)
      BY HoldingAre
    <2>. QED  BY <2>0, <2>1, <2>2, FS_RemoveElement
  <1>4. Cardinality(Api!Holding(k)') \in Nat
    <2>1. Api!Holding(k)' \in SUBSET Api!Holding(k)
      BY DEF Api!Holding, Holds
    <2>2. IsFiniteSet(Api!Holding(k)')
      BY <2>1, HoldingAre, FS_Subset
    <2>. QED  BY <2>2, FS_CardinalityType
  <1>5. inUse'[k] = inUse[k] - 1 /\ inUse'[k] \in Nat
    BY <1>1, <1>2, <1>3, <1>4
  <1>6. inUse' \in [DOMAIN configs -> Nat]
    BY <1>2, <1>5
  <1>7. ASSUME NEW i \in DOMAIN inUse
        PROVE  /\ inUse'[i] = Cardinality(Api!Holding(i)')
               /\ inUse'[i] <= configs[i].maxConcurrent
    <2>1. CASE i # k
      <3>1. Api!Holding(i)' = Api!Holding(i)
        BY <2>1 DEF Api!Holding, Holds
      <3>. QED  BY <1>1, <1>2, <2>1, <3>1
    <2>2. CASE i = k
      <3>1. configs[i].maxConcurrent \in Nat
        BY <1>2, FilesAre DEF ApiTyped
      <3>. QED  BY <1>1, <1>2, <1>3, <1>5, <2>2, <3>1
    <2>. QED  BY <2>1, <2>2
  <1>. QED  BY <1>2, <1>6, <1>7, SameCardinality DEF Api!SlotsAreCalls

-----------------------------------------------------------------------------
(* The calls.                                                                *)

(* What a call that is under way asks for, when it has got to at.             *)
Moved(call, at, attempt) ==
  [at |-> at, tool |-> call.tool, client |-> call.client, endpoint |-> call.endpoint,
   attempt |-> attempt]

LEMMA CallsAre ==
  ASSUME ApiTyped, NEW c \in Workers, apiCalls[c].at \in ApiUnderWay
  PROVE  /\ apiCalls[c].tool \in Seq(STRING)
         /\ apiCalls[c].client \in DOMAIN configs
         /\ apiCalls[c].endpoint \in LoadedEndpoint
         /\ apiCalls[c].attempt \in Nat
         /\ apiCalls[c] = Moved(apiCalls[c], apiCalls[c].at, apiCalls[c].attempt)
         /\ \A at : [apiCalls[c] EXCEPT !.at = at]
                     = Moved(apiCalls[c], at, apiCalls[c].attempt)
         /\ \A at, n : [apiCalls[c] EXCEPT !.at = at, !.attempt = n]
                        = Moved(apiCalls[c], at, n)
  <1>1. apiCalls[c] \in
          [at : ApiUnderWay, tool : Seq(STRING), client : DOMAIN configs,
           endpoint : LoadedEndpoint, attempt : Nat]
    BY DEF ApiTyped, ApiCall, ApiUnderWay
  <1>2. apiCalls[c] = Moved(apiCalls[c], apiCalls[c].at, apiCalls[c].attempt)
    BY <1>1 DEF Moved
  <1>3. ASSUME NEW at
        PROVE  [apiCalls[c] EXCEPT !.at = at] = Moved(apiCalls[c], at, apiCalls[c].attempt)
    BY <1>1 DEF Moved
  <1>4. ASSUME NEW at, NEW n
        PROVE  [apiCalls[c] EXCEPT !.at = at, !.attempt = n] = Moved(apiCalls[c], at, n)
    <2>. DEFINE now == [apiCalls[c] EXCEPT !.at = at, !.attempt = n]
                moved == Moved(apiCalls[c], at, n)
    <2>1. now = [[apiCalls[c] EXCEPT !.at = at] EXCEPT !.attempt = n]
      OBVIOUS
    <2>2. now = [Moved(apiCalls[c], at, apiCalls[c].attempt) EXCEPT !.attempt = n]
      BY <1>3, <2>1
    <2>. QED  BY <2>2 DEF Moved
  <1>. QED  BY <1>1, <1>2, <1>3, <1>4

(* What is said of a call under way. *)
CallOK(c) ==
  apiCalls[c].at \in ApiUnderWay =>
    /\ apiCalls[c].attempt <= configs[apiCalls[c].client].maxRetries
    /\ apiCalls[c].at = "pausing" =>
         apiCalls[c].attempt < configs[apiCalls[c].client].maxRetries
    /\ Api!OneFileEach =>
         /\ Api!methodAllowed(apiCalls[c].endpoint.method)
         /\ \E e \in Api!GetToolDefinitions :
              /\ e.tool = apiCalls[c].tool
              /\ e.endpoint = apiCalls[c].endpoint
              /\ e.config = apiCalls[c].client

LEMMA CallsAreOK ==
  (AttemptsLeft /\ Api!SentAsChecked) <=> \A c \in Workers : CallOK(c)
  BY DEF AttemptsLeft, Api!SentAsChecked, CallOK, ApiUnderWay

LEMMA OthersKeep ==
  ASSUME ApiTyped, UNCHANGED configs, NEW c \in Workers, NEW call \in ApiCall,
         apiCalls' = [apiCalls EXCEPT ![c] = call],
         \A w \in Workers : CallOK(w),
         CallOK(c)'
  PROVE  /\ apiCalls' \in [Workers -> ApiCall']
         /\ (AttemptsLeft /\ Api!SentAsChecked)'
         /\ Loaded'
  <1>1. apiCalls' \in [Workers -> ApiCall'] /\ Loaded'
    BY DEF ApiTyped, ApiCall, Loaded
  <1>2. ASSUME NEW w \in Workers, w # c PROVE CallOK(w)'
    <2>1. apiCalls'[w] = apiCalls[w]
      BY <1>2 DEF ApiTyped
    <2>2. /\ Api!OneFileEach' = Api!OneFileEach
          /\ Api!GetToolDefinitions' = Api!GetToolDefinitions
      BY DEF Api!OneFileEach, Api!GetToolDefinitions, Api!Endpoints, Api!EndpointsOf
    <2>3. CallOK(w)
      OBVIOUS
    <2>. QED  BY <2>1, <2>2, <2>3 DEF CallOK
  <1>3. \A w \in Workers : CallOK(w)'
    BY <1>2
  <1>4. (AttemptsLeft /\ Api!SentAsChecked)' <=> \A w \in Workers : CallOK(w)'
    BY DEF AttemptsLeft, Api!SentAsChecked, CallOK, ApiUnderWay
  <1>. QED  BY <1>1, <1>3, <1>4

(* A call that is over, or goes on with the same request, is as good as it    *)
(* was.                                                                      *)
LEMMA CallOver ==
  ASSUME ApiInv, UNCHANGED configs, NEW c \in Workers, NEW ok \in BOOLEAN,
         Api!Done(c, ok)
  PROVE  /\ apiCalls' \in [Workers -> ApiCall'] /\ Loaded'
         /\ (AttemptsLeft /\ Api!SentAsChecked)'
         /\ \A i : ~Holds(c, i)'
         /\ \A w \in Workers, i \in DOMAIN inUse : w # c => (Holds(w, i)' <=> Holds(w, i))
  <1>. DEFINE call == [at |-> "done", ok |-> ok]
  <1>1. call \in ApiCall
    BY DEF ApiCall
  <1>2. apiCalls' = [apiCalls EXCEPT ![c] = call] /\ apiCalls'[c].at = "done"
    BY DEF Api!Done, ApiInv, ApiTyped
  <1>3. CallOK(c)'
    BY <1>2 DEF CallOK, ApiUnderWay
  <1>4. \A w \in Workers : CallOK(w)
    BY CallsAreOK DEF ApiInv
  <1>5. \A i : ~Holds(c, i)'
    BY <1>2 DEF Holds
  <1>6. \A w \in Workers : w # c => apiCalls'[w] = apiCalls[w]
    BY <1>2 DEF ApiInv, ApiTyped
  <1>. HIDE DEF call
  <1>. QED  BY <1>1, <1>2, <1>3, <1>4, <1>5, <1>6, OthersKeep DEF ApiInv, Holds

LEMMA CallGoesOn ==
  ASSUME ApiInv, UNCHANGED configs, NEW c \in Workers, apiCalls[c].at \in ApiUnderWay,
         NEW at \in ApiUnderWay, NEW n \in Nat,
         apiCalls' = [apiCalls EXCEPT ![c] = Moved(apiCalls[c], at, n)],
         n <= configs[apiCalls[c].client].maxRetries,
         at = "pausing" => n < configs[apiCalls[c].client].maxRetries
  PROVE  /\ apiCalls' \in [Workers -> ApiCall'] /\ Loaded'
         /\ (AttemptsLeft /\ Api!SentAsChecked)'
         /\ apiCalls'[c].at = at /\ apiCalls'[c].client = apiCalls[c].client
         /\ \A w \in Workers, i \in DOMAIN inUse : w # c => (Holds(w, i)' <=> Holds(w, i))
  <1>. DEFINE call == Moved(apiCalls[c], at, n)
  <1>1. call \in ApiCall
    BY CallsAre DEF ApiInv, ApiCall, Moved
  <1>2. apiCalls'[c] = call
    BY DEF ApiInv, ApiTyped
  <1>3. /\ call.at = at /\ call.attempt = n
        /\ call.client = apiCalls[c].client /\ call.endpoint = apiCalls[c].endpoint
        /\ call.tool = apiCalls[c].tool
    BY DEF Moved
  <1>4. \A w \in Workers : CallOK(w)
    BY CallsAreOK DEF ApiInv
  <1>5. /\ Api!OneFileEach' = Api!OneFileEach
        /\ Api!GetToolDefinitions' = Api!GetToolDefinitions
    BY DEF Api!OneFileEach, Api!GetToolDefinitions, Api!Endpoints, Api!EndpointsOf
  <1>. HIDE DEF call
  <1>6. CallOK(c)'
    BY <1>2, <1>3, <1>4, <1>5 DEF CallOK
  <1>7. \A w \in Workers : w # c => apiCalls'[w] = apiCalls[w]
    BY DEF ApiInv, ApiTyped
  <1>8. apiCalls' = [apiCalls EXCEPT ![c] = call]
    BY DEF call
  <1>. QED  BY <1>1, <1>2, <1>3, <1>4, <1>6, <1>7, <1>8, OthersKeep DEF ApiInv, Holds

-----------------------------------------------------------------------------
(* One step.                                                                 *)

(* A new call is queued for the first endpoint that bears its name, checked   *)
(* and served by the same file if each API has but one.                       *)
LEMMA ApiCallStep ==
  ASSUME ApiInv, NEW c \in Workers, NEW e \in Api!Endpoints, NEW args,
         Api!Call(c, e.tool, args)
  PROVE  ApiInv'
  <1>. DEFINE tool == e.tool
              found == Api!endpointFor(tool)
              client == Api!ClientOf(found.config)
              served == Api!findEndpoint(client, found.endpoint.name)
              call == [at |-> "queued", tool |-> tool, client |-> client,
                       endpoint |-> served, attempt |-> 0]
  <1>1. Loaded /\ UNCHANGED <<configs, inUse>> /\ apiCalls[c].at = "idle"
    BY DEF ApiInv, ApiTyped, Api!Call
  <1>2. CASE \E ok \in BOOLEAN : Api!Done(c, ok)
    <2>1. /\ apiCalls' \in [Workers -> ApiCall'] /\ Loaded'
          /\ (AttemptsLeft /\ Api!SentAsChecked)'
          /\ \A i : ~Holds(c, i)'
          /\ \A w \in Workers, i \in DOMAIN inUse : w # c => (Holds(w, i)' <=> Holds(w, i))
      BY <1>1, <1>2, CallOver
    <2>2. \A i : ~Holds(c, i)
      BY <1>1 DEF Holds
    <2>3. Api!SlotsAreCalls'
      BY <1>1, <2>1, <2>2, SlotsStay DEF ApiInv, Holds
    <2>. QED  BY <1>1, <2>1, <2>3 DEF ApiInv, ApiTyped
  <1>3. CASE /\ Api!methodAllowed(found.endpoint.method)
             /\ Api!Places(client, found.endpoint.name) # {}
             /\ apiCalls' = [apiCalls EXCEPT ![c] = call]
    <2>1. Api!Called(tool) # {}
      BY DEF Api!Called
    <2>2. found \in Api!Endpoints /\ found.tool = tool
      BY <1>1, <2>1, FirstIsFound DEF Api!Called
    <2>3. found.config \in DOMAIN configs /\ tool \in Seq(STRING)
      BY <1>1, <2>2, EndpointsAre
    <2>4. client \in DOMAIN configs
      BY <1>1, <2>3, ClientIsLoaded
    <2>5. served \in LoadedEndpoint
      BY <1>1, <1>3, <2>4, FirstOfNameIsFound
    <2>6. /\ call.at = "queued" /\ call.tool = tool /\ call.client = client
          /\ call.endpoint = served /\ call.attempt = 0
      OBVIOUS
    <2>7. Api!OneFileEach => client = found.config /\ served = found.endpoint
      BY <1>1, <2>1, ServedIsChecked
    <2>8. found \in Api!GetToolDefinitions
      BY <1>3, <2>2 DEF Api!GetToolDefinitions
    <2>9. configs[client].maxRetries \in Nat \ {0}
      BY <1>1, <2>4, FilesAre
    <2>. HIDE DEF tool, found, client, served
    <2>10. call \in ApiCall
      BY <2>3, <2>4, <2>5 DEF ApiCall, ApiUnderWay
    <2>. HIDE DEF call
    <2>11. apiCalls'[c] = call /\ \A w \in Workers : w # c => apiCalls'[w] = apiCalls[w]
      BY <1>3 DEF ApiInv, ApiTyped
    <2>12. /\ Api!OneFileEach' = Api!OneFileEach
           /\ Api!GetToolDefinitions' = Api!GetToolDefinitions
      BY <1>1 DEF Api!OneFileEach, Api!GetToolDefinitions, Api!Endpoints, Api!EndpointsOf
    <2>13. CallOK(c)'
      BY <1>1, <1>3, <2>2, <2>6, <2>7, <2>8, <2>9, <2>11, <2>12 DEF CallOK
    <2>14. \A w \in Workers : CallOK(w)
      BY CallsAreOK DEF ApiInv
    <2>15. /\ apiCalls' \in [Workers -> ApiCall'] /\ Loaded'
           /\ (AttemptsLeft /\ Api!SentAsChecked)'
      BY <1>1, <1>3, <2>10, <2>13, <2>14, OthersKeep DEF ApiInv
    <2>16. \A w \in Workers, i \in DOMAIN inUse : (Holds(w, i)' <=> Holds(w, i))
      BY <1>1, <2>6, <2>11 DEF Holds
    <2>17. Api!SlotsAreCalls'
      BY <1>1, <2>16, SlotsStay DEF ApiInv
    <2>. QED  BY <1>1, <2>15, <2>17 DEF ApiInv, ApiTyped
  <1>. QED  BY <1>2, <1>3 DEF Api!Call

(* A call that goes on without taking a slot or giving one back.              *)
LEMMA MoveStep ==
  ASSUME ApiInv, UNCHANGED <<configs, inUse>>, NEW c \in Workers,
         apiCalls[c].at \in {"asking", "pausing"},
         NEW at \in {"asking", "pausing"}, NEW n \in Nat,
         apiCalls' = [apiCalls EXCEPT ![c] = Moved(apiCalls[c], at, n)],
         n <= configs[apiCalls[c].client].maxRetries,
         at = "pausing" => n < configs[apiCalls[c].client].maxRetries
  PROVE  ApiInv'
  <1>1. at \in ApiUnderWay /\ apiCalls[c].at \in ApiUnderWay
    BY DEF ApiUnderWay
  <1>2. /\ apiCalls' \in [Workers -> ApiCall'] /\ Loaded'
        /\ (AttemptsLeft /\ Api!SentAsChecked)'
        /\ apiCalls'[c].at = at /\ apiCalls'[c].client = apiCalls[c].client
        /\ \A w \in Workers, i \in DOMAIN inUse : w # c => (Holds(w, i)' <=> Holds(w, i))
    BY <1>1, CallGoesOn
  <1>3. \A i : (Holds(c, i)' <=> Holds(c, i))
    BY <1>2 DEF Holds
  <1>4. Api!SlotsAreCalls'
    BY <1>2, <1>3, SlotsStay DEF ApiInv
  <1>. QED  BY <1>2, <1>4 DEF ApiInv, ApiTyped

LEMMA AcquireStep ==
  ASSUME ApiInv, NEW c \in Workers, Api!Acquire(c)
  PROVE  ApiInv'
  <1>0. apiCalls[c].at = "queued" /\ ApiTyped /\ apiCalls[c].at \in ApiUnderWay
    BY DEF Api!Acquire, ApiInv, ApiUnderWay
  <1>. PICK k \in DOMAIN configs : k = apiCalls[c].client
    BY <1>0, CallsAre
  <1>. DEFINE n == apiCalls[c].attempt
  <1>1. /\ apiCalls[c].at = "queued" /\ UNCHANGED configs
        /\ inUse[k] < configs[k].maxConcurrent
        /\ inUse' = [inUse EXCEPT ![k] = @ + 1]
        /\ apiCalls' = [apiCalls EXCEPT ![c].at = "asking"]
    BY DEF Api!Acquire
  <1>2. /\ n \in Nat
        /\ [apiCalls[c] EXCEPT !.at = "asking"] = Moved(apiCalls[c], "asking", n)
    BY <1>0, CallsAre
  <1>3. k \in DOMAIN inUse /\ inUse \in [DOMAIN configs -> Nat]
    BY DEF ApiInv, ApiTyped
  <1>4. apiCalls' = [apiCalls EXCEPT ![c] = Moved(apiCalls[c], "asking", n)]
    BY <1>1, <1>2
  <1>5. n <= configs[k].maxRetries
    BY <1>1 DEF ApiInv, AttemptsLeft, ApiUnderWay
  <1>6. /\ apiCalls' \in [Workers -> ApiCall'] /\ Loaded'
        /\ (AttemptsLeft /\ Api!SentAsChecked)'
        /\ apiCalls'[c].at = "asking" /\ apiCalls'[c].client = k
        /\ \A w \in Workers, i \in DOMAIN inUse : w # c => (Holds(w, i)' <=> Holds(w, i))
    BY <1>1, <1>2, <1>4, <1>5, CallGoesOn DEF ApiUnderWay
  <1>7. /\ ~Holds(c, k) /\ Holds(c, k)'
        /\ \A i : i # k => (Holds(c, i)' <=> Holds(c, i))
    BY <1>1, <1>6 DEF Holds
  <1>8. Api!SlotsAreCalls'
    <2>1. \A w \in Workers, i \in DOMAIN inUse :
            <<w, i>> # <<c, k>> => (Holds(w, i)' <=> Holds(w, i))
      BY <1>6, <1>7
    <2>. QED  BY <1>1, <1>3, <1>7, <2>1, SlotTaken DEF ApiInv
  <1>9. inUse' \in [DOMAIN configs -> Nat]
    BY <1>1, <1>3
  <1>. QED  BY <1>1, <1>6, <1>8, <1>9 DEF ApiInv, ApiTyped

LEMMA ApiReturnStep ==
  ASSUME ApiInv, UNCHANGED configs, NEW c \in Workers, NEW ok \in BOOLEAN,
         apiCalls[c].at \in {"asking", "pausing"}, Api!Return(c, ok)
  PROVE  ApiInv'
  <1>0. ApiTyped /\ apiCalls[c].at \in ApiUnderWay
    BY DEF ApiInv, ApiUnderWay
  <1>. PICK k \in DOMAIN configs : k = apiCalls[c].client
    BY <1>0, CallsAre
  <1>1. inUse' = [inUse EXCEPT ![k] = @ - 1] /\ Api!Done(c, ok)
    BY DEF Api!Return
  <1>2. k \in DOMAIN inUse
    BY DEF ApiInv, ApiTyped
  <1>3. /\ apiCalls' \in [Workers -> ApiCall'] /\ Loaded'
        /\ (AttemptsLeft /\ Api!SentAsChecked)'
        /\ \A i : ~Holds(c, i)'
        /\ \A w \in Workers, i \in DOMAIN inUse : w # c => (Holds(w, i)' <=> Holds(w, i))
    BY <1>1, CallOver
  <1>4. Holds(c, k) /\ \A i : i # k => ~Holds(c, i)
    BY DEF Holds
  <1>5. Api!SlotsAreCalls' /\ inUse' \in [DOMAIN configs -> Nat]
    <2>1. \A w \in Workers, i \in DOMAIN inUse :
            <<w, i>> # <<c, k>> => (Holds(w, i)' <=> Holds(w, i))
      BY <1>3, <1>4
    <2>2. ~Holds(c, k)'
      BY <1>3 DEF Holds
    <2>. QED  BY <1>1, <1>2, <1>4, <2>1, <2>2, SlotReturned DEF ApiInv
  <1>. QED  BY <1>3, <1>5 DEF ApiInv, ApiTyped

LEMMA ApiStep ==
  ASSUME ApiInv, [Api!Next]_(Api!vars)
  PROVE  ApiInv'
  <1>1. CASE UNCHANGED Api!vars
    <2>1. UNCHANGED <<configs, inUse, apiCalls>>
      BY <1>1 DEF Api!vars
    <2>2. ApiTyped' /\ AttemptsLeft'
      BY <2>1 DEF ApiInv, ApiTyped, ApiCall, Loaded, AttemptsLeft
    <2>3. Api!SlotsAreCalls'
      BY <2>1, SlotsStay DEF ApiInv, Holds
    <2>4. Api!SentAsChecked'
      <3>1. /\ Api!OneFileEach' = Api!OneFileEach
            /\ Api!GetToolDefinitions' = Api!GetToolDefinitions
        BY <2>1 DEF Api!OneFileEach, Api!GetToolDefinitions, Api!Endpoints, Api!EndpointsOf
      <3>. QED  BY <2>1, <3>1 DEF ApiInv, Api!SentAsChecked
    <2>. QED  BY <2>2, <2>3, <2>4 DEF ApiInv
  <1>2. ASSUME NEW c \in Workers, NEW e \in Api!Endpoints, NEW args,
               Api!Call(c, e.tool, args)
        PROVE  ApiInv'
    BY <1>2, ApiCallStep
  <1>3. ASSUME NEW c \in Workers, Api!Acquire(c) PROVE ApiInv'
    BY <1>3, AcquireStep
  <1>4. ASSUME NEW c \in Workers, Api!Answered(c) PROVE ApiInv'
    BY <1>4, ApiReturnStep DEF Api!Answered
  <1>5. ASSUME NEW c \in Workers, Api!RateLimited(c) PROVE ApiInv'
    <2>. DEFINE config == configs[apiCalls[c].client]
                n == apiCalls[c].attempt
    <2>1. apiCalls[c].at = "asking" /\ UNCHANGED configs
      BY <1>5 DEF Api!RateLimited
    <2>2. CASE Api!Return(c, FALSE)
      BY <2>1, <2>2, ApiReturnStep
    <2>3. CASE /\ ~(n >= config.maxRetries) /\ UNCHANGED inUse
               /\ apiCalls' = [apiCalls EXCEPT ![c].at = "pausing"]
      <3>1. /\ n \in Nat /\ apiCalls[c].client \in DOMAIN configs
            /\ [apiCalls[c] EXCEPT !.at = "pausing"] = Moved(apiCalls[c], "pausing", n)
        BY <2>1, CallsAre DEF ApiInv, ApiUnderWay
      <3>2. config.maxRetries \in Nat
        BY <3>1, FilesAre DEF ApiInv, ApiTyped
      <3>3. apiCalls' = [apiCalls EXCEPT ![c] = Moved(apiCalls[c], "pausing", n)]
        BY <2>3, <3>1
      <3>4. n < config.maxRetries /\ n <= config.maxRetries
        BY <2>3, <3>1, <3>2
      <3>. QED  BY <2>1, <2>3, <3>1, <3>3, <3>4, MoveStep
    <2>. QED  BY <1>5, <2>2, <2>3 DEF Api!RateLimited
  <1>6. ASSUME NEW c \in Workers, Api!AskAgain(c) PROVE ApiInv'
    <2>. DEFINE n == apiCalls[c].attempt
    <2>1. /\ apiCalls[c].at = "pausing" /\ UNCHANGED <<configs, inUse>>
          /\ apiCalls' = [apiCalls EXCEPT ![c].at = "asking", ![c].attempt = @ + 1]
      BY <1>6 DEF Api!AskAgain
    <2>2. apiCalls[c].at \in ApiUnderWay /\ ApiTyped
      BY <2>1 DEF ApiInv, ApiUnderWay
    <2>3. n \in Nat /\ apiCalls[c].client \in DOMAIN configs
      BY <2>2, CallsAre
    <2>4. \A at, m : [apiCalls[c] EXCEPT !.at = at, !.attempt = m] = Moved(apiCalls[c], at, m)
      BY <2>2, CallsAre
    <2>5. apiCalls' = [apiCalls EXCEPT ![c] = Moved(apiCalls[c], "asking", n + 1)]
      <3>1. apiCalls'
            = [apiCalls EXCEPT ![c] = [apiCalls[c] EXCEPT !.at = "asking", !.attempt = n + 1]]
        BY <2>1
      <3>. QED  BY <3>1, <2>4
    <2>6. n < configs[apiCalls[c].client].maxRetries
      BY <2>1 DEF ApiInv, AttemptsLeft
    <2>7. configs[apiCalls[c].client].maxRetries \in Nat
      BY <2>3, FilesAre DEF ApiInv, ApiTyped
    <2>8. n + 1 <= configs[apiCalls[c].client].maxRetries /\ n + 1 \in Nat
      BY <2>3, <2>6, <2>7
    <2>. QED  BY <2>1, <2>5, <2>8, MoveStep
  <1>7. ASSUME NEW c \in Workers, Api!Cancel(c) PROVE ApiInv'
    <2>1. CASE apiCalls[c].at = "queued" /\ Api!Done(c, FALSE) /\ UNCHANGED <<configs, inUse>>
      <3>1. /\ apiCalls' \in [Workers -> ApiCall'] /\ Loaded'
            /\ (AttemptsLeft /\ Api!SentAsChecked)'
            /\ \A i : ~Holds(c, i)'
            /\ \A w \in Workers, i \in DOMAIN inUse : w # c => (Holds(w, i)' <=> Holds(w, i))
        BY <2>1, CallOver
      <3>2. \A i : ~Holds(c, i)
        BY <2>1 DEF Holds
      <3>3. Api!SlotsAreCalls'
        BY <2>1, <3>1, <3>2, SlotsStay DEF ApiInv, Holds
      <3>. QED  BY <2>1, <3>1, <3>3 DEF ApiInv, ApiTyped
    <2>2. CASE /\ apiCalls[c].at \in {"asking", "pausing"}
               /\ Api!Return(c, FALSE) /\ UNCHANGED configs
      BY <2>2, ApiReturnStep
    <2>. QED  BY <1>7, <2>1, <2>2 DEF Api!Cancel
  <1>. QED  BY <1>1, <1>2, <1>3, <1>4, <1>5, <1>6, <1>7 DEF Api!Next

-----------------------------------------------------------------------------
(* The start: the files as they are loaded.                                  *)

LEMMA DefaultsApply ==
  ASSUME NEW f \in Api!File, Api!validateConfig(f)
  PROVE  Api!applyDefaults(f) \in LoadedConfig
  <1>. DEFINE most == Api!Positive(f.maxConcurrent, 5)
              again == Api!Positive(f.maxRetries, 3)
              endpoints == [i \in DOMAIN f.endpoints |-> Api!WithMethod(f.endpoints[i])]
  <1>1. most \in Nat \ {0} /\ again \in Nat \ {0}
    BY DEF Api!File, Api!Positive
  <1>2. f.endpoints \in Seq(Api!EndpointConfig)
    BY DEF Api!File
  <1>3. ASSUME NEW i \in DOMAIN f.endpoints
        PROVE  Api!WithMethod(f.endpoints[i]) \in LoadedEndpoint
    <2>1. f.endpoints[i] \in Api!EndpointConfig
      BY <1>2
    <2>2. f.endpoints[i].method \in Api!Methods \cup {""}
      BY DEF Api!validateConfig, Api!Range
    <2>3. "GET" \in Api!Methods
      BY DEF Api!Methods
    <2>. QED  BY <2>1, <2>2, <2>3 DEF Api!EndpointConfig, Api!WithMethod, LoadedEndpoint
  <1>4. endpoints \in Seq(LoadedEndpoint)
    BY <1>2, <1>3
  <1>5. Api!applyDefaults(f) =
          [f EXCEPT !.maxConcurrent = most, !.maxRetries = again, !.endpoints = endpoints]
    BY DEF Api!applyDefaults
  <1>. HIDE DEF most, again, endpoints
  <1>. QED  BY <1>1, <1>4, <1>5 DEF Api!File, LoadedConfig

LEMMA ApiStart ==
  ASSUME Api!Init
  PROVE  ApiInv
  <1>1. PICK directory \in ApiDirectories : configs = Api!LoadConfigs(directory)
    BY DEF Api!Init
  <1>2. directory \in Seq(Api!File)
    BY <1>1, PartsAssumption DEF Api!ConstantsOK
  <1>3. Loaded
    <2>1. /\ configs = [i \in DOMAIN configs |-> Api!applyDefaults(directory[i])]
          /\ DOMAIN configs \subseteq DOMAIN directory
      BY <1>1 DEF Api!LoadConfigs
    <2>2. \A i \in DOMAIN directory : directory[i] \in Api!File
      BY <1>2
    <2>3. \A i \in DOMAIN configs : Api!validateConfig(directory[i])
      BY <1>1 DEF Api!LoadConfigs
    <2>4. \A i \in DOMAIN configs : Api!applyDefaults(directory[i]) \in LoadedConfig
      BY <2>1, <2>2, <2>3, DefaultsApply
    <2>5. configs \in [DOMAIN configs -> LoadedConfig]
      BY <2>1, <2>4
    <2>6. DOMAIN configs \subseteq 1 .. Len(directory) /\ Len(directory) \in Nat
      BY <1>2, <2>1
    <2>. QED  BY <2>5, <2>6 DEF Loaded
  <1>4. /\ inUse = [i \in DOMAIN configs |-> 0]
        /\ apiCalls = [c \in Workers |-> [at |-> "idle"]]
    BY DEF Api!Init
  <1>5. \A c \in Workers : apiCalls[c].at = "idle"
    BY <1>4
  <1>6. ApiTyped
    BY <1>3, <1>4 DEF ApiTyped, ApiCall
  <1>7. Api!SlotsAreCalls
    <2>. SUFFICES ASSUME NEW i \in DOMAIN inUse
                  PROVE  inUse[i] = Cardinality(Api!Holding(i))
                         /\ inUse[i] <= configs[i].maxConcurrent
      BY SameCardinality DEF Api!SlotsAreCalls
    <2>1. Api!Holding(i) = {}
      BY <1>5 DEF Api!Holding
    <2>2. inUse[i] = 0 /\ configs[i].maxConcurrent \in Nat
      BY <1>3, <1>4, FilesAre
    <2>. QED  BY <2>1, <2>2, FS_EmptySet
  <1>8. AttemptsLeft /\ Api!SentAsChecked
    BY <1>5 DEF AttemptsLeft, Api!SentAsChecked, ApiUnderWay
  <1>. QED  BY <1>6, <1>7, <1>8 DEF ApiInv

-----------------------------------------------------------------------------
(* The theorems.                                                             *)

(* A step of the server is a step of this part or leaves it alone.            *)
LEMMA ApiMoves == [Next]_vars => [Api!Next]_(Api!vars)
  BY DEF Next, vars, apiVars, Api!vars

(* The invariant holds of every behaviour of the server.                      *)
THEOREM ApiInvHolds == Spec => []ApiInv
  <1>1. Init => ApiInv
    BY ApiStart DEF Init
  <1>2. ApiInv /\ [Next]_vars => ApiInv'
    BY ApiStep, ApiMoves
  <1>. QED  BY <1>1, <1>2, PTL DEF Spec

(* However the calls of an API interleave, retry, pause, fail and give up,    *)
(* the slots in use are those its calls hold and no more than its file allows *)
(* (apiconfig/client.go:74-81): none leaks and none is given back twice.      *)
THEOREM SlotsHeldByCalls == Spec => []SlotsAreCalls
  <1>1. ApiInv => SlotsAreCalls
    BY DEF ApiInv, SlotsAreCalls
  <1>. QED  BY <1>1, ApiInvHolds, PTL

(* With one file for each API, a call is sent to the endpoint whose tool was  *)
(* asked for, by a method the deployment allows, and no more often than its   *)
(* file says (apiconfig/tools.go:193-212), whatever names run together.       *)
THEOREM RequestsAsChecked == Spec => []SentAsChecked
  <1>1. ApiInv => SentAsChecked
    BY DEF ApiInv, SentAsChecked
  <1>. QED  BY <1>1, ApiInvHolds, PTL

(* The types of the API client's state: the slots in use are within their     *)
(* bounds, and the calls at the steps there are.                              *)
THEOREM ApiTypesHold == Spec => []Api!TypeOK
  <1>1. ASSUME ApiInv PROVE Api!TypeOK
    <2>1. \A i \in DOMAIN inUse : inUse[i] \in 0 .. configs[i].maxConcurrent
      <3>. SUFFICES ASSUME NEW i \in DOMAIN inUse
                    PROVE  inUse[i] \in 0 .. configs[i].maxConcurrent
        OBVIOUS
      <3>1. inUse[i] \in Nat /\ i \in DOMAIN configs
        BY <1>1 DEF ApiInv, ApiTyped
      <3>2. configs[i].maxConcurrent \in Nat
        BY <1>1, <3>1, FilesAre DEF ApiInv, ApiTyped
      <3>3. inUse[i] <= configs[i].maxConcurrent
        BY <1>1 DEF ApiInv, Api!SlotsAreCalls
      <3>. QED  BY <3>1, <3>2, <3>3
    <2>2. DOMAIN inUse = DOMAIN configs
      BY <1>1 DEF ApiInv, ApiTyped
    <2>3. \A c \in Workers :
            apiCalls[c].at \in {"idle", "queued", "asking", "pausing", "done"}
      BY <1>1 DEF ApiInv, ApiTyped, ApiCall, ApiUnderWay
    <2>. QED  BY <2>1, <2>2, <2>3 DEF Api!TypeOK
  <1>. QED  BY <1>1, ApiInvHolds, PTL
=============================================================================
