---------------------------- MODULE DashboardEdits ----------------------------
(***************************************************************************)
(* The Grafana tools (pkg/mcp/grafana.go, their executors in                *)
(* pkg/mcp/server.go, pkg/mcp/audit.go). A call makes at most two requests: *)
(* one that reads the dashboard, for a patch and for an update that names   *)
(* no folder, and one that writes. Nothing guards the time between them:    *)
(* other calls and people at work in Grafana change the dashboard, and the  *)
(* write overwrites. A request may take effect though its answer is lost.   *)
(*                                                                         *)
(* Grafana is external: it keeps each dashboard's versions, numbers them,   *)
(* and refuses to read or restore what is not there; what is saved under    *)
(* the name of a dashboard that was deleted may make it anew. A patch does  *)
(* not change a dashboard's identity here.                                  *)
(***************************************************************************)
EXTENDS Naturals, Sequences

CONSTANTS
  Handlers,    \* tool calls at a time
  Uids,        \* names of dashboards
  Fields,      \* parts of a dashboard's JSON, also those the code has no type for
  Values,      \* what a part may say
  Folders,     \* Grafana's folders
  Operations,  \* the calls that are made, of those in AnyOperation
  First,       \* the dashboard there is at first
  MaxOutside   \* bound: changes made in Grafana itself

VARIABLES
  boards,   \* Grafana's dashboards
  outside,  \* changes made in Grafana itself
  wire,     \* the request or answer each call has under way
  calls     \* the tool calls

vars == <<boards, outside, wire, calls>>

None == "none"
Bodies == [Fields -> Values]
Edits == UNION {[part -> Values] : part \in SUBSET Fields \ {{}}}

AnyOperation ==
  [kind : {"create"}, body : Bodies, folder : Folders \cup {None}] \cup
  [kind : {"update"}, uid : Uids, body : Bodies, folder : Folders \cup {None}] \cup
  [kind : {"patch"}, uid : Uids, edit : Edits] \cup
  [kind : {"restore", "version"}, uid : Uids, version : Nat \ {0}] \cup
  [kind : {"get", "versions", "delete"}, uid : Uids] \cup
  [kind : {"list", "folder"}]

ConstantsOK ==
  /\ Operations \subseteq AnyOperation /\ First \in Bodies
  /\ Folders # {} /\ MaxOutside \in Nat

(* The versions of a dashboard, oldest first. One that is deleted has none.   *)
Absent == [versions |-> <<>>, folder |-> None]
There(uid) == boards[uid].versions # <<>>
Body(board) == board.versions[Len(board.versions)]
Saved(board, body, folder) ==
  [versions |-> Append(board.versions, body), folder |-> folder]

Quiet == [state |-> "quiet"]

Init ==
  /\ \E uid \in Uids, folder \in Folders :
       boards = [u \in Uids |-> IF u = uid THEN Saved(Absent, First, folder) ELSE Absent]
  /\ outside = 0
  /\ wire = [h \in Handlers |-> Quiet]
  /\ calls = [h \in Handlers |-> [at |-> "idle"]]

-----------------------------------------------------------------------------
(* The executors: whether each reads, and whether it writes, then or at once. *)

Steps(reads, writes) == [reads |-> reads, writes |-> writes]

executeGrafanaListDashboards          == Steps(TRUE, FALSE)
executeGrafanaGetDashboard            == Steps(TRUE, FALSE)
executeGrafanaGetDashboardVersion     == Steps(TRUE, FALSE)
executeGrafanaRestoreDashboardVersion == Steps(FALSE, TRUE)
executeGrafanaCreateDashboard         == Steps(FALSE, TRUE)
executeGrafanaUpdateDashboard(folder) == Steps(folder = None, TRUE)
executeGrafanaPatchDashboard          == Steps(TRUE, TRUE)
executeGrafanaCreateFolder            == Steps(FALSE, TRUE)
executeGrafanaDeleteDashboard         == Steps(FALSE, TRUE)

Execute(op) ==
  CASE op.kind = "list"                   -> executeGrafanaListDashboards
    [] op.kind = "get"                    -> executeGrafanaGetDashboard
    [] op.kind \in {"version", "versions"} -> executeGrafanaGetDashboardVersion
    [] op.kind = "restore"                -> executeGrafanaRestoreDashboardVersion
    [] op.kind = "create"                 -> executeGrafanaCreateDashboard
    [] op.kind = "update"                 -> executeGrafanaUpdateDashboard(op.folder)
    [] op.kind = "patch"                  -> executeGrafanaPatchDashboard
    [] op.kind = "folder"                 -> executeGrafanaCreateFolder
    [] op.kind = "delete"                 -> executeGrafanaDeleteDashboard

ReadsOnly(op) == ~Execute(op).writes
ReadsFirst(op) == Execute(op).reads /\ Execute(op).writes

(* Mutation: a write is logged before it is sent. *)
FinishLoggedFirst(h, op, ok) ==
  calls' = [calls EXCEPT ![h] =
    [at |-> "done", ok |-> ok, writes |-> ~ReadsOnly(op), effects |-> @.effects,
     logged |-> ~ReadsOnly(op)]]

Finish(h, op, ok) ==
  calls' = [calls EXCEPT ![h] =
    [at |-> "done", ok |-> ok, writes |-> ~ReadsOnly(op), effects |-> @.effects,
     logged |-> ok /\ ~ReadsOnly(op)]]

(* A missing uid, body or title, both forms of a patch or none: the call is   *)
(* refused before anything is sent. Otherwise its first request goes out.     *)
Call(h, op) ==
  /\ calls[h].at = "idle"
  /\ calls' = [calls EXCEPT ![h] = [at |-> "waiting", op |-> op, effects |-> 0]]
  /\ wire' = [wire EXCEPT ![h] =
       [state |-> "request", op |-> op, base |-> Absent,
        does |-> IF Execute(op).reads THEN "read" ELSE "write"]]
  /\ UNCHANGED <<boards, outside>>

(* The answer to a request arrives. After a read that comes first the write   *)
(* goes out, unless the patch does not apply; anything else ends the call,    *)
(* and a write that succeeded is logged.                                      *)
Hear(h) ==
  /\ calls[h].at = "waiting" /\ wire[h].state = "answer"
  /\ LET op == calls[h].op IN
     IF wire[h].ok /\ wire[h].does = "read" /\ ReadsFirst(op)
     THEN /\ wire' = [wire EXCEPT ![h] =
               [state |-> "request", op |-> op, base |-> @.base, does |-> "write"]]
          /\ UNCHANGED calls
     ELSE /\ Finish(h, op, wire[h].ok)
          /\ wire' = [wire EXCEPT ![h] = Quiet]
  /\ UNCHANGED <<boards, outside>>

PatchFails(h) ==
  /\ calls[h].at = "waiting" /\ calls[h].op.kind = "patch"
  /\ wire[h].state = "answer" /\ wire[h].does = "read"
  /\ Finish(h, calls[h].op, FALSE)
  /\ wire' = [wire EXCEPT ![h] = Quiet]
  /\ UNCHANGED <<boards, outside>>

(* The request fails: any time, and at the latest with the client's timeout.  *)
(* A write that was sent may still arrive.                                    *)
Fail(h) ==
  /\ calls[h].at = "waiting"
  /\ Finish(h, calls[h].op, FALSE)
  /\ wire' = [wire EXCEPT ![h] =
       IF @.state = "request" /\ @.does = "write" THEN @ ELSE Quiet]
  /\ UNCHANGED <<boards, outside>>

-----------------------------------------------------------------------------
(* What is saved. An update keeps the folder unless the call names one; a     *)
(* patch keeps every part it does not name, for the JSON is kept as it came.  *)

applyDashboardPatch(body, edit) ==
  [f \in DOMAIN body \cup DOMAIN edit |-> IF f \in DOMAIN edit THEN edit[f] ELSE body[f]]
BodyToSave(request) ==
  IF request.op.kind = "patch" THEN applyDashboardPatch(Body(request.base), request.op.edit)
  ELSE request.op.body

(* Mutation: an update is saved in the folder it names, or in none. *)
FolderAsGiven(request) ==
  IF request.op.kind = "update" THEN request.op.folder ELSE request.base.folder

FolderToSave(request) ==
  IF ReadsFirst(request.op) THEN request.base.folder ELSE request.op.folder

-----------------------------------------------------------------------------
(* Grafana.                                                                  *)

Answer(h, ok, base) ==
  wire' = [wire EXCEPT ![h] =
    IF calls[h].at = "waiting"
    THEN [state |-> "answer", op |-> @.op, does |-> @.does, ok |-> ok, base |-> base]
    ELSE Quiet]

(* What is asked for is there.                                                *)
ListDashboards           == TRUE
GetDashboard(op)         == There(op.uid)
ListDashboardVersions(op) == There(op.uid)
GetDashboardVersion(op)  == op.version <= Len(boards[op.uid].versions)

ServeRead(h) ==
  /\ wire[h].state = "request" /\ wire[h].does = "read"
  /\ LET op == wire[h].op IN
     CASE op.kind = "list"     -> Answer(h, ListDashboards, Absent)
       [] op.kind = "versions" -> Answer(h, ListDashboardVersions(op), Absent)
       [] op.kind = "version"  -> Answer(h, GetDashboardVersion(op), Absent)
       [] OTHER                -> Answer(h, GetDashboard(op), boards[op.uid])
  /\ UNCHANGED <<boards, outside, calls>>

(* The dashboards each write may leave behind; none when it is refused. What  *)
(* is new gets a name that is not in use, what is updated overwrites.         *)
CreateDashboard(op) ==
  {[boards EXCEPT ![u] = Saved(Absent, op.body, op.folder)] : u \in {v \in Uids : ~There(v)}}
UpdateDashboard(request) ==
  {[boards EXCEPT ![request.op.uid] = Saved(@, BodyToSave(request), FolderToSave(request))]}
RestoreDashboardVersion(op) ==
  LET board == boards[op.uid] IN
  {[boards EXCEPT ![op.uid] = Saved(board, board.versions[v], board.folder)] :
     v \in {op.version} \cap DOMAIN board.versions}
DeleteDashboard(op) ==
  IF There(op.uid) THEN {[boards EXCEPT ![op.uid] = Absent]} ELSE {}
CreateFolder == {boards}

Results(request) ==
  LET op == request.op IN
  CASE op.kind = "create"               -> CreateDashboard(op)
    [] op.kind \in {"update", "patch"} -> UpdateDashboard(request)
    [] op.kind = "restore"              -> RestoreDashboardVersion(op)
    [] op.kind = "delete"               -> DeleteDashboard(op)
    [] op.kind = "folder"               -> CreateFolder

(* A write takes effect, whoever still waits for it, or is refused.           *)
ServeWrite(h) ==
  /\ wire[h].state = "request" /\ wire[h].does = "write"
  /\ \/ /\ boards' \in Results(wire[h])
        /\ calls' = [calls EXCEPT ![h].effects = @ + 1]
        /\ Answer(h, TRUE, wire[h].base)
     \/ /\ Answer(h, FALSE, wire[h].base)
        /\ UNCHANGED <<boards, calls>>
  /\ UNCHANGED outside

(* Somebody edits or moves a dashboard in Grafana.                            *)
Outside(uid, body, folder) ==
  /\ There(uid) /\ outside < MaxOutside
  /\ outside' = outside + 1
  /\ boards' = [boards EXCEPT ![uid] = Saved(@, body, folder)]
  /\ UNCHANGED <<wire, calls>>

-----------------------------------------------------------------------------
Next ==
  \/ \E h \in Handlers, op \in Operations : Call(h, op)
  \/ \E h \in Handlers : Hear(h) \/ PatchFails(h) \/ Fail(h) \/ ServeRead(h) \/ ServeWrite(h)
  \/ \E uid \in Uids, body \in Bodies, folder \in Folders : Outside(uid, body, folder)

Spec == Init /\ [][Next]_vars

-----------------------------------------------------------------------------
TypeOK ==
  /\ outside \in 0..MaxOutside
  /\ \A u \in Uids : /\ boards[u].versions \in Seq(Bodies)
                     /\ boards[u].folder \in Folders \cup {None}
  /\ \A h \in Handlers : /\ calls[h].at \in {"idle", "waiting", "done"}
                         /\ wire[h].state \in {"quiet", "request", "answer"}

(* What a call reports is what happened: reported and logged as done, its one *)
(* write took effect, once; whatever else happened, no call writes twice.     *)
(* That a write reported as failed may have taken effect all the same, and    *)
(* then has no audit line, stays possible (server.go: each executor logs      *)
(* after the client's nil error).                                             *)
ReportsAreTrue ==
  \A h \in Handlers :
    /\ calls[h].at # "idle" => calls[h].effects <= 1
    /\ calls[h].at = "done" =>
         /\ calls[h].logged => calls[h].effects = 1
         /\ calls[h].ok /\ calls[h].writes => calls[h].logged
         /\ ~calls[h].writes => calls[h].effects = 0

(* An edit of a dashboard that nobody touched since it was read leaves alone  *)
(* what it does not name: a patch every other part and the folder, an update  *)
(* without a folder the folder, a restore the folder (grafana.go:476-483,     *)
(* server.go:1830-1837). Without "nobody touched" it does not hold: the write *)
(* overwrites what was saved in between.                                      *)
EditsKeepTheRest ==
  [][\A h \in Handlers :
       LET request == wire[h]
           op == request.op
           before == boards[op.uid]
           after == boards'[op.uid] IN
       /\ request.state = "request" /\ request.does = "write"
       /\ calls'[h].effects # calls[h].effects
       /\ op.kind \in {"update", "patch", "restore"}
       /\ ReadsFirst(op) => before = request.base
       =>
       /\ op.kind # "update" \/ op.folder = None => after.folder = before.folder
       /\ op.kind = "patch" => \A f \in Fields :
            Body(after)[f] = IF f \in DOMAIN op.edit THEN op.edit[f] ELSE Body(before)[f]]_vars
=============================================================================
