----------------------------- MODULE ToolSurface -----------------------------
(***************************************************************************)
(* One toolset behind two doors (pkg/mcp/server.go, sdk_server.go and       *)
(* authz.go). The Slack agent loop is in the process: it reads the catalog  *)
(* of the Server and calls its DispatchTool. An MCP client comes over HTTP: *)
(* it sees and calls what was registered with the SDK server when that was  *)
(* built. Two tables that nothing ties together must agree, whatever the    *)
(* deployment configures, and both doors must keep to one policy while it   *)
(* is edited.                                                               *)
(*                                                                         *)
(* A tool stands for all the tools one getter of the code returns: they are *)
(* gated, registered and routed together; ToolTables has their names. Calls *)
(* share nothing but the policy, so one is followed at a time. Whoever      *)
(* calls may ask for any tool.                                              *)
(***************************************************************************)
EXTENDS Authorization, ToolTables, Integers

CONSTANTS
  Deployments,  \* the sets of backends a deployment may have configured
  Documents,    \* the policy documents
  NoPolicy,     \* authorization off: no document
  NoCaller,     \* before the first call
  Callers,      \* records [door, principal], door \in {"slack", "mcp"}
  MaxEdits      \* bound: changes of the policy

ASSUME EditsAssumption == MaxEdits \in Nat

VARIABLES
  backends,    \* what is configured, "library" and "api" included
  readOnly,    \* READ_ONLY
  apiWrites,   \* whether API_ALLOWED_METHODS permits methods that write
  doc,         \* the live policy document
  edits,       \* how often it changed
  stage,       \* "built", then "library", then "serving"
  library,     \* whether the Server has been given the skill library
  registered,  \* the tools registered with the SDK server
  call,        \* the call under way
  listed,      \* the tools last shown to call.by
  barred       \* history: tools out of the caller's reach ever since it called

deployment == <<backends, readOnly, apiWrites>>
policy     == <<doc, edits>>
startup    == <<stage, library, registered>>
vars       == <<deployment, policy, startup, call, listed, barred>>

-----------------------------------------------------------------------------
(* The tools and the backend each is gated by, the same for both doors.      *)

Gated ==
  [loki |-> "loki", github |-> "github", gitlab |-> "gitlab", tempo |-> "tempo",
   database |-> "database", k8s |-> "k8s", prometheus |-> "prometheus",
   graphql |-> "graphql", ecr |-> "aws", aws |-> "aws",
   cloudwatch_logs |-> "cloudwatch", cloudwatch_metrics |-> "cloudwatch",
   cloudwatch_alarms |-> "cloudwatch",
   grafana_read |-> "grafana", grafana_write |-> "grafana",
   api_read |-> "api", api_write |-> "api"]

Backends == {Gated[t] : t \in DOMAIN Gated} \cup {"library"}
Utility  == {"list_my_tools", "utility"}
Tools    == DOMAIN Gated \cup Utility \cup {"investigations"}

(* isWriteTool and isAPIWriteTool *)
Writes == {"grafana_write", "api_write"}

(* What each getter advertises, and what there is a handler for. *)
Advertised ==
  [list_my_tools |-> [list_my_tools |-> getUtilityTools.list_my_tools],
   utility |-> [name \in DOMAIN getUtilityTools \ {"list_my_tools"} |-> getUtilityTools[name]],
   investigations |-> getInvestigationTools, loki |-> getLokiTools, github |-> getGitHubTools,
   gitlab |-> getGitLabTools, tempo |-> getTempoTools, database |-> getDatabaseTools,
   k8s |-> getK8sTools, prometheus |-> getPrometheusTools, graphql |-> getGraphQLTools,
   ecr |-> getECRTools, aws |-> getAWSTools, cloudwatch_logs |-> getCloudWatchTools,
   cloudwatch_metrics |-> getCloudWatchMetricsTools,
   cloudwatch_alarms |-> getCloudWatchAlarmsTools,
   grafana_read |-> getGrafanaReadTools, grafana_write |-> getGrafanaWriteTools]

Handlers ==
  registerUtilityTools \cup registerInvestigationTools \cup registerLokiTools
    \cup registerGitHubTools \cup registerGitLabTools \cup registerTempoTools
    \cup registerDatabaseTools \cup registerK8sTools \cup registerPrometheusTools
    \cup registerGraphQLTools \cup registerECRTools \cup registerAWSTools
    \cup registerCloudWatchTools \cup registerGrafanaTools

(* The names of a tool; those of the third-party tools are configuration. *)
NamesOf ==
  [t \in Tools |-> IF t \in DOMAIN Advertised THEN DOMAIN Advertised[t] ELSE {}]

(* The registry's catalog: methods that are not permitted are withheld. *)
APITools ==
  IF "api" \in backends
  THEN {"api_read"} \cup (IF apiWrites THEN {"api_write"} ELSE {})
  ELSE {}

(* Built-in tools of the configured backends, Grafana's writes apart. *)
Configured ==
  {t \in DOMAIN Gated \ (Writes \cup {"api_read"}) : Gated[t] \in backends}

GrafanaWrites ==
  IF "grafana" \in backends /\ ~readOnly THEN {"grafana_write"} ELSE {}

(* getToolDefinitions: what the Server advertises now. *)
ToolDefinitions ==
  Utility
    \cup (IF library THEN {"investigations"} ELSE {})
    \cup Configured \cup GrafanaWrites
    \cup (IF readOnly THEN APITools \ Writes ELSE APITools)

(* Mutation: of CloudWatch only the logs are registered, as in v2.3.0. *)
RegisterLogsOnly ==
  Utility
    \cup (IF library THEN {"investigations"} ELSE {})
    \cup (Configured \ {"cloudwatch_metrics", "cloudwatch_alarms"})
    \cup GrafanaWrites \cup APITools

(* registerTools: what the SDK server can dispatch. *)
RegisterTools ==
  Utility
    \cup (IF library THEN {"investigations"} ELSE {})
    \cup Configured \cup GrafanaWrites
    \cup APITools

-----------------------------------------------------------------------------
(* The decision both doors share. *)
Allows(d, p, tool) ==
  d = NoPolicy \/ tool = "list_my_tools" \/ Evaluate(d, p, tool)

AllowedTools(p, tools) == {t \in tools : Allows(doc, p, t)}

(* Mutation: the report is not filtered. *)
ListAllTools(p) == ToolDefinitions

(* list_my_tools reports over the Server's catalog, whatever the door. *)
ListMyTools(p) ==
  IF doc = NoPolicy
  THEN ToolDefinitions
  ELSE Capabilities(doc, p, ToolDefinitions).here \cup {"list_my_tools"}

(* For the properties: the tools that every role granting them keeps to      *)
(* other sources than p's.                                                   *)
OutOfReach(d, p) ==
  IF d = NoPolicy \/ d.default = "allow"
  THEN {}
  ELSE {t \in Tools \ {"list_my_tools"} :
          \A name \in DOMAIN d.roles :
            t \in d.roles[name].tools
              => d.roles[name].via # {} /\ p.source \notin d.roles[name].via}

(* What a caller is shown: the catalog of its door, or the report. *)
Listings(c) ==
  {ListMyTools(c.principal),
   AllowedTools(c.principal, IF c.door = "mcp" THEN registered ELSE ToolDefinitions)}

-----------------------------------------------------------------------------
(* Startup: the Server is built, the library attached, then the doors open.  *)

AttachLibrary ==
  /\ stage = "built"
  /\ library' = ("library" \in backends)
  /\ stage' = "library"
  /\ UNCHANGED <<deployment, policy, registered, call, listed, barred>>

StartServing ==
  /\ stage = "library"
  /\ registered' = RegisterTools
  /\ stage' = "serving"
  /\ UNCHANGED <<deployment, policy, library, call, listed, barred>>

-----------------------------------------------------------------------------
States == {"idle", "listed", "called", "authorized", "performed", "failed", "refused"}

Made(by, tool, state) == [by |-> by, tool |-> tool, state |-> state, audited |-> FALSE]

NoCall == Made(NoCaller, "list_my_tools", "idle")

Free == stage = "serving" /\ call.state = "idle"

ListTools(c) ==
  /\ Free
  /\ listed' \in Listings(c)
  /\ call' = Made(c, "list_my_tools", "listed")
  /\ UNCHANGED <<deployment, policy, startup, barred>>

(* The tool asked for need not have been listed. *)
CallTool(c, tool) ==
  /\ \/ Free
     \/ call.state = "listed" /\ call.by = c
  /\ call' = Made(c, tool, "called")
  /\ barred' = OutOfReach(doc, c.principal)
  /\ UNCHANGED <<deployment, policy, startup, listed>>

Outcome(state) == call' = [call EXCEPT !.state = state]

(* The MCP client gets no further with a tool that is not registered. *)
Unknown ==
  /\ call.state = "called"
  /\ call.by.door = "mcp" /\ call.tool \notin registered
  /\ Outcome("refused")
  /\ UNCHANGED <<deployment, policy, startup, listed, barred>>

Authorize ==
  /\ call.state = "called"
  /\ call.by.door = "mcp" => call.tool \in registered
  /\ Outcome(IF Allows(doc, call.by.principal, call.tool) THEN "authorized" ELSE "refused")
  /\ UNCHANGED <<deployment, policy, startup, listed, barred>>

(* Handlers that find their backend missing fail; those of AWS and of        *)
(* CloudWatch do not look.                                                   *)
Served(tool) ==
  \/ tool \in Utility
  \/ tool = "investigations" /\ library
  \/ tool \in DOMAIN Gated /\ Gated[tool] \in backends \cup {"aws", "cloudwatch"}

Permitted(tool) == tool = "api_write" => apiWrites

Perform(tool, audited) ==
  \/ /\ Served(tool) /\ Permitted(tool)
     /\ call' = [call EXCEPT !.state = "performed", !.audited = audited]
  \/ Outcome("failed")

(* Mutation: the calls of the process are not checked for READ_ONLY. *)
DispatchUnchecked ==
  /\ call.state = "authorized" /\ call.by.door = "slack"
  /\ Perform(call.tool, call.tool \in Writes)
  /\ UNCHANGED <<deployment, policy, startup, listed, barred>>

(* Mutation: the audit line is written first. *)
DispatchAuditedFirst ==
  /\ call.state = "authorized" /\ call.by.door = "slack"
  /\ IF readOnly /\ call.tool \in Writes
     THEN Outcome("refused")
     ELSE \E state \in {"performed", "failed"} :
            call' = [call EXCEPT !.state = state, !.audited = call.tool \in Writes]
  /\ UNCHANGED <<deployment, policy, startup, listed, barred>>

(* dispatchToolCall, and the audit of DispatchTool after it; Grafana's       *)
(* handlers write their own.                                                 *)
Dispatch ==
  /\ call.state = "authorized" /\ call.by.door = "slack"
  /\ IF readOnly /\ call.tool \in Writes
     THEN Outcome("refused")
     ELSE Perform(call.tool, call.tool \in Writes)
  /\ UNCHANGED <<deployment, policy, startup, listed, barred>>

(* registerTool: the handler is called directly. *)
Handle ==
  /\ call.state = "authorized" /\ call.by.door = "mcp"
  /\ Perform(call.tool, call.tool = "grafana_write")
  /\ UNCHANGED <<deployment, policy, startup, listed, barred>>

(* The caller has its answer. *)
Return ==
  /\ call.state \in {"performed", "failed", "refused"}
  /\ call' = NoCall
  /\ listed' = {} /\ barred' = {}
  /\ UNCHANGED <<deployment, policy, startup>>

(* The policy is edited and reloaded; what was shown may no longer hold. *)
Edit(d) ==
  /\ doc # NoPolicy /\ edits < MaxEdits
  /\ doc' = d
  /\ edits' = edits + 1
  /\ listed' = {}
  /\ barred' = IF barred = {} THEN {} ELSE barred \cap OutOfReach(d, call.by.principal)
  /\ UNCHANGED <<deployment, startup, call>>

Init ==
  /\ backends \in Deployments
  /\ readOnly \in BOOLEAN
  /\ apiWrites \in BOOLEAN
  /\ doc \in Documents \cup {NoPolicy}
  /\ edits = 0
  /\ stage = "built"
  /\ library = FALSE
  /\ registered = {}
  /\ call = NoCall
  /\ listed = {}
  /\ barred = {}

Next ==
  \/ AttachLibrary \/ StartServing
  \/ \E c \in Callers : \/ ListTools(c)
                        \/ \E tool \in Tools : CallTool(c, tool)
  \/ Unknown \/ Authorize \/ Dispatch \/ Handle \/ Return
  \/ \E d \in Documents : Edit(d)

Spec == Init /\ [][Next]_vars

-----------------------------------------------------------------------------
(* Properties.                                                               *)

Calls ==
  [by : Callers \cup {NoCaller}, tool : Tools, state : States, audited : {FALSE}]
    \cup [by : Callers, tool : Writes, state : {"performed"}, audited : {TRUE}]

(* Only writes that were performed are audited as performed. *)
TypeOK ==
  /\ backends \in Deployments /\ readOnly \in BOOLEAN /\ apiWrites \in BOOLEAN
  /\ doc \in Documents \cup {NoPolicy} /\ edits \in 0 .. MaxEdits
  /\ stage \in {"built", "library", "serving"} /\ library \in BOOLEAN
  /\ registered \subseteq Tools
  /\ call \in Calls
  /\ listed \subseteq Tools /\ barred \subseteq Tools

(* For the properties: the names of the tools are told apart by their         *)
(* getters, a name READ_ONLY refuses is one of a writing getter and the other *)
(* way round, and nobody who keeps to a schema is refused for a missing       *)
(* argument.                                                                  *)
SchemasHold ==
  /\ \A t, u \in Tools : t # u => NamesOf[t] \cap NamesOf[u] = {}
  /\ UNION {NamesOf[t] : t \in Writes} = isWriteTool
  /\ \A table \in Executors : \A name \in DOMAIN table :
       \E t \in DOMAIN Advertised :
         name \in NamesOf[t] /\ table[name] \subseteq Advertised[t][name]

(* transport_parity_test.go: whatever is configured, a tool the Server        *)
(* advertises is registered with the SDK server, and the two tables are the   *)
(* same unless READ_ONLY is set. Each name has a handler there and a case in  *)
(* the switches of the process, and the schemas hold.                         *)
TablesAgree ==
  /\ SchemasHold
  /\ \A t \in ToolDefinitions : NamesOf[t] \subseteq Dispatched
  /\ \A t \in registered : NamesOf[t] \subseteq Handlers
  /\ stage = "serving" =>
       /\ ToolDefinitions \subseteq registered
       /\ ~readOnly => registered = ToolDefinitions

Performed(tools) == call.state = "performed" /\ call.tool \in tools

(* READ_ONLY holds in the process, for tools that were not advertised too,   *)
(* and Grafana is not written to through either door.                        *)
WritesRefused ==
  readOnly => /\ Performed(Writes) => call.by.door # "slack"
              /\ ~Performed({"grafana_write"})

(* A tool that all roles keep to the other front-end is not performed here,   *)
(* unless an edit put it within reach between the call and its decision.      *)
ScopesHold == ~Performed(barred)

(* The README: what a caller is shown, by list_my_tools or as its catalog,    *)
(* matches dispatch. As long as the policy stays, a tool that was shown is    *)
(* not refused when it is called, and there is a backend to serve it.         *)
ListedIsServed ==
  call.tool \in listed =>
    /\ call.state # "refused"
    /\ call.state = "authorized" => Served(call.tool) /\ Permitted(call.tool)

(* The README: READ_ONLY rejects any write call at dispatch. *)
ReadOnlyHolds == readOnly => ~Performed(Writes)
=============================================================================
