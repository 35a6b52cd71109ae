-------------------------- MODULE ToolSurfaceProofs --------------------------
(***************************************************************************)
(* Proofs about ToolSurface, for any deployments, policy documents, callers *)
(* and edits: the tables of the two doors agree, READ_ONLY and the scopes   *)
(* of roles hold, and what a caller is shown is served.                     *)
(*                                                                         *)
(* The first part is about the tables as they are written; the second is    *)
(* about the calls and needs of the tables only which tools there are.      *)
(***************************************************************************)
EXTENDS ToolSurface, TLAPS

-----------------------------------------------------------------------------
(* The tools.                                                                *)

(* The tools that have a backend to be gated by. *)
LEMMA GatedTools ==
  DOMAIN Gated =
    {"loki", "github", "gitlab", "tempo", "database", "k8s", "prometheus", "graphql",
     "ecr", "aws", "cloudwatch_logs", "cloudwatch_metrics", "cloudwatch_alarms",
     "grafana_read", "grafana_write", "api_read", "api_write"}
BY DEF Gated

(* What is gated by Grafana and by the third-party APIs. *)
LEMMA GatesOfWrites ==
  /\ Gated["grafana_write"] = "grafana"
  /\ Gated["api_read"] = "api" /\ Gated["api_write"] = "api"
BY DEF Gated

LEMMA SomeTools ==
  /\ Utility \subseteq Tools /\ Writes \subseteq Tools /\ Writes \subseteq DOMAIN Gated
  /\ {"list_my_tools", "investigations", "api_read"} \subseteq Tools
BY GatedTools DEF Tools, Utility, Writes

(* Whatever is configured, the Server advertises tools and the SDK server    *)
(* registers tools; what is advertised is registered, and all of it is       *)
(* advertised unless READ_ONLY is set, when no write is.                     *)
LEMMA TablesOfTools ==
  ASSUME readOnly \in BOOLEAN
  PROVE  /\ RegisterTools \subseteq Tools
         /\ ToolDefinitions \subseteq RegisterTools
         /\ ~readOnly => RegisterTools = ToolDefinitions
         /\ readOnly => ToolDefinitions \cap Writes = {}
         /\ readOnly => "grafana_write" \notin RegisterTools
<1>1. Configured \subseteq DOMAIN Gated \ (Writes \cup {"api_read"})
  BY DEF Configured
<1>2. APITools \subseteq {"api_read", "api_write"}
  BY DEF APITools
<1>3. GrafanaWrites \subseteq (IF readOnly THEN {} ELSE {"grafana_write"})
  BY DEF GrafanaWrites
<1>4. RegisterTools \subseteq Tools
  BY <1>1, <1>2, <1>3, SomeTools, GatedTools DEF RegisterTools, Tools
<1>5. ToolDefinitions \subseteq RegisterTools
  BY DEF ToolDefinitions, RegisterTools
<1>6. ~readOnly => RegisterTools = ToolDefinitions
  BY DEF ToolDefinitions, RegisterTools
<1>7. readOnly => ToolDefinitions \cap Writes = {}
  BY <1>1, <1>2, <1>3 DEF ToolDefinitions, Utility, Writes
<1>8. readOnly => "grafana_write" \notin RegisterTools
  BY <1>1, <1>2, <1>3 DEF RegisterTools, Utility, Writes
<1> QED
  BY <1>4, <1>5, <1>6, <1>7, <1>8

(* Whatever is registered has a backend to serve it and is permitted. *)
LEMMA RegisteredIsServed ==
  ASSUME NEW tool \in RegisterTools
  PROVE  Served(tool) /\ Permitted(tool)
<1>1. CASE tool \in Utility
  BY <1>1 DEF Served, Permitted, Utility
<1>2. CASE library /\ tool = "investigations"
  BY <1>2 DEF Served, Permitted
<1>3. CASE tool \in Configured
  BY <1>3 DEF Configured, Served, Permitted, Writes
<1>4. CASE tool \in GrafanaWrites
  BY <1>4, GatesOfWrites, GatedTools DEF GrafanaWrites, Served, Permitted
<1>5. CASE tool \in APITools
  BY <1>5, GatesOfWrites, GatedTools DEF APITools, Served, Permitted
<1> QED
  BY <1>1, <1>2, <1>3, <1>4, <1>5 DEF RegisterTools

(* A tool that every role keeps to other sources is not allowed. *)
LEMMA OutOfReachIsRefused ==
  ASSUME NEW d, NEW p, NEW tool \in OutOfReach(d, p)
  PROVE  ~Allows(d, p, tool)
<1>1. /\ d # NoPolicy /\ d.default # "allow" /\ tool # "list_my_tools"
      /\ \A name \in DOMAIN d.roles :
           tool \in d.roles[name].tools
             => d.roles[name].via # {} /\ p.source \notin d.roles[name].via
  BY DEF OutOfReach
<1>2. \A r \in GrantingRoles(d, p, tool) : ~SourceAllowed(r.via, p.source)
  BY <1>1 DEF GrantingRoles, SourceAllowed
<1> QED
  BY <1>1, <1>2 DEF Allows, Evaluate, Assess

(* Whatever a caller is shown is registered, allowed and, in the process,    *)
(* advertised.                                                               *)
Showable(c) ==
  {t \in RegisterTools : /\ Allows(doc, c.principal, t)
                         /\ c.door # "mcp" => t \in ToolDefinitions}

LEMMA ListingsAreShowable ==
  ASSUME readOnly \in BOOLEAN, registered = RegisterTools,
         NEW c \in Callers, NEW listing \in Listings(c)
  PROVE  listing \subseteq Showable(c)
<1>1. ToolDefinitions \subseteq RegisterTools /\ "list_my_tools" \in ToolDefinitions
  BY TablesOfTools DEF ToolDefinitions, Utility
<1>2. CASE listing = ListMyTools(c.principal)
  <2>1. CASE doc = NoPolicy
    BY <1>1, <1>2, <2>1 DEF ListMyTools, Showable, Allows
  <2>2. CASE doc # NoPolicy
    <3>1. \A t \in listing :
            t \in ToolDefinitions /\ Allows(doc, c.principal, t)
      BY <1>1, <1>2, <2>2 DEF ListMyTools, Capabilities, Allows, Evaluate
    <3> QED
      BY <1>1, <3>1 DEF Showable
  <2> QED
    BY <2>1, <2>2
<1>3. CASE listing = AllowedTools(c.principal,
                                  IF c.door = "mcp" THEN registered ELSE ToolDefinitions)
  BY <1>1, <1>3 DEF AllowedTools, Showable
<1> QED
  BY <1>2, <1>3 DEF Listings

-----------------------------------------------------------------------------
(* The inductive invariant.                                                  *)

(* The SDK server has nothing until the doors open, and then all of it. *)
Registration ==
  /\ registered = IF stage = "serving" THEN RegisterTools ELSE {}
  /\ call.state # "idle" => stage = "serving"

(* What is known of a call between its steps. *)
CallAt ==
  /\ call.state # "idle" => call.by \in Callers
  /\ call.state # "performed" => ~call.audited
  /\ (call.state \in {"authorized", "performed"} /\ call.by.door = "mcp")
       => call.tool \in registered
  /\ (call.state = "performed" /\ readOnly) => (call.tool \in Writes => call.by.door = "mcp")

(* The histories: what is barred is out of reach as the policy stands, and   *)
(* what was listed is within it.                                             *)
HistoryAt ==
  /\ call.state = "idle" => listed = {} /\ barred = {}
  /\ call.state # "idle" => /\ barred \subseteq OutOfReach(doc, call.by.principal)
                            /\ listed \subseteq Showable(call.by)
  /\ call.state \in {"authorized", "performed"} => call.tool \notin barred
  /\ call.state = "refused" => call.tool \notin listed

IInv == TypeOK /\ Registration /\ CallAt /\ HistoryAt

LEMMA InitIInv == Init => IInv
<1> SUFFICES ASSUME Init PROVE IInv
  OBVIOUS
<1>1. NoCall \in Calls /\ NoCall.state = "idle" /\ NoCall.audited = FALSE
  BY SomeTools DEF NoCall, Made, Calls, States
<1>2. TypeOK
  <2>1. call \in Calls
    BY <1>1 DEF Init
  <2>2. edits \in 0 .. MaxEdits
    BY EditsAssumption DEF Init
  <2> QED
    BY <2>1, <2>2 DEF Init, TypeOK
<1>3. Registration /\ CallAt /\ HistoryAt
  BY <1>1 DEF Init, Registration, CallAt, HistoryAt
<1> QED
  BY <1>2, <1>3 DEF IInv

-----------------------------------------------------------------------------
(* Steps of a call.                                                          *)

(* Tables and listings depend on the deployment, the library and the policy. *)
LEMMA SameTables ==
  ASSUME UNCHANGED <<deployment, library>>
  PROVE  /\ RegisterTools' = RegisterTools /\ ToolDefinitions' = ToolDefinitions
         /\ doc' = doc => \A c \in Callers : Showable(c)' = Showable(c)
<1>1. UNCHANGED <<backends, readOnly, apiWrites, library>>
  BY DEF deployment
<1>2. /\ APITools' = APITools /\ Configured' = Configured
      /\ GrafanaWrites' = GrafanaWrites
  BY <1>1 DEF APITools, Configured, GrafanaWrites
<1>3. RegisterTools' = RegisterTools /\ ToolDefinitions' = ToolDefinitions
  BY <1>1, <1>2 DEF RegisterTools, ToolDefinitions
<1> QED
  BY <1>3 DEF Showable

(* A call under way is one of a caller's and was not audited if not performed. *)
LEMMA CallsAreRecords ==
  ASSUME call \in Calls
  PROVE  /\ call = [by |-> call.by, tool |-> call.tool,
                    state |-> call.state, audited |-> call.audited]
         /\ call.by \in Callers \cup {NoCaller} /\ call.tool \in Tools
         /\ call.state \in States /\ call.audited \in BOOLEAN
BY SomeTools DEF Calls, States

(* A step that moves the call under way to its next state, or its end. *)
Moves(state, audited) ==
  /\ call.state # "idle"
  /\ call' = [call EXCEPT !.state = state, !.audited = audited]
  /\ UNCHANGED <<deployment, policy, startup, listed, barred>>

LEMMA MovesKeeps ==
  ASSUME IInv, NEW state \in States \ {"idle"}, NEW audited \in BOOLEAN,
         Moves(state, audited),
         audited => state = "performed" /\ call.tool \in Writes,
         state \in {"authorized", "performed"} =>
           /\ call.by.door = "mcp" => call.tool \in registered
           /\ call.tool \notin barred,
         (state = "performed" /\ readOnly) => (call.tool \in Writes => call.by.door = "mcp"),
         state = "refused" => call.tool \notin listed
  PROVE  IInv'
<1>1. /\ TypeOK /\ Registration /\ CallAt /\ HistoryAt
      /\ call \in Calls /\ call.by \in Callers
  BY DEF IInv, TypeOK, Moves, CallAt
<1>2. /\ UNCHANGED <<deployment, doc, edits, stage, library, registered, listed, barred>>
      /\ UNCHANGED <<backends, readOnly, apiWrites>>
  BY DEF Moves, policy, startup, deployment
<1>3. call' = [by |-> call.by, tool |-> call.tool, state |-> state, audited |-> audited]
  BY <1>1, CallsAreRecords DEF Moves
<1>4. call' \in Calls
  <2>1. CASE audited
    <3>1. call' \in [by : Callers, tool : Writes, state : {"performed"}, audited : {TRUE}]
      BY <1>1, <1>3, <2>1
    <3> QED
      BY <3>1 DEF Calls
  <2>2. CASE ~audited
    <3>1. call' \in [by : Callers \cup {NoCaller}, tool : Tools, state : States,
                     audited : {FALSE}]
      BY <1>1, <1>3, <2>2, CallsAreRecords
    <3> QED
      BY <3>1 DEF Calls
  <2> QED
    BY <2>1, <2>2
<1>5. TypeOK'
  BY <1>1, <1>2, <1>4 DEF TypeOK
<1>6. Registration'
  BY <1>1, <1>2, <1>3, SameTables DEF Registration, Moves
<1>7. CallAt'
  BY <1>1, <1>2, <1>3 DEF CallAt
<1>8. HistoryAt'
  <2>1. OutOfReach(doc, call.by.principal)' = OutOfReach(doc, call.by.principal)
    BY <1>2, <1>3
  <2>2. Showable(call.by)' = Showable(call.by)
    <3>1. \A c \in Callers : Showable(c)' = Showable(c)
      BY <1>2, SameTables
    <3> QED
      BY <1>1, <1>2, <1>3, <3>1
  <2> QED
    BY <1>1, <1>2, <1>3, <2>1, <2>2 DEF HistoryAt, Moves
<1> QED
  BY <1>5, <1>6, <1>7, <1>8 DEF IInv

(* Handlers end a call that reached them, performed or failed. *)
LEMMA PerformKeeps ==
  ASSUME IInv, call.state = "authorized", NEW audited \in BOOLEAN,
         audited => call.tool \in Writes,
         Perform(call.tool, audited),
         readOnly => (call.tool \in Writes => call.by.door = "mcp"),
         UNCHANGED <<deployment, policy, startup, listed, barred>>
  PROVE  IInv'
<1>1. /\ call = [by |-> call.by, tool |-> call.tool,
                 state |-> call.state, audited |-> call.audited]
      /\ call.audited = FALSE /\ call.tool \notin barred
      /\ call.by.door = "mcp" => call.tool \in registered
  BY CallsAreRecords DEF IInv, TypeOK, CallAt, HistoryAt
<1>2. {"performed", "failed"} \subseteq States \ {"idle"}
  BY DEF States
<1>3. CASE Moves("performed", audited)
  BY <1>1, <1>2, <1>3, MovesKeeps
<1>4. CASE Moves("failed", FALSE)
  BY <1>2, <1>4, MovesKeeps
<1>5. Moves("performed", audited) \/ Moves("failed", FALSE)
  BY <1>1 DEF Perform, Outcome, Moves
<1> QED
  BY <1>3, <1>4, <1>5

LEMMA OutcomeKeeps ==
  ASSUME IInv, NEW state \in {"authorized", "refused"}, Outcome(state),
         call.state \in {"called", "authorized"},
         state = "authorized" =>
           /\ call.by.door = "mcp" => call.tool \in registered
           /\ call.tool \notin barred,
         state = "refused" => call.tool \notin listed,
         UNCHANGED <<deployment, policy, startup, listed, barred>>
  PROVE  IInv'
<1>1. /\ call = [by |-> call.by, tool |-> call.tool,
                 state |-> call.state, audited |-> call.audited]
      /\ call.audited = FALSE
  BY CallsAreRecords DEF IInv, TypeOK, CallAt
<1>2. Moves(state, FALSE)
  BY <1>1 DEF Outcome, Moves
<1> QED
  BY <1>2, MovesKeeps DEF States

(* A call that begins, with what its caller was shown before. *)
LEMMA BeginKeeps ==
  ASSUME IInv, stage = "serving", NEW c \in Callers, NEW tool \in Tools,
         NEW state \in {"listed", "called"},
         call' = Made(c, tool, state),
         barred' \subseteq OutOfReach(doc, c.principal), barred' \subseteq Tools,
         listed' \subseteq Showable(c),
         UNCHANGED <<deployment, policy, startup>>
  PROVE  IInv'
<1>1. TypeOK /\ Registration
  BY DEF IInv
<1>2. /\ UNCHANGED <<deployment, doc, edits, stage, library, registered>>
      /\ UNCHANGED <<backends, readOnly, apiWrites>>
  BY DEF policy, startup, deployment
<1>3. call' = [by |-> c, tool |-> tool, state |-> state, audited |-> FALSE]
  BY DEF Made
<1>4. RegisterTools' = RegisterTools /\ Showable(c)' = Showable(c)
  BY <1>2, SameTables
<1>5. TypeOK'
  <2>1. call' \in Calls
    BY <1>3 DEF Calls, States
  <2>2. listed' \subseteq Tools
    BY <1>1, TablesOfTools DEF Showable, TypeOK
  <2> QED
    BY <1>1, <1>2, <2>1, <2>2 DEF TypeOK
<1>6. Registration'
  BY <1>1, <1>2, <1>4 DEF Registration
<1>7. CallAt'
  BY <1>3 DEF CallAt
<1>8. HistoryAt'
  <2>1. OutOfReach(doc, c.principal)' = OutOfReach(doc, c.principal)
    BY <1>2
  <2>2. Showable(call.by)' = Showable(c)
    BY <1>3, <1>4 DEF Showable
  <2> QED
    BY <1>3, <2>1, <2>2 DEF HistoryAt
<1> QED
  BY <1>5, <1>6, <1>7, <1>8 DEF IInv

LEMMA OutOfReachTools == ASSUME NEW d, NEW p PROVE OutOfReach(d, p) \subseteq Tools
BY DEF OutOfReach

LEMMA NextIInv == IInv /\ [Next]_vars => IInv'
<1> SUFFICES ASSUME IInv, [Next]_vars PROVE IInv'
  OBVIOUS
<1>0. /\ TypeOK /\ Registration /\ CallAt /\ HistoryAt
      /\ readOnly \in BOOLEAN
  BY DEF IInv, TypeOK
<1>1. CASE AttachLibrary
  <2>1. /\ call.state = "idle" /\ registered = {} /\ stage' = "library"
        /\ UNCHANGED <<deployment, doc, edits, registered, call, listed, barred>>
        /\ UNCHANGED <<backends, readOnly, apiWrites>>
        /\ library' \in BOOLEAN
    BY <1>0, <1>1 DEF AttachLibrary, Registration, policy, deployment
  <2> QED
    BY <1>0, <2>1 DEF IInv, TypeOK, Registration, CallAt, HistoryAt
<1>2. CASE StartServing
  <2>1. /\ call.state = "idle" /\ stage' = "serving" /\ registered' = RegisterTools
        /\ UNCHANGED <<deployment, doc, edits, library, call, listed, barred>>
        /\ UNCHANGED <<backends, readOnly, apiWrites>>
    BY <1>0, <1>2 DEF StartServing, Registration, policy, deployment
  <2>2. RegisterTools' = RegisterTools /\ RegisterTools \subseteq Tools
    BY <1>0, <2>1, SameTables, TablesOfTools
  <2> QED
    BY <1>0, <2>1, <2>2 DEF IInv, TypeOK, Registration, CallAt, HistoryAt
<1>3. ASSUME NEW c \in Callers, ListTools(c) PROVE IInv'
  <2>1. stage = "serving" /\ registered = RegisterTools /\ barred = {}
    BY <1>0, <1>3 DEF ListTools, Free, Registration, HistoryAt
  <2>2. listed' \subseteq Showable(c)
    BY <1>0, <1>3, <2>1, ListingsAreShowable DEF ListTools
  <2> QED
    BY <1>3, <2>1, <2>2, SomeTools, BeginKeeps DEF ListTools
<1>4. ASSUME NEW c \in Callers, NEW tool \in Tools, CallTool(c, tool) PROVE IInv'
  <2>1. stage = "serving" /\ listed \subseteq Showable(c)
    BY <1>0, <1>4 DEF CallTool, Free, Registration, HistoryAt
  <2> QED
    BY <1>4, <2>1, OutOfReachTools, BeginKeeps DEF CallTool
<1>5. CASE Unknown
  <2>1. /\ stage = "serving" /\ registered = RegisterTools
        /\ listed \subseteq RegisterTools
    BY <1>0, <1>5 DEF Unknown, Registration, HistoryAt, Showable
  <2> QED
    BY <1>5, <2>1, OutcomeKeeps DEF Unknown
<1>6. CASE Authorize
  <2>1. /\ call.state = "called"
        /\ barred \subseteq OutOfReach(doc, call.by.principal)
        /\ listed \subseteq Showable(call.by)
    BY <1>0, <1>6 DEF Authorize, HistoryAt
  <2>2. CASE Allows(doc, call.by.principal, call.tool)
    <3>1. Outcome("authorized") /\ call.tool \notin barred
      BY <1>6, <2>1, <2>2, OutOfReachIsRefused DEF Authorize
    <3> QED
      BY <1>6, <2>1, <3>1, OutcomeKeeps DEF Authorize
  <2>3. CASE ~Allows(doc, call.by.principal, call.tool)
    <3>1. Outcome("refused") /\ call.tool \notin listed
      BY <1>6, <2>1, <2>3 DEF Authorize, Showable
    <3> QED
      BY <1>6, <2>1, <3>1, OutcomeKeeps DEF Authorize
  <2> QED
    BY <2>2, <2>3
<1>7. CASE Dispatch
  <2>1. CASE readOnly /\ call.tool \in Writes
    <3>1. call.tool \notin listed
      BY <1>0, <1>7, <2>1, TablesOfTools DEF Dispatch, HistoryAt, Showable
    <3> QED
      BY <1>7, <2>1, <3>1, OutcomeKeeps DEF Dispatch
  <2>2. CASE ~(readOnly /\ call.tool \in Writes)
    <3>1. (call.tool \in Writes) \in BOOLEAN
      OBVIOUS
    <3> QED
      BY <1>7, <2>2, <3>1, PerformKeeps DEF Dispatch
  <2> QED
    BY <2>1, <2>2
<1>8. CASE Handle
  <2>1. (call.tool = "grafana_write") \in BOOLEAN
    OBVIOUS
  <2> QED
    BY <1>8, <2>1, PerformKeeps DEF Handle, Writes
<1>9. CASE Return
  <2>1. /\ call' = NoCall /\ NoCall \in Calls
        /\ NoCall.state = "idle" /\ NoCall.audited = FALSE
    BY <1>9, SomeTools DEF Return, NoCall, Made, Calls, States
  <2>2. /\ UNCHANGED <<deployment, doc, edits, stage, library, registered>>
        /\ UNCHANGED <<backends, readOnly, apiWrites>>
        /\ listed' = {} /\ barred' = {}
    BY <1>9 DEF Return, policy, startup, deployment
  <2>3. RegisterTools' = RegisterTools
    BY <2>2, SameTables
  <2> QED
    BY <1>0, <2>1, <2>2, <2>3 DEF IInv, TypeOK, Registration, CallAt, HistoryAt
<1>10. ASSUME NEW d \in Documents, Edit(d) PROVE IInv'
  <2>1. /\ doc' = d /\ listed' = {} /\ edits' \in 0 .. MaxEdits
        /\ UNCHANGED <<deployment, stage, library, registered, call>>
        /\ UNCHANGED <<backends, readOnly, apiWrites>>
    BY <1>0, <1>10, EditsAssumption DEF Edit, startup, deployment, TypeOK
  <2>2. /\ barred' \subseteq barred
        /\ barred' \subseteq OutOfReach(d, call.by.principal)
    BY <1>10 DEF Edit
  <2>3. RegisterTools' = RegisterTools
    BY <2>1, SameTables
  <2>4. HistoryAt'
    <3>1. OutOfReach(doc, call.by.principal)' = OutOfReach(d, call.by.principal)
      BY <2>1
    <3> QED
      BY <1>0, <2>1, <2>2, <3>1 DEF HistoryAt
  <2> QED
    BY <1>0, <2>1, <2>2, <2>3, <2>4 DEF IInv, TypeOK, Registration, CallAt
<1>11. CASE UNCHANGED vars
  <2>1. /\ UNCHANGED <<deployment, library, doc, edits, stage, registered, call, listed, barred>>
        /\ UNCHANGED <<backends, readOnly, apiWrites>>
    BY <1>11 DEF vars, policy, startup, deployment
  <2>2. RegisterTools' = RegisterTools /\ Showable(call.by)' = Showable(call.by)
    BY <2>1, SameTables DEF Showable
  <2>3. OutOfReach(doc, call.by.principal)' = OutOfReach(doc, call.by.principal)
    BY <2>1
  <2> QED
    BY <1>0, <2>1, <2>2, <2>3 DEF IInv, TypeOK, Registration, CallAt, HistoryAt
<1> QED
  BY <1>1, <1>2, <1>3, <1>4, <1>5, <1>6, <1>7, <1>8, <1>9, <1>10, <1>11 DEF Next

LEMMA Invariance == Spec => []IInv
BY InitIInv, NextIInv, PTL DEF Spec

-----------------------------------------------------------------------------
(* The names of the tools, as the getters, the handlers and the switches of  *)
(* the process have them.                                                    *)

(* What the getters of the built-in tools advertise. *)
LEMMA AdvertisedTables ==
  /\ DOMAIN Advertised = {"list_my_tools", "utility", "investigations"}
                           \cup (DOMAIN Gated \ {"api_read", "api_write"})
  /\ DOMAIN Advertised \subseteq Tools
  /\ Advertised["investigations"] = getInvestigationTools
  /\ Advertised["loki"] = getLokiTools
  /\ Advertised["github"] = getGitHubTools
  /\ Advertised["gitlab"] = getGitLabTools
  /\ Advertised["tempo"] = getTempoTools
  /\ Advertised["database"] = getDatabaseTools
  /\ Advertised["k8s"] = getK8sTools
  /\ Advertised["prometheus"] = getPrometheusTools
  /\ Advertised["graphql"] = getGraphQLTools
  /\ Advertised["ecr"] = getECRTools
  /\ Advertised["aws"] = getAWSTools
  /\ Advertised["cloudwatch_logs"] = getCloudWatchTools
  /\ Advertised["cloudwatch_metrics"] = getCloudWatchMetricsTools
  /\ Advertised["cloudwatch_alarms"] = getCloudWatchAlarmsTools
  /\ Advertised["grafana_read"] = getGrafanaReadTools
  /\ Advertised["grafana_write"] = getGrafanaWriteTools
  /\ Advertised["list_my_tools"] = [list_my_tools |-> getUtilityTools.list_my_tools]
  /\ Advertised["utility"] = [name \in DOMAIN getUtilityTools \ {"list_my_tools"} |->
                                getUtilityTools[name]]
BY GatedTools DEF Advertised, Tools, Utility

(* A getter advertises what its family has handlers for; Grafana's writing   *)
(* tools are those that READ_ONLY refuses.                                   *)
LEMMA NamesOfGetters ==
  /\ NamesOf["list_my_tools"] = {"list_my_tools"}
  /\ NamesOf["utility"] = {"whois_lookup", "generate_pdf"}
  /\ NamesOf["investigations"] = registerInvestigationTools
  /\ NamesOf["loki"] = registerLokiTools
  /\ NamesOf["github"] = registerGitHubTools
  /\ NamesOf["gitlab"] = registerGitLabTools
  /\ NamesOf["tempo"] = registerTempoTools
  /\ NamesOf["database"] = registerDatabaseTools
  /\ NamesOf["k8s"] = registerK8sTools
  /\ NamesOf["prometheus"] = registerPrometheusTools
  /\ NamesOf["graphql"] = registerGraphQLTools
  /\ NamesOf["ecr"] = {"ecr_scan_results"}
  /\ NamesOf["aws"] = registerAWSTools
  /\ NamesOf["cloudwatch_logs"] =
       {"cloudwatch_logs_query", "cloudwatch_logs_list_groups", "cloudwatch_logs_get_events"}
  /\ NamesOf["cloudwatch_metrics"] =
       {"cloudwatch_metrics_list", "cloudwatch_metrics_get_statistics",
        "cloudwatch_metrics_query"}
  /\ NamesOf["cloudwatch_alarms"] = {"cloudwatch_alarms_list", "cloudwatch_alarms_history"}
  /\ NamesOf["grafana_read"] =
       {"grafana_list_dashboards", "grafana_get_dashboard", "grafana_get_dashboard_version"}
  /\ NamesOf["grafana_write"] = isWriteTool
  /\ NamesOf["api_read"] = {} /\ NamesOf["api_write"] = {}
<1>1. /\ \A t \in DOMAIN Advertised : NamesOf[t] = DOMAIN Advertised[t]
      /\ NamesOf["api_read"] = {} /\ NamesOf["api_write"] = {}
  <2>1. \A t \in DOMAIN Advertised : NamesOf[t] = DOMAIN Advertised[t]
    BY AdvertisedTables DEF NamesOf
  <2>2. NamesOf["api_read"] = {} /\ NamesOf["api_write"] = {}
    BY AdvertisedTables, SomeTools, GatedTools DEF NamesOf, Tools
  <2> QED
    BY <2>1, <2>2
<1> USE AdvertisedTables, GatedTools DEF ++
<1>2. /\ NamesOf["list_my_tools"] = {"list_my_tools"}
      /\ NamesOf["utility"] = {"whois_lookup", "generate_pdf"}
  BY <1>1 DEF getUtilityTools
<1>3. NamesOf["investigations"] = registerInvestigationTools
  BY <1>1 DEF getInvestigationTools, registerInvestigationTools
<1>4. NamesOf["loki"] = registerLokiTools
  BY <1>1 DEF getLokiTools, getLokiQueryTool, getLokiLabelNamesTool,
              getLokiLabelValuesTool, registerLokiTools
<1>5. NamesOf["github"] = registerGitHubTools /\ NamesOf["gitlab"] = registerGitLabTools
  BY <1>1 DEF getGitHubTools, registerGitHubTools, getGitLabTools, registerGitLabTools
<1>6. NamesOf["tempo"] = registerTempoTools /\ NamesOf["database"] = registerDatabaseTools
  BY <1>1 DEF getTempoTools, registerTempoTools, getDatabaseTools, registerDatabaseTools
<1>7. NamesOf["k8s"] = registerK8sTools /\ NamesOf["graphql"] = registerGraphQLTools
  BY <1>1 DEF getK8sTools, registerK8sTools, getGraphQLTools, registerGraphQLTools
<1>8. NamesOf["prometheus"] = registerPrometheusTools
  BY <1>1 DEF getPrometheusTools, getPrometheusQueryTool, getPrometheusQueryRangeTool,
              getPrometheusSeriesAndLabelTools, registerPrometheusTools
<1>9. NamesOf["ecr"] = {"ecr_scan_results"}
  BY <1>1 DEF getECRTools
<1>10. NamesOf["aws"] = registerAWSTools
  BY <1>1 DEF getAWSTools, getSTSTools, getIAMTools, getEC2Tools, getECSTools,
              getRoute53Tools, getS3Tools, registerAWSTools
<1>11. NamesOf["cloudwatch_logs"] =
         {"cloudwatch_logs_query", "cloudwatch_logs_list_groups", "cloudwatch_logs_get_events"}
  BY <1>1 DEF getCloudWatchTools
<1>12. /\ NamesOf["cloudwatch_metrics"] =
            {"cloudwatch_metrics_list", "cloudwatch_metrics_get_statistics",
             "cloudwatch_metrics_query"}
       /\ NamesOf["cloudwatch_alarms"] =
            {"cloudwatch_alarms_list", "cloudwatch_alarms_history"}
  BY <1>1 DEF getCloudWatchMetricsTools, cloudWatchMetricsListTool,
              cloudWatchMetricsStatisticsTool, cloudWatchMetricsQueryTool,
              getCloudWatchAlarmsTools, cloudWatchAlarmsListTool, cloudWatchAlarmsHistoryTool
<1>13. NamesOf["grafana_read"] =
         {"grafana_list_dashboards", "grafana_get_dashboard", "grafana_get_dashboard_version"}
  BY <1>1 DEF getGrafanaReadTools
<1>14. NamesOf["grafana_write"] = isWriteTool
  BY <1>1 DEF getGrafanaWriteTools, getGrafanaCreateDashboardTool, getGrafanaModifyTools,
              getGrafanaPatchDashboardTool, isWriteTool
<1> QED
  BY <1>1, <1>2, <1>3, <1>4, <1>5, <1>6, <1>7, <1>8, <1>9, <1>10, <1>11, <1>12, <1>13, <1>14

(* Every advertised name has a handler and a case in the switches. *)
LEMMA NamesAreServed ==
  ASSUME NEW t \in Tools
  PROVE  NamesOf[t] \subseteq Handlers /\ NamesOf[t] \subseteq Dispatched
<1> USE NamesOfGetters, GatedTools
        DEF registerInvestigationTools, registerLokiTools, registerGitHubTools,
            registerGitLabTools, registerTempoTools, registerDatabaseTools,
            registerK8sTools, registerPrometheusTools, registerGraphQLTools,
            registerAWSTools, isWriteTool
<1>1. NamesOf[t] \subseteq Handlers
  BY DEF Tools, Utility, Handlers, registerUtilityTools, registerECRTools, getECRTools,
         registerCloudWatchTools, registerGrafanaTools
<1>2. NamesOf[t] \subseteq Dispatched
  BY DEF Tools, Utility, Dispatched, dispatchToolCall, dispatchExtendedToolCall,
         dispatchAdditionalToolCall, dispatchLokiTool, dispatchGitLabTool,
         dispatchTempoTool, dispatchAWSTool
<1> QED
  BY <1>1, <1>2

(* No name is advertised by two getters. *)
LEMMA NamesAreDistinct ==
  ASSUME NEW t \in Tools, NEW u \in Tools, t # u
  PROVE  NamesOf[t] \cap NamesOf[u] = {}
BY NamesOfGetters, GatedTools
   DEF Tools, Utility, registerInvestigationTools, registerLokiTools, registerGitHubTools,
       registerGitLabTools, registerTempoTools, registerDatabaseTools,
       registerK8sTools, registerPrometheusTools, registerGraphQLTools,
       registerAWSTools, isWriteTool

(* An executor insists on no argument that the schema of its tool does not.  *)
Keeps(table, t) ==
  /\ t \in DOMAIN Advertised
  /\ \A name \in DOMAIN table :
       name \in DOMAIN Advertised[t] /\ table[name] \subseteq Advertised[t][name]

LEMMA ExecutorsKeepToSchemas ==
  ASSUME NEW table \in Executors
  PROVE  \E t \in Tools : Keeps(table, t)
<1>1. \A reader \in {executeWhoisLookup, executeGeneratePDF} :
        Keeps(reader, "utility")
  BY AdvertisedTables, GatedTools DEF Keeps, getUtilityTools, executeWhoisLookup,
         executeGeneratePDF
<1>2. \A reader \in {executeGetInvestigation, executeMatchInvestigation} :
        Keeps(reader, "investigations")
  BY AdvertisedTables, GatedTools DEF Keeps, getInvestigationTools,
         executeGetInvestigation, executeMatchInvestigation
<1>3. \A reader \in {parseTimeRange, executeLokiLabelValues} : Keeps(reader, "loki")
  BY AdvertisedTables, GatedTools DEF Keeps, getLokiTools, getLokiQueryTool,
         getLokiLabelNamesTool, getLokiLabelValuesTool, ++, parseTimeRange,
         executeLokiLabelValues
<1>4. \A reader \in {executeGitLabGetFile, executeGitLabListDirectory,
                    executeGitLabSearchCode} : Keeps(reader, "gitlab")
  BY AdvertisedTables, GatedTools DEF Keeps, getGitLabTools, executeGitLabGetFile,
         executeGitLabListDirectory, executeGitLabSearchCode
<1>5. \A reader \in {executeTempoGetTrace, executeTempoSearchTraces} :
        Keeps(reader, "tempo")
  BY AdvertisedTables, GatedTools DEF Keeps, getTempoTools, executeTempoGetTrace,
         executeTempoSearchTraces
<1>6. \A reader \in {executeDatabaseQuery} : Keeps(reader, "database")
  BY AdvertisedTables, GatedTools DEF Keeps, getDatabaseTools, executeDatabaseQuery
<1>7. \A reader \in {executePrometheusQuery, executePrometheusQueryRange,
                    parseMatchersArg, executePrometheusLabelValues} : Keeps(reader, "prometheus")
  BY AdvertisedTables, GatedTools DEF Keeps, getPrometheusTools, getPrometheusQueryTool,
         getPrometheusQueryRangeTool, getPrometheusSeriesAndLabelTools, ++,
         executePrometheusQuery, executePrometheusQueryRange, parseMatchersArg,
         executePrometheusLabelValues
<1>8. \A reader \in {executeGraphQLQuery} : Keeps(reader, "graphql")
  BY AdvertisedTables, GatedTools DEF Keeps, getGraphQLTools, executeGraphQLQuery
<1>9. \A reader \in {parseAccountsArg} : Keeps(reader, "ecr")
  BY AdvertisedTables, GatedTools DEF Keeps, getECRTools, parseAccountsArg
<1>10. \A reader \in {executeIAMGetRole, executeRoute53ListRecords, executeS3GetBucketPolicy,
                     executeECSListServices, executeECSListTasks,
                     executeECSDescribeServices, executeECSDescribeTasks,
                     executeECSDescribeTaskDefinition} : Keeps(reader, "aws")
  <2>1. /\ "aws" \in DOMAIN Advertised
        /\ Advertised["aws"] = getAWSTools /\ DOMAIN getAWSTools = registerAWSTools
    BY AdvertisedTables, GatedTools, NamesOfGetters DEF NamesOf, Tools
  <2>2. /\ getAWSTools["iam_get_role"] = {"role_name"}
        /\ getAWSTools["route53_list_records"] = {"zone_id"}
        /\ getAWSTools["s3_get_bucket_policy"] = {"bucket"}
    BY DEF getAWSTools, getSTSTools, getIAMTools, getEC2Tools, getECSTools,
           getRoute53Tools, getS3Tools, ++
  <2>3. /\ getAWSTools["ecs_list_services"] = {"cluster"}
        /\ getAWSTools["ecs_list_tasks"] = {"cluster"}
        /\ getAWSTools["ecs_describe_services"] = {"cluster", "services"}
        /\ getAWSTools["ecs_describe_tasks"] = {"cluster", "tasks"}
        /\ getAWSTools["ecs_describe_task_definition"] = {"task_definition"}
    BY DEF getAWSTools, getSTSTools, getIAMTools, getEC2Tools, getECSTools, ++
  <2>4. \A reader \in {executeIAMGetRole, executeRoute53ListRecords, executeS3GetBucketPolicy} :
          Keeps(reader, "aws")
    BY <2>1, <2>2 DEF Keeps, registerAWSTools, executeIAMGetRole,
                      executeRoute53ListRecords, executeS3GetBucketPolicy
  <2>5. \A reader \in {executeECSListServices, executeECSListTasks,
                      executeECSDescribeServices, executeECSDescribeTasks,
                      executeECSDescribeTaskDefinition} : Keeps(reader, "aws")
    BY <2>1, <2>3 DEF Keeps, registerAWSTools, executeECSListServices, executeECSListTasks,
                      executeECSDescribeServices, executeECSDescribeTasks,
                      executeECSDescribeTaskDefinition
  <2> QED
    BY <2>4, <2>5
<1>11. \A reader \in {executeCloudWatchLogsQuery, executeCloudWatchLogsGetEvents} :
        Keeps(reader, "cloudwatch_logs")
  BY AdvertisedTables, GatedTools DEF Keeps, getCloudWatchTools,
         executeCloudWatchLogsQuery, executeCloudWatchLogsGetEvents
<1>12. \A reader \in {executeCloudWatchMetricsGetStatistics,
                     executeCloudWatchMetricsQuery} : Keeps(reader, "cloudwatch_metrics")
  BY AdvertisedTables, GatedTools DEF Keeps, getCloudWatchMetricsTools,
         cloudWatchMetricsListTool, cloudWatchMetricsStatisticsTool,
         cloudWatchMetricsQueryTool, ++, executeCloudWatchMetricsGetStatistics,
         executeCloudWatchMetricsQuery
<1>13. \A reader \in {executeGrafanaGetDashboard, executeGrafanaGetDashboardVersion} :
        Keeps(reader, "grafana_read")
  BY AdvertisedTables, GatedTools DEF Keeps, getGrafanaReadTools,
         executeGrafanaGetDashboard, executeGrafanaGetDashboardVersion
<1>14. \A reader \in {executeGrafanaRestoreDashboardVersion,
                     executeGrafanaCreateDashboard, executeGrafanaUpdateDashboard,
                     executeGrafanaPatchDashboard, executeGrafanaCreateFolder,
                     executeGrafanaDeleteDashboard} : Keeps(reader, "grafana_write")
  BY AdvertisedTables, GatedTools DEF Keeps, getGrafanaWriteTools,
         getGrafanaCreateDashboardTool, getGrafanaModifyTools,
         getGrafanaPatchDashboardTool, ++, executeGrafanaRestoreDashboardVersion,
         executeGrafanaCreateDashboard, executeGrafanaUpdateDashboard,
         executeGrafanaPatchDashboard, executeGrafanaCreateFolder,
         executeGrafanaDeleteDashboard
<1>15. {"utility", "investigations", "loki", "gitlab", "tempo", "database", "prometheus",
        "graphql", "ecr", "aws", "cloudwatch_logs", "cloudwatch_metrics",
        "grafana_read", "grafana_write"} \subseteq Tools
  BY GatedTools DEF Tools, Utility
<1> QED
  BY <1>1, <1>2, <1>3, <1>4, <1>5, <1>6, <1>7, <1>8, <1>9, <1>10, <1>11, <1>12,
     <1>13, <1>14, <1>15
     DEF Executors

LEMMA TheSchemasHold == SchemasHold
<1>1. \A t, u \in Tools : t # u => NamesOf[t] \cap NamesOf[u] = {}
  BY NamesAreDistinct
<1>2. UNION {NamesOf[t] : t \in Writes} = isWriteTool
  <2>1. \A t \in Writes : t = "grafana_write" \/ t = "api_write"
    BY DEF Writes
  <2> QED
    BY <2>1, NamesOfGetters DEF Writes
<1>3. ASSUME NEW table \in Executors, NEW name \in DOMAIN table
      PROVE  \E t \in DOMAIN Advertised :
               name \in NamesOf[t] /\ table[name] \subseteq Advertised[t][name]
  <2>1. PICK t \in Tools : Keeps(table, t)
    BY ExecutorsKeepToSchemas
  <2>2. t \in DOMAIN Advertised /\ NamesOf[t] = DOMAIN Advertised[t]
    BY <2>1 DEF Keeps, NamesOf
  <2> QED
    BY <2>1, <2>2 DEF Keeps
<1> QED
  BY <1>1, <1>2, <1>3 DEF SchemasHold

-----------------------------------------------------------------------------
(* Theorems.                                                                 *)

(* The deployment, the policy, the two tables and the call have their types; *)
(* in particular only a write that was performed is audited as performed.    *)
THEOREM TypesHold == Spec => []TypeOK
<1>1. IInv => TypeOK
  BY DEF IInv
<1> QED
  BY <1>1, Invariance, PTL

(* Whatever backends are configured and with READ_ONLY or without, a tool    *)
(* the Server advertises is registered with the SDK server, the two tables   *)
(* are the same unless READ_ONLY is set, every name has a handler and a case *)
(* in the switches of the process, and the schemas are what the executors    *)
(* insist on (transport_parity_test.go tests a few deployments).             *)
THEOREM DoorsAgree == Spec => []TablesAgree
<1>1. ASSUME IInv PROVE TablesAgree
  <2>1. readOnly \in BOOLEAN /\ registered \subseteq Tools /\ Registration
    BY <1>1 DEF IInv, TypeOK
  <2>2. ToolDefinitions \subseteq Tools
    BY <2>1, TablesOfTools
  <2>3. \A t \in ToolDefinitions : NamesOf[t] \subseteq Dispatched
    BY <2>2, NamesAreServed
  <2>4. \A t \in registered : NamesOf[t] \subseteq Handlers
    BY <2>1, NamesAreServed
  <2>5. stage = "serving" =>
          /\ ToolDefinitions \subseteq registered
          /\ ~readOnly => registered = ToolDefinitions
    BY <2>1, TablesOfTools DEF Registration
  <2> QED
    BY <2>3, <2>4, <2>5, TheSchemasHold DEF TablesAgree
<1> QED
  BY <1>1, Invariance, PTL

(* Under READ_ONLY no write is performed for the Slack agent, advertised or  *)
(* not, and Grafana is not written to through either door.                   *)
THEOREM ReadOnlyRefusesWrites == Spec => []WritesRefused
<1>1. ASSUME IInv, readOnly
      PROVE  /\ Performed(Writes) => call.by.door # "slack"
             /\ ~Performed({"grafana_write"})
  <2>1. /\ Registration /\ CallAt
        /\ "grafana_write" \notin RegisterTools
    BY <1>1, TablesOfTools DEF IInv, TypeOK
  <2>2. "grafana_write" \notin registered
    BY <2>1 DEF Registration
  <2> QED
    BY <1>1, <2>1, <2>2 DEF CallAt, Performed, Writes
<1>2. IInv => WritesRefused
  BY <1>1 DEF WritesRefused
<1> QED
  BY <1>2, Invariance, PTL

(* A tool that all roles keep to the other front-end is not performed on     *)
(* this one, however the policy is edited between the call and its decision, *)
(* unless an edit put it within reach.                                       *)
THEOREM ScopesOfRolesHold == Spec => []ScopesHold
<1>1. IInv => ScopesHold
  BY DEF IInv, HistoryAt, ScopesHold, Performed
<1> QED
  BY <1>1, Invariance, PTL

(* As long as the policy stays, a tool that list_my_tools or the catalog of  *)
(* its door showed a caller is not refused to it, and has a backend.         *)
THEOREM ShownToolsAreServed == Spec => []ListedIsServed
<1>1. ASSUME IInv, call.tool \in listed
      PROVE  /\ call.state # "refused"
             /\ call.state = "authorized" => Served(call.tool) /\ Permitted(call.tool)
  <2>1. call.state # "idle" /\ call.tool \in RegisterTools
    BY <1>1 DEF IInv, HistoryAt, Showable
  <2> QED
    BY <1>1, <2>1, RegisteredIsServed DEF IInv, HistoryAt
<1>2. IInv => ListedIsServed
  BY <1>1 DEF ListedIsServed
<1> QED
  BY <1>2, Invariance, PTL
=============================================================================
