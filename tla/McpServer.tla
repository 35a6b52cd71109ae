------------------------------ MODULE McpServer ------------------------------
(***************************************************************************)
(* Seven parts of the MCP server that share nothing with one another: who   *)
(* may use it over HTTP, and what stands behind its tools. A behaviour is   *)
(* one in which the part that "focus" names moves; the others stand still   *)
(* in one of their initial states, as they may.                             *)
(*                                                                         *)
(* So a behaviour of the server is one of each part, and what holds of a    *)
(* part holds of the server.                                                *)
(***************************************************************************)
EXTENDS Integers, SequencesExt

CONSTANTS
  Workers,  \* requests, handlers or calls at a time
  (* HttpAuth *)
  Credentials, People, Contents, Axes, CacheTime, ProviderTimeout, MaxChanges,
  (* DashboardEdits *)
  Uids, Fields, Values, Folders, Operations, First, MaxOutside,
  (* ApiClient *)
  ApiDirectories, AllowedMethods, Params,
  (* LogSearches *)
  Deployments, Searches, MaxWait, Interval, CallTime,
  (* PagedReads *)
  Repositories, Limits, PageCap, Described, Batch,
  (* NamedEndpoints *)
  Environments, Requested, Lifetimes, Buffer, EndpointTimeout, MaxConns, MaxCrashes,
  (* SkillMatching *)
  SkillDirectories, Context, Budget, Questions, Investigations, Principals, Documents,
  NoPolicy, MaxEdits

VARIABLES
  focus,
  server, provider, changes, vouched, since, keys, keysAge, identities, file, lists, req,
  boards, outside, wire, edits,
  configs, inUse, apiCalls,
  conf, search,
  read,
  env, clients, left, fresh, lock, crashes, calls,
  library, given, doc, policyEdits, asked, barred, granted

httpVars  == <<server, provider, changes, vouched, since, keys, keysAge, identities,
               file, lists, req>>
boardVars == <<boards, outside, wire, edits>>
apiVars   == <<configs, inUse, apiCalls>>
logVars   == <<conf, search>>
namedVars == <<env, clients, left, fresh, lock, crashes, calls>>
skillVars == <<library, given, doc, policyEdits, asked, barred, granted>>

vars == <<focus, httpVars, boardVars, apiVars, logVars, read, namedVars, skillVars>>

-----------------------------------------------------------------------------
Http == INSTANCE HttpAuth WITH
  Requests <- Workers, Callers <- People, Timeout <- ProviderTimeout

Boards == INSTANCE DashboardEdits WITH Handlers <- Workers, calls <- edits

Api == INSTANCE ApiClient WITH
  Directories <- ApiDirectories, Callers <- Workers, calls <- apiCalls

Log == INSTANCE LogSearches WITH call <- search

Paged == INSTANCE PagedReads WITH Names <- Described

Named == INSTANCE NamedEndpoints WITH Callers <- Workers, Timeout <- EndpointTimeout

Skills == INSTANCE SkillMatching WITH
  Directories <- SkillDirectories, Names <- Investigations, Callers <- Principals,
  edits <- policyEdits, call <- asked

ASSUME WorkersAssumption == IsFiniteSet(Workers)
ASSUME PartsAssumption ==
  /\ Http!ConstantsOK /\ Boards!ConstantsOK /\ Api!ConstantsOK
  /\ Log!ConstantsOK /\ Paged!ConstantsOK /\ Named!ConstantsOK
  /\ Skills!ConstantsOK

-----------------------------------------------------------------------------
(* The parts that stand still do so in the same state each time.             *)

Some(S) == CHOOSE x \in S : TRUE

HttpStill   == vouched = {} /\ \A a \in Http!Files : file[a].list = Some(Contents)
BoardsStill == LET board == boards[Some(Uids)] IN
               Boards!There(Some(Uids)) /\ board.folder = Some(Folders)
ApiStill    == configs = Api!LoadConfigs(Some(ApiDirectories))
LogStill    == conf = Some(Deployments)
NamedStill  == env = Some(Environments) /\ clients = Named!NewServer(env, {})
SkillsStill == library = Skills!NewSkillLibrary(Some(SkillDirectories)) /\ doc = NoPolicy

Init ==
  /\ focus \in {"http", "boards", "api", "log", "paged", "named", "skills"}
  /\ Http!Init
  /\ focus # "http" => HttpStill
  /\ Boards!Init
  /\ focus # "boards" => BoardsStill
  /\ Api!Init
  /\ focus # "api" => ApiStill
  /\ Log!Init
  /\ focus # "log" => LogStill
  /\ Paged!Init
  /\ Named!Init
  /\ focus # "named" => NamedStill
  /\ Skills!Init
  /\ focus # "skills" => SkillsStill

Next ==
  \/ focus = "http" /\ Http!Next
     /\ UNCHANGED <<focus, boardVars, apiVars, logVars, read, namedVars, skillVars>>
  \/ focus = "boards" /\ Boards!Next
     /\ UNCHANGED <<focus, httpVars, apiVars, logVars, read, namedVars, skillVars>>
  \/ focus = "api" /\ Api!Next
     /\ UNCHANGED <<focus, httpVars, boardVars, logVars, read, namedVars, skillVars>>
  \/ focus = "log" /\ Log!Next
     /\ UNCHANGED <<focus, httpVars, boardVars, apiVars, read, namedVars, skillVars>>
  \/ focus = "paged" /\ Paged!Next
     /\ UNCHANGED <<focus, httpVars, boardVars, apiVars, logVars, namedVars, skillVars>>
  \/ focus = "named" /\ Named!Next
     /\ UNCHANGED <<focus, httpVars, boardVars, apiVars, logVars, read, skillVars>>
  \/ focus = "skills" /\ Skills!Next
     /\ UNCHANGED <<focus, httpVars, boardVars, apiVars, logVars, read, namedVars>>

Spec == Init /\ [][Next]_vars /\ Api!Fairness /\ Log!Fairness /\ Named!Fairness

-----------------------------------------------------------------------------
(* Each property is that of the part it belongs to, where it is explained.    *)

(* The types of the state of the part that moves.                             *)
TypeOK ==
  /\ focus = "http" => Http!TypeOK
  /\ focus = "boards" => Boards!TypeOK
  /\ focus = "api" => Api!TypeOK
  /\ focus = "log" => Log!TypeOK
  /\ focus = "paged" => Paged!TypeOK
  /\ focus = "named" => Named!TypeOK
  /\ focus = "skills" => Skills!TypeOK

(* Nobody is let in on an allowlist older than the file was when the request  *)
(* came (auth/listsource.go:59-93).                                           *)
ListsCurrent == Http!ListsCurrent

(* A withdrawn credential dies with its cache entry and the call that was     *)
(* under way (auth/oidc.go:407-499, auth/google.go:285-310).                  *)
WithdrawnExpires == Http!WithdrawnExpires

(* A key that was just fetched is missing only if another request replaced    *)
(* the map (auth/oidc.go:426-433).                                            *)
RefusedOnlyByRace == Http!RefusedOnlyByRace

(* A Grafana write that is reported and logged took effect once               *)
(* (mcp/server.go:1657-1990).                                                 *)
ReportsAreTrue == Boards!ReportsAreTrue

(* An edit of a dashboard nobody else touched changes what it names only      *)
(* (mcp/grafana.go:476-483).                                                  *)
EditsKeepTheRest == Boards!EditsKeepTheRest

(* The slots of an API's client are those its calls hold                      *)
(* (apiconfig/client.go:74-81).                                               *)
SlotsAreCalls == Api!SlotsAreCalls

(* What is sent to an API is an endpoint whose tool was called, by a method   *)
(* the deployment allows (apiconfig/tools.go:193-212).                        *)
SentAsChecked == Api!SentAsChecked

(* A search that found nothing names what it did not search                   *)
(* (mcp/cloudwatch.go:566-598, mcp/logsources.go).                            *)
EmptyAnswersLeadOn == Log!EmptyAnswersLeadOn

(* No request goes to a tenant that is not allowed (tenant/tenant.go:136).    *)
OnlyAllowedTenants == Log!OnlyAllowedTenants

(* A list is complete, at its limit, or marked as truncated, and what is      *)
(* asked to be described comes back, in batches AWS takes                     *)
(* (mcp/ecs.go:494-501, 529-669).                                             *)
ReadsAreWhole == Paged!ListsAreTold /\ Paged!BatchesCover

(* No tool names an investigation its caller may not know of, nor keeps one   *)
(* from it that it may (mcp/investigation_authz.go:42-110).                   *)
SkillsAsPermitted == Skills!SkillsAsPermitted

(* A request goes to the endpoint that was named, with a token that counts    *)
(* (mcp/graphql_oauth2.go:43-128).                                            *)
SentAsConfigured == Named!SentAsConfigured

(* Every call of a third-party API, of a log backend and of a named endpoint  *)
(* ends, whatever waits for a slot, a lock, a connection or a query           *)
(* (apiconfig/client.go:76, mcp/cloudwatch.go:999, mcp/graphql_oauth2.go:43): *)
(* what is done stays so, and again and again nothing is under way.           *)
CallsEnd == []<>(Api!NoneUnderWay /\ Log!NoneUnderWay /\ Named!NoneUnderWay)
=============================================================================
