# diagnostic-bot: a specification

TLA+ modules of the concurrent and stateful parts of diagnostic-bot, TLC
configurations that check them on small instances, and theorems checked by
TLAPS. The bot answers diagnostic questions: in Slack, by running an agent loop
around a language model, and over MCP (HTTP), by serving the same tools to other
clients. The specification is about what happens when users, edits of
configuration, outages, panics and lost answers meet in an order nobody tried.

Every definition is a translation of the Go source; `PROJECT.json` gives the
lines of each. Paths below are relative to the repository.

## 1. Inventory

How the parts interact: `cmd/bot/main.go` builds one `mcp.Server` (the tool
surface), attaches the skill library, starts the MCP HTTP server, and then the
Slack bot. An Events API event becomes a goroutine of `pkg/bot`; it may start an
investigation, which is a call of the agent loop; the loop sends requests to the
model and calls `Server.DispatchTool`; that asks the live policy
(`authz.Policy`) and runs a backend. An MCP client reaches the same handlers by
the SDK server, behind an authentication middleware. The metrics server reads
the bot's connection flag for its probes.

| Component | State | Operations | Hard behaviour | What makes it correct |
|---|---|---|---|---|
| Slack investigations (`pkg/bot/handlers.go`, `tracker.go`, `state.go`, `bot.go`) | tracker of active requesters, conversation store, per-thread report switch, conversations gauge, report files in `/tmp` | handlers of mentions and thread messages, the investigation itself, report commands, upload, hourly cleanup | a goroutine per event, redelivery, panics, shared `/tmp`, cleanup against uploads, counting outside the lock, restarts | one run per requester, slots always returned, gauge catches up, conversations and old reports go, reports stay in their thread |
| Agent loop (`pkg/bot/agent.go`, `pkg/claude`) | conversation, catalog, iteration, in-flight gauge | offer a catalog, send, answer tool calls, stop | policy reloaded during a run, tools that fail or are denied, a model that never stops, panics | well-formed requests, revocations hold, offer matches dispatch, every run ends |
| Slack connection and probes (`pkg/bot/bot.go`, `pkg/metrics/server.go`, `main.go`) | reconnect delay, connected flag, time of the last event | connect, back off, handle events, probes, shutdown | three writers and readers of one flag, stale events, outages at start, kubelet restarts | recovery, honest readiness, clean stop |
| Policy file (`pkg/authz/policy.go`, `pkg/mcp/authz.go`) | parsed policy, its modification time, its path | load, reload when the file changed, decide | reloads that overlap, files edited between stat and read, broken or missing files | the last good policy stays, decisions follow the file, edits and corrections take effect |
| Authorization decisions (`pkg/authz/authz.go`) | none | match roles, evaluate, capabilities | sources (`via`), two kinds of identity, unknown roles | scopes hold on both front-ends |
| Tool surface (`pkg/mcp/server.go`, `sdk_server.go`, `list_my_tools.go`, `pkg/apiconfig/tools.go`) | configured backends, switches, registered tools | advertise, register, list, authorize, dispatch, audit | two tables and two dispatch paths to keep alike, startup order, policy edits | tables agree, READ_ONLY holds, what is listed is served |
| HTTP authentication (`pkg/mcp/auth`, `cmd/bot/main.go`) | signing keys, Google identities, parsed allowlists | pick a provider at start, look up, fetch, store, check the lists | a key cache that is refreshed without a lock, slow providers, files edited between stat and read | a withdrawn credential dies with its cache entry, an edited list counts for the next request, a valid key is refused only by the race on the map |
| Third-party API client (`pkg/apiconfig`) | configurations, the slots of each client | load, name, look up, take a slot, ask, pause, give back | slots kept through pauses, cancellation, names that run together | slots are neither lost nor doubled, what is sent is what was checked, calls end |
| Log backends and tenants (`pkg/k8s/loki.go`, `pkg/mcp/loki.go`, `tempo.go`, `cloudwatch*.go`, `logsources.go`, `pkg/tenant`) | none between calls | resolve tenants, ask each place, poll asynchronous queries, say where nothing was searched | partial failure of a fan-out, a deadline against a late answer, broken settings | no tenant outside the allowed ones, an empty answer names what it left out, calls end |
| Reads in pages and batches (`cloudwatch*.go`, `ecs.go`, `ecr.go`, `aws.go`) | none between calls | one loop of its own per read | empty pages, limits of zero and less, a failing page, a repository that fails | a list is whole, at its limit or marked as cut; batches cover what was asked |
| Named endpoints (`prometheus.go`, `graphql*.go`, `tempo.go`, `database.go`) | clients by name, GraphQL tokens and headers, database connections | scan the environment, look up, refresh a token, request | names set twice or to nothing, headers read without the lock that guards their refresh, a pool of connections | a request goes where its name says, with a token that still counts; calls end |
| Grafana (`pkg/mcp/grafana.go`, executors in `server.go`) | none (the dashboards are Grafana's) | read, change, save with overwrite, restore, delete | concurrent edits, lost answers | what is reported and logged took effect, once; an edit keeps what it does not name unless somebody else wrote in between |
| Investigation library (`pkg/investigations`, `pkg/mcp/investigations_tool.go`) | immutable after start | match, list, fetch | ties broken by map order, the policy asked skill by skill | hidden skills stay hidden, permitted ones are served, however the policy is edited meanwhile |
| Reports, prompts, sanitizers, audit identity, Kubernetes reads, metrics | none or trivial | one request each, or text processing | none beyond their callers' | left to unit tests |

The hazards found while reading, each at its line and with the properties aimed
at it, are in `PROJECT.json`.

## 2. The modules

```
RequesterSlots          abstract: at most one handler per requester
SlackInvestigations     the Slack front-end              implements RequesterSlots
  MCSlackInvestigations   instances for TLC
    ConversationActivity    + a history variable: when a thread was last used
  SlackInvestigationsProofs
AgentLoop               the agent loop, several runs     MCAgentLoop, AgentLoopProofs
AuthzPolicy             the policy file and its cache    MCAuthzPolicy, AuthzPolicyProofs
Authorization           decisions over one document (operators only)
  ToolTables              the tables of the built-in tools (operators only)
    ToolSurface             the two front-ends over one toolset
      MCToolSurface, ToolSurfaceProofs
SlackConnection         connection, probes, shutdown     SlackConnectionProofs
McpServer               the server: seven parts that share nothing
  HttpAuth                who may use the tools over HTTP        HttpAuthProofs
  ApiClient               third-party APIs                       ToolCallsProofs
  DashboardEdits          Grafana's dashboards                   ToolCallsProofs
  LogSearches             searches over accounts and tenants     McpServerProofs
  PagedReads              lists in pages, descriptions in batches     "
  NamedEndpoints          endpoints by name, tokens, connections      "
  SkillMatching           skills by question and by caller            "
  MCMcpServer             values of the constants for TLC
```

Each module abstracts what its neighbours model: a run of the agent loop is one
outbound call in SlackInvestigations; the policy is a changing set of tools in
AgentLoop, a document re-read from a file in AuthzPolicy, and a document whose
roles, users, groups and sources matter in Authorization and ToolSurface. A tool
that ToolSurface hands over to its executor is one call of ApiClient,
LogSearches, PagedReads, NamedEndpoints, DashboardEdits or SkillMatching; those share no state
with each other, so McpServer puts an instance of each side by side, and `focus`
says which one a behaviour is about. Its properties are those of its parts, and so
are its theorems. MCMcpServer has nothing but the values TLC needs.
Operators whose comment begins with "Mutation" are not part of the models: each
is a definition as a plausible bug would have it, and put in the definition's
place it violates a property.

**SlackInvestigations.** An action is one critical section, one outbound call or
one unlocked access to shared state. `pc[g]` is where the goroutine of the g-th
event stands; `Held` is what lies between `TryStart` and the deferred `Done`.
`active` is the tracker's map, `store` the conversation store (a thread and the
goroutine that created its conversation, as Go code keeps a pointer to it after
the map has dropped it), `conv` those conversations. `counted` is the number
`Count()` returned that has not been published yet. `tmp` is the directory all
runs share: `GenerateReport` and `GenerateOverMCP` write it, `ScanForPDFs`,
`UploadFile` and `RemoveUploaded` are the end of a run, `StatOldFile` and
`RemoveOldFile` the cleanup's two steps. `Panic` may strike at any step; `Restart`
empties everything but, perhaps, `/tmp`. Ages count ticks and stop one past the
limit they are compared with. Left out: texts (a message is what it makes the
bot do), reactions, the waiting for a stable file, and non-PDF files.
ConversationActivity adds `idle`, the time since a thread's conversation was created or
a follow-up in it was answered; there time passes between runs only, since an expiry
is hours and a run minutes, so that no conversation is old because its answer took long.

**AgentLoop.** A turn is its role and the ids of the tool calls it makes or
answers. `AllowedTools` asks the policy tool by tool (`OfferTool`), so the policy
may change in the middle. The model may call any tool, in the catalog or not;
whether arguments parse is any choice. `kept` and `barred` are history variables
for the properties.

**SlackConnection.** `loop` is `reconnectLoop`, `handler` the event goroutine
(`TakeEvent` records the time of the event, `HandleEvent` sets the flag, as the
code does in that order), `bot` what `main` did with it. The Slack client is
external: what `RunContext` may do is what the comments of `bot.go` expect of it:
connect, fail for good or for a while, lose connections with or without saying
so, and put events on a bounded channel.

**AuthzPolicy.** A caller's evaluation goes through copy, stat, read and install;
only the copy and the install are under the lock. `written` is everything the
file ever held, so a configuration can be compared with the edit it came from.
An edit is atomic and moves the modification time by a member of `MtimeSteps`;
an edit that is written in two steps is two edits (a truncated file parses as an
empty policy). `EditsDuringStart` says whether an edit may fall between the read
and the stat of the first load.

**Authorization, ToolTables and ToolSurface.** ToolTables has, for every family, what its
getter advertises with the arguments the schema requires, what the SDK server
has a handler for, what the switches of the in-process dispatch know, and what
each executor refuses to go without. In ToolSurface a tool stands for all the tools one getter
returns: they are gated, registered and routed together, and `TablesAgree`
compares the four tables tool by tool for what is advertised. `Configured`,
`GrafanaWrites` and `APITools` are used by both `ToolDefinitions` and
`RegisterTools`, which differ in what they do about READ_ONLY and API tools.
`Dispatch` is the in-process path, `Handle` the HTTP one. Globs are the sets of
tools they match. Startup keeps its order: the server is built, the library
attached, then the SDK server registers its tools. Calls share nothing but the
policy, so one at a time is enough. `OutOfReach` and `barred` serve `ScopesHold`.

**HttpAuth.** `StartServer` is main's choice of a provider, or its refusal. Every
access of a request to the key cache is a step of its own (`ClearKeys`,
`StoreKey` and `LookAgain` are the unlocked ones), and so are the stat and the
read of an allowlist file and the keeping of what was read in the cache all requests
share. `Crash` is what Go does when it notices two
goroutines in one map. The provider and the files are external: credentials are
withdrawn and vouched for again, calls take up to a timeout or fail. `since`,
`outdated` and `alone` are history for the properties.

**DashboardEdits.** A call makes at most two requests, and between them others act.
`wire` is the request or answer under way: `ServeWrite` may take effect and lose
the answer, `Hear` is the executor's use of an answer, `Finish` its audit line
and report. Grafana is external and keeps versions; people edit there too
(`Outside`). Panels are built before the first request and are data.

**ApiClient.** A tool's name is its API's and its endpoint's words run together, so two
files may yield one name; `endpointFor` takes the first that fits and
`clients` the last of a name, as the code does. `Acquire` waits for a slot,
`Return` gives it back on every way out.

**LogSearches.** A place is one account, or the tenants of one header. `Each`,
`Resolve` and `Unsearched` are `pkg/tenant`. A query is started, polled and
waited for against `MaxWait`; statuses the code does not know are polled again
at once. What an answer that found nothing names is `Leads` and
`emptyLogSearchHint`.

**PagedReads.** Every loop over pages is a row of one table: where it stops, whether
it cuts each page or all at the end, and whether its answer tells. AWS sends pages
of any size, empty ones too, and any page or repository may fail.

**NamedEndpoints.** The clients are made from the environment in its order, with its
names in any case, set twice, to nothing, or DEFAULT; `DB_CONNECTION_STRING` stands before `DATABASE_URL`. A GraphQL call looks at
the token under the lock, may fetch one, and sends what the headers hold then;
`left` is how long the token is accepted, `fresh` how long the code takes it for
valid. `Crash` is the race on the headers. A database call waits for a
connection.

**SkillMatching.** The library is a function from types to skills: `NewSkillLibrary`
infers a type from the words of a file's name and refuses a directory with two of
one type. `FindMatchingSkill` is the set of the skills that tie for the most
specific, as the code compares them in the order of a map. `Lookup`, `AskNext` and
`ListAgain` ask the policy one skill at a time, and `EditPolicy` may fall between
any two. `StartInvestigation` and `SendHelpMessage` are Slack's doors, which do not
ask. It uses Authorization for the decisions; `barred` and `granted` are history.

## 3. The runs

| Run | Shows | Bounds |
|---|---|---|
| investigations_safety | at most one run per user and channel; the tracker holds exactly the keys of running handlers; refinement of RequesterSlots | 2 users, 1 thread, 3 deliveries of any of 4 events, 1 restart, no files |
| investigations_liveness | slots are returned, the gauge catches up, idle conversations and old reports go | 2 deliveries, 1 report name, expiry and retention of 0 ticks |
| reports_thread | violation: a finished run uploads to its thread a report that was made for an MCP caller, or for another thread | 2 threads, 2 deliveries, 1 report name |
| idle_expiry | violation: a conversation expires although a follow-up in it was answered within the expiry | 1 thread, an investigation and a question by message (no report commands, which do count), 2 deliveries, expiry of 1 tick |
| authz_policy | last good policy, decisions follow the file, edits take effect | 2 callers, 3 edits, 1 restart, 4 documents |
| policy_corrected | violation: a corrected file is not picked up after DenyAll | 1 caller, 1 edit |
| agent_loop | requests stay well formed, revocations hold, offer and dispatch agree, the gauge counts, runs end | 2 runs, 2 tools, 3 iterations, 2 calls per reply, 1 reload |
| slack_connection | recovery, honest readiness, shutdown | 2 outages, 1 restart, 2 queued events, delays 1 to 3 |
| slack_outage_at_start | violation: a bot that cannot authenticate at start is given up | as above, smaller |
| tool_surface | the tables agree, READ_ONLY in process, scopes, listings | every deployment with at most one backend or missing at most one; 4 policies, 4 callers, 1 edit |
| read_only_http | violation: READ_ONLY does not stop an API write over HTTP | as above |
| mcp_server | the seven parts of McpServer: caches and allowlists, true reports and edits, slots, searches, lists, tokens, hidden skills, and that calls end | 2 requests, handlers or calls at a time; 1 credential, 1 list, 2 changes; 1 dashboard of 2 parts, 1 change in Grafana; 2 directories of API files; all tenant settings with 2 tenants or accounts; up to 3 pages of 2, limits -1 to 3; 2 environments with every kind of name, one of them with the older variable for the database; 3 directories of skills, 3 questions, 3 policies, 1 edit, 1 person on both doors |

Why the bounds are enough. Duplicates and late events of a requester need two
events, a second user in the same thread a third. An expiry of 0 makes every
conversation older than a tick expire, so the cleanup meets runs in progress;
other limits only make the same states rarer. Two callers of the policy are what
overlapping reloads need, three edits let one of them be broken between two good
ones. Three iterations have a first, a middle and a last one. Every tool is gated
by one backend and no rule mentions two, so deployments with one backend, or all
but one, tell all gates apart. A queue of two holds an outdated event behind
another. Of caches, slots, locks and dashboards every hazard is a race of two: one that
reads and one that writes in between, one that holds and one that waits; the
person who edits in Grafana is a third. A second credential would only be
another entry of the same map. Three pages have a first, a middle and a last
one, and of the limits one ends inside a page, one between pages, one before
the first and one is no number of items. Skills are asked about one by one and
alike, so one that is granted, one that is not, two that tie and one edit are what
an answer can differ by. Deadlock is checked everywhere but in agent_loop,
whose system stops when all its runs have ended, and in mcp_server, where a server
that refused its settings, or has used up its crashes, stays down and a read or
search is followed to its end.

Fairness. The Go scheduler runs runnable goroutines, tickers fire and time
passes: weak fairness of each goroutine's steps and of `Tick`. In
SlackInvestigations and AgentLoop this includes that a request to the model, to
Slack or to a backend returns, with an answer or an error: the code passes no
deadline of its own, so it is an assumption and not a guarantee of the bot. A
`select` that is offered a done context and events picks at random:
`StopHandling` is strongly fair. The file system does not refuse one removal for
ever: `RemoveOldFile` is strongly fair. A request to a third-party API, a log
backend or a named endpoint ends: their HTTP clients have timeouts, so weak fairness of `Answered`, of LogSearches' steps and of
NamedEndpoints' `Expires` is the code's own doing; only of AWS it is an assumption, as the bot
sets no deadline for one request there. Who waits for a slot that is free, or
a lock, gets it; callers need not give up. A call is made once and stays done, so
`CallsEnd` says that again and again none is under way, one formula for all of them. In LogSearches `Tick` is strongly
fair, as time goes on however often a query is asked for. The token endpoint and a
query owe no good answer. Policy reloads happen on evaluations, so
`EditsTakeEffect` assumes that callers keep coming. Events, panics, outages,
edits, restarts and replacements by the kubelet are never owed.

`EditsTakeEffect` speaks of a server that loaded a policy when it started, with
edits outside the start and moving the modification time forward; the run policy_corrected shows what happens without the first, and with
`EditsDuringStart = TRUE` the property fails. Files whose modification time does not advance are not reloaded by design
of the mtime cache.

## 4. Findings

Places where the code does something else than a document or comment says, with
the quotations, are in `PROJECT.json` under `findings`. In short: reports of
other threads and of MCP callers are uploaded; an answered follow-up question does not
count as activity, so a conversation in use may expire (a report command does count);
an edit during the first load is missed; DenyAll is for the life of the process;
a Slack that is unreachable at start is never retried while readiness says
ready; READ_ONLY does not cover API tools over HTTP, nor are API writes audited
there; no caller stamps Slack users on Grafana writes; a queued event that
is processed after its investigation completed starts another one; the OIDC keys
and the GraphQL headers are maps written without a lock that their readers
take; retries of a third-party API are off by default where a comment says on;
two files of one API name check one endpoint and ask another; ECR reads one
account whatever accounts are named; Route53's zones stop after a page; and a database
takes neither DATABASE_USERNAME nor the name DEFAULT as the comments say. Which
of two equally specific skills answers is left to the order of a map; Slack shows
and starts skills whoever asks; and a context document too large for MCP is in
Slack's prompts alone.

Some behaviours the models have are no disagreement, because nothing is promised,
but are worth knowing. An edit of a dashboard overwrites what somebody saved
since it was read. A Grafana write whose answer is lost took effect and has no
audit line. Most reads that stop at a limit or after a page give no sign that
there is more.

## 5. Proofs

For every value of the constants that satisfies their assumptions:

* `SlackInvestigationsProofs!TypeCorrect`, `OneRun`, `SlotsRefinement`. The
  invariant is `Inv == TypeOK /\ OneRunPerRequester`. That no two holders share
  a key is not inductive alone: a `TryStart` is safe because the map holds the
  key of every holder, and a `Done` because the key it removes is no other
  holder's. So the property has both halves, the injectivity and the equality of
  the map with the keys of the holders, and they need the types. `TrackingSteps`
  sorts all steps of the system into those that leave the slots alone, take one,
  release one, or replace the process; preservation and refinement then have one
  case per kind.
* `AuthzPolicyProofs!TypeCorrect`, `LastGoodKept`, `DecisionsFollow`. `Origins`
  says of every copy of a configuration, installed, cached or being installed,
  that it is what the file held at its edit. `FollowInv` adds what overlapping
  reloads keep: what is installed or about to be is at least as new as the
  modification time that goes with it, so whoever installs last leaves a policy
  that is either as new as the file or recognisably old. `DecisionsFollow` has the
  hypothesis `OrderedEdits`: modification times increase and no edit falls into
  the start. With `EditsDuringStart = TRUE` TLC refutes it, so the second half cannot
  be dropped.
* `AgentLoopProofs!TypesHold`, `GaugeCountsRuns`, `RequestsAreWellFormed`,
  `RevokedToolsAreNotRun`, `CatalogAgreesWithDispatch`. Runs share only the policy and the gauge, so
  `IInv` is a conjunction over the runs of what is known of each: where it is
  in its batch of tool calls (`BatchAt`), in its conversation (`ConversationAt`:
  well formed, of a length the iteration gives, and its last turn holds the ids being
  answered) and in the history of the policy (`HistoryAt`). A well-formed
  request takes the first two together: an answer completes a turn only if the batch
  counts its calls. The gauge is a cardinality: each step of a run changes the set of
  runs under way by one member or leaves it, and the gauge alike. It needs `Runs` to be finite.
* `ToolSurfaceProofs!TypesHold`, `DoorsAgree`, `ReadOnlyRefusesWrites`,
  `ScopesOfRolesHold`, `ShownToolsAreServed`. The tables are compared row by row for
  every deployment. What a call may perform is known between its steps only with the table it
  was looked up in (`Registration`, `CallAt`) and with the histories (`HistoryAt`: what
  is barred is out of reach of the policy of now, what was shown is within it).
* `SlackConnectionProofs!TypesHold`, `NothingElseEnds`. The delay doubles up to its
  maximum and starts over, and stays between the two. `Unended` relates the loop, the
  handler, the link and the process, and that only a shutdown ends the first two
  follows from all of it.
* `HttpAuthProofs!ListsAreCurrent`, `WithdrawnCredentialsExpire`, `RefusalsAreRaces`. That a
  credential dies with its cache entry relates two clocks, how long it has been withdrawn and
  how old the entry is, and the fetch under way: `CachesAge` bounds one by the
  other plus the timeout; `RefreshedKeysAge` and `FetchedAge` are what that takes while a
  refresh, which several requests may be in at once, has cleared the map and not
  filled it. `ListsAge` says that a parsed list is never older than the modification
  time it is kept under (the code stats first and reads then), without which a list
  that looks current could be old; `SeenCurrent` says the same of a list that was read and
  not kept yet, and that it is no older than its request. `OwnKeyIsThere` is what a request whose key the
  provider has just sent knows as long as nobody else wrote the map.
* `ToolCallsProofs!SlotsHeldByCalls`, `RequestsAsChecked`. The slots of a client are a
  cardinality again; that a call asks no more than `max_retries` times needs `AttemptsLeft`,
  and what it asks is known from `Call` on only because clients do not change. That
  what is sent was checked has the hypothesis that no two files have one API
  name (`OneFileEach`, in the property itself); without it the code does not
  (section 4).
* `ToolCallsProofs!WritesAreReported`, `EditsKeepWhatTheyDoNotName`. `HandlerOK` ties a call
  to the request it has on the wire, with how often it took effect by each stage:
  a call that has failed may still have a write under way, which is why effects are counted
  with the wire and not with the calls.
* `McpServerProofs!TenantsAreAllowed`, `AbsenceIsNotClaimed`. An allowlist filters when the
  places are made, long before they are asked, so `AskedRightly` carries it along,
  with the places asked so far and with the two clocks of a poll, whose bound is the deadline plus
  one call or one pause, as it is looked at between them only.
* `McpServerProofs!RequestsAsConfigured`. `TokensAge` says that the code never takes a token for
  valid longer than it is accepted, `TokenOfCall` what is left of one that is
  being fetched, `TokenThere` that who goes on to send finds one: only when tokens outlive
  the timeout and the buffer is no shorter (`TokensOutlive`, as in the property).
  `SetForIt` follows a URL from the environment through the client's name to the call.
* `McpServerProofs!ReadsComeWhole`. `Listing` gives the state of each loop in closed form: what
  has been found is the first so many items, by the page, the limit and where the loop cuts. The
  ends of the pages are only known to rise, so any number of pages of any size is meant.
  `Describing` counts: after k batches each name was described, or failed, as often as it is
  among the first k batches' names.
* `McpServerProofs!SkillsKeptAsPermitted`. What was barred or granted ever since the call
  is so now, and whatever was in reach all along is still to be asked about or has been found
  (`Found`), for each of the tools and each stage of its asking.
* For each of the seven parts the theorem that its types hold, and with them
  `ServerTypesHold`. A step of the server is a step of the part in `focus`, or leaves a part's
  variables alone; so each invariant of a part is one of the server.

Assumptions on the constants, all named in the modules that declare them and evaluated
by TLC: which constants are natural numbers and which of these are positive; that
workers, runs and threads are finite sets (for the cardinalities); that
documents, files, environments, deployments and operations have the fields the code
parses (`ConstantsOK` of each part; `PartsAssumption`); that allowlists are finite and name no blank
tenant, as `tenant.go` drops blanks; that there is a longest token lifetime; that
the ends of pages rise. None of them bounds how many there are of anything.

Several operators are recursive functions or CHOOSE a least or greatest number
(`Render`, `ClientOf`, `endpointFor`, `findEndpoint`). Of those the proofs use what
can be shown without induction over data: that such a function exists and has a type
follows by its least counterexample, and what is chosen exists by finiteness.

Only model-checked: liveness, as TLAPS 1.4.5 does not reach fairness and ENABLED
(`SlotsAreReturned`, `GaugeCatchesUp`, `ConversationsExpire`, `OldReportsAreRemoved`,
`EditsTakeEffect`, `RunsEnd`, `RecoversOnItsOwn`, `OutageIsReported`,
`StopsWhenCancelled`, `CallsEnd`). Every other property a passing run checks is a theorem.

## 6. Not modelled

* Text and layout: prompts and tool guidance, descriptions of tools, formatting of results,
  panels built from a description, sanitizers and redaction, the PDF, the check
  that a query only reads. No state, no order of events; unit tests reach them.
* Cryptography and claims of tokens and certificates, and the providers that compare a
  credential with a constant (API key, JWT, mTLS, static).
* One request to a service: the Kubernetes reads, whois, GitHub and GitLab, what the AWS
  reads ask for. ToolSurface has when they are offered and served, PagedReads
  how their pages are put together.
* Metrics other than the two gauges, tracing and logging, the output caps, the
  DetailedHealthHandler, the OAuth metadata routes, and process crashes other than as
  restarts or as the races of section 4.
* Who a write is stamped with (`audit.go`): a lookup in the context.

## 7. Plan

Done, in order of importance: SlackInvestigations with its abstract
specification, AuthzPolicy, AgentLoop, SlackConnection, Authorization with
ToolSurface and ToolTables, the parts of McpServer; and the proofs of section 5,
which state every safety and action property that a run checks.

To do:

1. An abstract specification of the edits of dashboards that says which of them may be
   lost, and the refinement; of the policy file's cache likewise, as a register
   whose reads may lag by one reload.
2. The safety that the liveness properties rest on, as invariants to be proved: that
   a slot, a lock or a connection that somebody waits for is held by somebody
   who can move (`ApiClient`, `NamedEndpoints`), that a conversation of a finished run is left
   to the cleanup, that an outage is reported as soon as it is known.
3. What decides `GivenAs` for each read by itself, so that a reader sees which reads
   say that there is more.
