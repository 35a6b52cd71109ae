------------------------------ MODULE ApiClient -------------------------------
(***************************************************************************)
(* Third-party APIs as tools (pkg/apiconfig). The operator's files describe *)
(* APIs and their endpoints; a tool's name is an API's and an endpoint's    *)
(* run together. A call finds its endpoint by that name, waits for one of   *)
(* the slots of its API's client, and asks again when the API says it is    *)
(* asked too often.                                                         *)
(*                                                                         *)
(* Names are sequences of words, so that two of them may run together the   *)
(* same way. The APIs are external.                                         *)
(***************************************************************************)
EXTENDS Integers, SequencesExt

CONSTANTS
  Directories,    \* what API_CONFIG_DIR may hold: sequences of files
  AllowedMethods, \* API_ALLOWED_METHODS, as the deployment sets it
  Callers,        \* calls at a time
  Params          \* names of parameters

Methods == {"GET", "POST", "PUT", "PATCH", "DELETE"}

(* What a file says of an endpoint: what the caller must give, which          *)
(* placeholders the path has, and which parameters go into it.                *)
EndpointConfig ==
  [name : Seq(STRING), method : STRING,
   required : SUBSET Params, placed : SUBSET Params, path : SUBSET Params]
File ==
  [name : Seq(STRING), endpoints : Seq(EndpointConfig), baseURL : BOOLEAN,
   parses : BOOLEAN, tokenSet : BOOLEAN,
   maxConcurrent : Int, maxRetries : Int, retryOn429 : BOOLEAN]

ConstantsOK == AllowedMethods \subseteq Methods /\ Directories \subseteq Seq(File)

VARIABLES
  configs,  \* the configurations loaded, by their file's place; each has its client
  inUse,    \* the slots in use of each client, by its configuration
  calls

vars == <<configs, inUse, calls>>

-----------------------------------------------------------------------------
(* LoadConfigs: a file that does not parse, lacks what it needs, names an     *)
(* unknown method, or whose token is not in the environment is left out.      *)

validateConfig(file) ==
  /\ file.name # <<>> /\ file.baseURL /\ file.endpoints # <<>>
  /\ \A e \in Range(file.endpoints) : e.name # <<>> /\ e.method \in Methods \cup {""}

(* What is not positive is not set. Whether to retry has no default: a file   *)
(* that does not say so does not.                                             *)
Positive(n, default) == IF n <= 0 THEN default ELSE n
WithMethod(e) == IF e.method = "" THEN [e EXCEPT !.method = "GET"] ELSE e
applyDefaults(file) ==
  [file EXCEPT
     !.maxConcurrent = Positive(@, 5),
     !.maxRetries = Positive(@, 3),
     !.endpoints = [i \in DOMAIN @ |-> WithMethod(@[i])]]

LoadConfigs(directory) ==
  LET kept == {i \in DOMAIN directory :
                 directory[i].parses /\ directory[i].tokenSet /\ validateConfig(directory[i])}
  IN [i \in kept |-> applyDefaults(directory[i])]

Init ==
  /\ \E directory \in Directories : configs = LoadConfigs(directory)
  /\ inUse = [i \in DOMAIN configs |-> 0]
  /\ calls = [c \in Callers |-> [at |-> "idle"]]

-----------------------------------------------------------------------------
(* The registry.                                                             *)

methodAllowed(method) == method = "GET" \/ method \in AllowedMethods

EndpointsOf(i) ==
  {[config |-> i, place |-> j, endpoint |-> configs[i].endpoints[j],
    tool |-> configs[i].name \o configs[i].endpoints[j].name] : j \in DOMAIN configs[i].endpoints}
Endpoints == UNION {EndpointsOf(i) : i \in DOMAIN configs}

GetToolDefinitions == {e \in Endpoints : methodAllowed(e.endpoint.method)}

(* Of the endpoints that run together to one tool's name, the first, in the   *)
(* order of the files.                                                        *)
Called(tool) == {e \in Endpoints : e.tool = tool}
NotAfter(e, f) == e.config < f.config \/ (e.config = f.config /\ e.place <= f.place)
endpointFor(tool) ==
  CHOOSE e \in Called(tool) : \A f \in Called(tool) : NotAfter(e, f)

(* Clients are kept by their API's name: of two files that use one name, the  *)
(* last file's serves both.                                                   *)
ClientOf(i) == Max({j \in DOMAIN configs : configs[j].name = configs[i].name})

(* Where a client has an endpoint of that name; the first serves.             *)
Places(client, name) ==
  {j \in DOMAIN configs[client].endpoints : configs[client].endpoints[j].name = name}
findEndpoint(client, name) == configs[client].endpoints[Min(Places(client, name))]

(* validateAndBuildURL: what is required is given, path parameters fill all   *)
(* the path's placeholders, and each that is given has one to fill.           *)
Builds(endpoint, given) ==
  /\ endpoint.required \subseteq given
  /\ given \cap endpoint.path = endpoint.placed

-----------------------------------------------------------------------------
(* DispatchToolCall and Execute.                                             *)

Done(c, ok) == calls' = [calls EXCEPT ![c] = [at |-> "done", ok |-> ok]]

(* Mutation: the method is checked where tools are listed only. *)
CallUnchecked(c, tool, given) ==
  /\ calls[c].at = "idle"
  /\ Called(tool) # {}
  /\ LET found == endpointFor(tool)
         client == ClientOf(found.config)
         served == findEndpoint(client, found.endpoint.name) IN
     IF Places(client, found.endpoint.name) # {} /\ Builds(served, given)
     THEN calls' = [calls EXCEPT ![c] =
            [at |-> "queued", tool |-> tool, client |-> client, endpoint |-> served,
             attempt |-> 0]]
     ELSE Done(c, FALSE)
  /\ UNCHANGED <<configs, inUse>>

(* A value its pattern forbids is as good as none given. *)
Call(c, tool, given) ==
  /\ calls[c].at = "idle"
  /\ Called(tool) # {}
  /\ LET found == endpointFor(tool)
         client == ClientOf(found.config)
         served == findEndpoint(client, found.endpoint.name) IN
     IF /\ methodAllowed(found.endpoint.method)
        /\ Places(client, found.endpoint.name) # {}
        /\ Builds(served, given)
     THEN calls' = [calls EXCEPT ![c] =
            [at |-> "queued", tool |-> tool, client |-> client, endpoint |-> served,
             attempt |-> 0]]
     ELSE Done(c, FALSE)
  /\ UNCHANGED <<configs, inUse>>

(* A slot of the client's semaphore. *)
Acquire(c) ==
  /\ calls[c].at = "queued"
  /\ inUse[calls[c].client] < configs[calls[c].client].maxConcurrent
  /\ inUse' = [inUse EXCEPT ![calls[c].client] = @ + 1]
  /\ calls' = [calls EXCEPT ![c].at = "asking"]
  /\ UNCHANGED configs

(* Mutation: a call that fails keeps its slot. *)
ReturnKeepingSlot(c, ok) ==
  /\ inUse' = IF ok THEN [inUse EXCEPT ![calls[c].client] = @ - 1] ELSE inUse
  /\ Done(c, ok)

Return(c, ok) ==
  /\ inUse' = [inUse EXCEPT ![calls[c].client] = @ - 1]
  /\ Done(c, ok)

(* doRequestWithRetry: anything but a 429 ends the call, and so does a 429    *)
(* when no attempt is left or the API's file does not ask for retries.        *)
Answered(c) ==
  /\ calls[c].at = "asking"
  /\ \E ok \in BOOLEAN : Return(c, ok)
  /\ UNCHANGED configs

RateLimited(c) ==
  /\ calls[c].at = "asking"
  /\ LET config == configs[calls[c].client] IN
     IF calls[c].attempt >= config.maxRetries \/ ~config.retryOn429
     THEN Return(c, FALSE)
     ELSE /\ calls' = [calls EXCEPT ![c].at = "pausing"]
          /\ UNCHANGED inUse
  /\ UNCHANGED configs

(* The pause is what the API asks for, at most half a minute. *)
AskAgain(c) ==
  /\ calls[c].at = "pausing"
  /\ calls' = [calls EXCEPT ![c].at = "asking", ![c].attempt = @ + 1]
  /\ UNCHANGED <<configs, inUse>>

(* The caller gives up: queued, pausing, or in the middle of a request. *)
Cancel(c) ==
  /\ \/ calls[c].at = "queued" /\ Done(c, FALSE) /\ UNCHANGED inUse
     \/ calls[c].at \in {"asking", "pausing"} /\ Return(c, FALSE)
  /\ UNCHANGED configs

-----------------------------------------------------------------------------
Next ==
  \/ \E c \in Callers, e \in Endpoints, given \in SUBSET Params : Call(c, e.tool, given)
  \/ \E c \in Callers :
       Acquire(c) \/ Answered(c) \/ RateLimited(c) \/ AskAgain(c) \/ Cancel(c)

(* A request ends with the client's timeout, a pause with its timer; who      *)
(* waits for a slot gets one that is free. Callers need not give up.          *)
Fairness ==
  \A c \in Callers :
    WF_vars(Acquire(c)) /\ WF_vars(Answered(c) \/ RateLimited(c)) /\ WF_vars(AskAgain(c))

Spec == Init /\ [][Next]_vars /\ Fairness

-----------------------------------------------------------------------------
Holding(i) ==
  {c \in Callers : calls[c].at \in {"asking", "pausing"} /\ calls[c].client = i}

TypeOK ==
  /\ DOMAIN inUse = DOMAIN configs
  /\ \A i \in DOMAIN inUse : inUse[i] \in 0..configs[i].maxConcurrent
  /\ \A c \in Callers :
       calls[c].at \in {"idle", "queued", "asking", "pausing", "done"}

(* The slots a client has in use are those its calls hold, through every      *)
(* retry and on every way out (client.go:74-81): none leaks, none is given    *)
(* back twice, so an API is never asked by more calls than its file allows    *)
(* and never by fewer because of calls long over.                             *)
SlotsAreCalls ==
  \A i \in DOMAIN inUse :
    inUse[i] = Cardinality(Holding(i)) /\ inUse[i] <= configs[i].maxConcurrent

(* With one file for each API's name, the request that goes out is that of an *)
(* endpoint whose tool was called, with a method the deployment allows        *)
(* (tools.go:195-208). Two files of one name break it: the method is checked  *)
(* on the first file's endpoint, the request is the last file's.              *)
OneFileEach ==
  \A i, j \in DOMAIN configs : configs[i].name = configs[j].name => i = j
SentAsChecked ==
  OneFileEach =>
    \A c \in Callers : calls[c].at \in {"queued", "asking", "pausing"} =>
      /\ methodAllowed(calls[c].endpoint.method)
      /\ \E e \in GetToolDefinitions :
           /\ e.tool = calls[c].tool
           /\ e.endpoint = calls[c].endpoint /\ e.config = calls[c].client
      /\ calls[c].attempt <= configs[calls[c].client].maxRetries

(* This comes again and again, so every call ends, also one that waits for a  *)
(* slot that others keep while they pause.                                    *)
NoneUnderWay == \A c \in Callers : calls[c].at \in {"idle", "done"}
=============================================================================
