---------------------------- MODULE NamedEndpoints ----------------------------
(***************************************************************************)
(* Backends of which there may be several, told apart by a name:            *)
(* Prometheus, GraphQL, Tempo and databases (pkg/mcp/prometheus.go,         *)
(* graphql.go, graphql_oauth2.go, tempo.go, database.go, their executors).  *)
(* The names come from the environment, once, when the server is made; a    *)
(* call names one, or means "default".                                      *)
(*                                                                         *)
(* A GraphQL endpoint may ask for a token that runs out. Whoever calls      *)
(* fetches it under the client's lock, and then reads the headers without   *)
(* it. Time passes in ticks, and only while somebody waits for another      *)
(* process. The token endpoint and the backends are external.               *)
(***************************************************************************)
EXTENDS Integers, SequencesExt

CONSTANTS
  Environments,  \* the environment variables, see IsEnvironment
  Requested,     \* the calls that are made: a family and a name, "" if none is given
  Callers,       \* calls at a time
  Lifetimes,     \* expires_in, in ticks
  Buffer,        \* graphqlTokenRefreshBuffer
  Timeout,       \* prometheusTimeout, graphqlTimeout, tempoTimeout, a query's 30 seconds
  MaxConns,      \* SetMaxOpenConns
  MaxCrashes     \* bound

Families == {"prometheus", "graphql", "tempo", "database"}

(* The settings of a family in the order of os.Environ: the name between the  *)
(* prefix and _URL in lower case, "" for <FAMILY>_URL, and what it is set to. *)
(* Two variables may differ in case alone. GraphQL's TOKEN stays in capitals: *)
(* only that spelling is passed over, before the name is lowered. A database  *)
(* setting "" is DATABASE_URL, preceded by DB_CONNECTION_STRING, which counts *)
(* where the former is not set. "oauth": the GraphQL endpoints with all that  *)
(* a token exchange needs.                                                    *)
Setting == [name : STRING, url : STRING]
IsEnvironment(e) ==
  /\ \A f \in Families : e[f] \in Seq(Setting)
  /\ e.oauth \subseteq STRING

ConstantsOK ==
  /\ \A e \in Environments : IsEnvironment(e)
  /\ Requested \subseteq Families \X STRING
  /\ {Buffer, Timeout, MaxConns} \subseteq Nat \ {0}
  /\ Lifetimes \subseteq Nat /\ \E t \in Lifetimes : \A s \in Lifetimes : s <= t
  /\ MaxCrashes \in Nat

VARIABLES
  env,      \* the environment
  clients,  \* for each family, the clients by name, each with its URL
  left,     \* for each GraphQL client, how long its header's token is accepted
  fresh,    \* how long tokenCache counts as valid; 0 is expired, or none
  lock,     \* tokenMu
  crashes,
  calls

server == <<env, clients, crashes>>
tokens == <<left, fresh, lock>>
vars   == <<server, tokens, calls>>

Free == "free"
Default == "default"

-----------------------------------------------------------------------------
(* The clients. A variable that is set to nothing is not set; of two that     *)
(* differ in case the last one counts.                                        *)

SetAt(settings, name) ==
  {i \in DOMAIN settings : settings[i].url # "" /\ settings[i].name = name}
Url(settings, name) == settings[Max(SetAt(settings, name))].url
NamesIn(settings) ==
  {settings[i].name : i \in {j \in DOMAIN settings : settings[j].url # ""}}

scanPrometheusEnvVars(settings) ==
  [n \in NamesIn(settings) \ {""} |-> Url(settings, n)]
collectGraphQLURLs(settings) ==
  [n \in NamesIn(settings) \ {"", "TOKEN"} |-> Url(settings, n)]
scanDatabaseEnvVars(settings) ==
  [n \in NamesIn(settings) \ {""} |-> Url(settings, n)]

(* A variable named DEFAULT is passed over, also where the family's own is    *)
(* not set, except by Tempo, where it takes precedence.                       *)
DefaultOf(settings) ==
  [n \in {Default : s \in NamesIn(settings) \cap {""}} |-> Url(settings, "")]
Others(named) == [n \in DOMAIN named \ {Default} |-> named[n]]

(* What f has, and what g has beside it. *)
f ++ g == [n \in DOMAIN f \cup DOMAIN g |-> IF n \in DOMAIN f THEN f[n] ELSE g[n]]

LoadPrometheusClients(settings) ==
  DefaultOf(settings) ++ Others(scanPrometheusEnvVars(settings))
LoadGraphQLClients(settings) ==
  DefaultOf(settings) ++ Others(collectGraphQLURLs(settings))
LoadTempoClients(settings) ==
  [n \in NamesIn(settings) \ {""} |-> Url(settings, n)] ++ DefaultOf(settings)

(* A database that does not answer now is not there for as long as the        *)
(* process lives.                                                             *)
LoadDatabaseClients(settings, down) ==
  LET all == DefaultOf(settings) ++ Others(scanDatabaseEnvVars(settings))
  IN [n \in DOMAIN all \ down |-> all[n]]

NewServer(e, down) == [
  prometheus |-> LoadPrometheusClients(e.prometheus),
  graphql    |-> LoadGraphQLClients(e.graphql),
  tempo      |-> LoadTempoClients(e.tempo),
  database   |-> LoadDatabaseClients(e.database, down)]

DatabaseNames(e) == {s.name : s \in Range(e.database)} \cup {Default}

Init ==
  /\ env \in Environments
  /\ \E down \in SUBSET DatabaseNames(env) : clients = NewServer(env, down)
  /\ left = [n \in DOMAIN clients.graphql |-> 0]
  /\ fresh = [n \in DOMAIN clients.graphql |-> 0]
  /\ lock = [n \in DOMAIN clients.graphql |-> Free]
  /\ crashes = 0
  /\ calls = [c \in Callers |-> [at |-> "idle"]]

-----------------------------------------------------------------------------
(* A call.                                                                   *)

At(c, place) == calls[c].at = place
Go(c, place) == calls' = [calls EXCEPT ![c].at = place, ![c].waited = 0]
End(c, ok) == calls' = [calls EXCEPT ![c] = [at |-> "done", ok |-> ok]]

(* Requested names are in lower case, as each tool makes them.                *)
Target(named) == IF named = "" THEN Default ELSE named
ensureAuth(family, name) == family = "graphql" /\ name \in env.oauth

Call(c, family, named) ==
  /\ At(c, "idle")
  /\ LET name == Target(named) IN
     IF name \notin DOMAIN clients[family] THEN End(c, FALSE)
     ELSE calls' = [calls EXCEPT ![c] =
            [at |-> CASE family = "database" -> "pool"
                      [] ensureAuth(family, name) -> "auth"
                      [] OTHER -> "send",
             family |-> family, name |-> name, named |-> named,
             url |-> clients[family][name], waited |-> 0,
             valid |-> 0, lifetime |-> 0]]
  /\ UNCHANGED <<server, tokens>>

(* tokenMu: who waits for it does so without a deadline. A token that is      *)
(* still valid is used; otherwise the lock is kept while one is fetched.      *)
LookAtToken(c) ==
  /\ At(c, "auth") /\ lock[calls[c].name] = Free
  /\ IF fresh[calls[c].name] > 0 THEN Go(c, "send") /\ UNCHANGED lock
     ELSE Go(c, "fetch") /\ lock' = [lock EXCEPT ![calls[c].name] = c]
  /\ UNCHANGED <<server, left, fresh>>

(* The token endpoint issues a token at some moment of the request ... *)
IssueToken(c, lifetime) ==
  /\ At(c, "fetch")
  /\ calls' = [calls EXCEPT ![c].at = "issued", ![c].valid = lifetime,
                            ![c].lifetime = lifetime]
  /\ UNCHANGED <<server, tokens>>

(* Mutation: a token counts as valid for its whole lifetime. *)
FetchWithoutBuffer(c) ==
  /\ At(c, "issued")
  /\ LET n == calls[c].name IN
     /\ fresh' = [fresh EXCEPT ![n] = calls[c].lifetime]
     /\ left' = [left EXCEPT ![n] = calls[c].valid]
     /\ lock' = [lock EXCEPT ![n] = Free]
  /\ Go(c, "send")
  /\ UNCHANGED server

(* ... and its answer arrives. What is left of it is counted from then on.    *)
fetchOAuth2Token(c) ==
  /\ At(c, "issued")
  /\ LET n == calls[c].name IN
     /\ fresh' = [fresh EXCEPT ![n] = IF calls[c].lifetime > Buffer
                                      THEN calls[c].lifetime - Buffer ELSE 0]
     /\ left' = [left EXCEPT ![n] = calls[c].valid]
     /\ lock' = [lock EXCEPT ![n] = Free]
  /\ Go(c, "send")
  /\ UNCHANGED server

(* Mutation: the lock is kept when no token was got. *)
TokenFailsLocked(c) ==
  /\ At(c, "fetch") \/ At(c, "issued")
  /\ End(c, FALSE)
  /\ UNCHANGED <<server, tokens>>

TokenFails(c) ==
  /\ At(c, "fetch") \/ At(c, "issued")
  /\ lock' = [lock EXCEPT ![calls[c].name] = Free]
  /\ End(c, FALSE)
  /\ UNCHANGED <<server, left, fresh>>

(* A database's pool: the query waits for a connection as long as it may run. *)
OnConnections(name) ==
  {c \in Callers : At(c, "sent") /\ calls[c].family = "database" /\ calls[c].name = name}

Connect(c) ==
  /\ At(c, "pool") /\ Cardinality(OnConnections(calls[c].name)) < MaxConns
  /\ calls' = [calls EXCEPT ![c].at = "sent"]
  /\ UNCHANGED <<server, tokens>>

(* The request goes out with the headers as they are by now. *)
Send(c) ==
  /\ At(c, "send")
  /\ calls' = [calls EXCEPT ![c].at = "sent", ![c].waited = 0,
                 ![c].valid = IF ensureAuth(calls[c].family, calls[c].name)
                              THEN left[calls[c].name] ELSE 0]
  /\ UNCHANGED <<server, tokens>>

Answer(c) ==
  /\ At(c, "sent")
  /\ \E ok \in BOOLEAN : End(c, ok)
  /\ UNCHANGED <<server, tokens>>

Expires(c) ==
  /\ At(c, "sent") \/ At(c, "pool")
  /\ calls[c].waited = Timeout
  /\ End(c, FALSE)
  /\ UNCHANGED <<server, tokens>>

(* The headers are read while another call writes them: the runtime may       *)
(* notice and end the process. It is started again, and databases that did    *)
(* not answer before may do so now.                                           *)
Crash ==
  /\ crashes < MaxCrashes
  /\ \E c, d \in Callers :
       At(c, "issued") /\ At(d, "send") /\ calls[d].family = "graphql"
       /\ calls[c].name = calls[d].name
  /\ crashes' = crashes + 1
  /\ \E down \in SUBSET DatabaseNames(env) : clients' = NewServer(env, down)
  /\ left' = [n \in DOMAIN left |-> 0] /\ fresh' = [n \in DOMAIN fresh |-> 0]
  /\ lock' = [n \in DOMAIN lock |-> Free]
  /\ calls' = [c \in Callers |-> IF At(c, "idle") THEN calls[c] ELSE [at |-> "done", ok |-> FALSE]]
  /\ UNCHANGED env

-----------------------------------------------------------------------------
Abroad(c) == calls[c].at \in {"fetch", "issued", "sent", "pool"}
Held(c) == At(c, "auth") /\ lock[calls[c].name] # Free

Less(n) == IF n > 0 THEN n - 1 ELSE 0

Tick ==
  /\ \E n \in DOMAIN left : left[n] > 0 \/ \E c \in Callers : Abroad(c)
  /\ \A c \in Callers :
       At(c, "idle") \/ At(c, "done") \/ Held(c) \/ (Abroad(c) /\ calls[c].waited < Timeout)
  /\ left' = [n \in DOMAIN left |-> Less(left[n])]
  /\ fresh' = [n \in DOMAIN fresh |-> Less(fresh[n])]
  /\ calls' = [c \in Callers |->
       IF ~Abroad(c) THEN calls[c]
       ELSE [calls[c] EXCEPT !.waited = calls[c].waited + 1,
              !.valid = IF At(c, "issued") THEN Less(calls[c].valid) ELSE calls[c].valid]]
  /\ UNCHANGED <<server, lock>>

Serve(c) ==
  \/ LookAtToken(c) \/ Connect(c) \/ Send(c) \/ Expires(c)
  \/ TokenFails(c) /\ calls[c].waited = Timeout

Next ==
  \/ \E c \in Callers, r \in Requested : Call(c, r[1], r[2])
  \/ \E c \in Callers : LookAtToken(c) \/ Connect(c) \/ Send(c) \/ Expires(c)
  \/ \E c \in Callers, t \in Lifetimes : IssueToken(c, t)
  \/ \E c \in Callers : fetchOAuth2Token(c) \/ TokenFails(c) \/ Answer(c)
  \/ Crash \/ Tick

(* Goroutines run, time passes, and a request ends with its timeout. *)
Fairness == WF_vars(Tick) /\ \A c \in Callers : WF_vars(Serve(c))

Spec == Init /\ [][Next]_vars /\ Fairness

-----------------------------------------------------------------------------
Longest == CHOOSE t \in Lifetimes : \A s \in Lifetimes : s <= t

TypeOK ==
  /\ env \in Environments
  /\ \A f \in Families : DOMAIN clients[f] \subseteq STRING \cup {Default}
  /\ \A n \in DOMAIN clients.graphql :
       /\ left[n] \in 0..Longest /\ fresh[n] \in 0..Longest
       /\ lock[n] \in Callers \cup {Free}
  /\ \A c \in Callers :
       calls[c].at \in {"idle", "auth", "fetch", "issued", "pool", "send", "sent", "done"}

(* A request goes to a URL that was set for the endpoint the call names, the  *)
(* family's own or its DEFAULT when it names none, and with a token that is   *)
(* still accepted, although calls read the headers without the lock while     *)
(* others refresh them and a token is some way older than the code takes it   *)
(* for (graphql.go:300-331, graphql_oauth2.go:43-122). It takes tokens that   *)
(* outlive the request for them and a buffer that is no shorter.              *)
Means(setting, named) ==
  setting.name = named \/ (named \in {"", Default} /\ setting.name \in {"", Default})

SentAsConfigured ==
  \A c \in Callers : At(c, "sent") =>
    /\ \E s \in Range(env[calls[c].family]) :
         Means(s, calls[c].named) /\ s.url = calls[c].url
    /\ (\A t \in Lifetimes : t > Timeout) /\ Buffer >= Timeout
       /\ ensureAuth(calls[c].family, calls[c].name) => calls[c].valid > 0

(* This comes again and again, so every call ends, also one that waits for    *)
(* the lock while others try to get a token, and one that waits for a         *)
(* connection.                                                                *)
NoneUnderWay == \A c \in Callers : calls[c].at \in {"idle", "done"}
=============================================================================
