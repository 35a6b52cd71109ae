------------------------------- MODULE HttpAuth -------------------------------
(***************************************************************************)
(* Who may use the tools over HTTP (cmd/bot/main.go, pkg/mcp/auth). The     *)
(* process picks one provider when it starts. An OIDC issuer vouches for    *)
(* signing keys, which the bot fetches and keeps; Google vouches for tokens *)
(* one by one, and the bot keeps the identity it got. A request whose       *)
(* credential is vouched for is then held against the allowlists, of which  *)
(* some are files that an operator edits while the process runs.            *)
(*                                                                         *)
(* Time passes in ticks. Everything but a call to the provider takes no     *)
(* time: Tick waits for the steps inside the process. Requests share the    *)
(* key cache without a lock, so each access to it is a step of its own.     *)
(***************************************************************************)
EXTENDS Naturals, Sequences

CONSTANTS
  Requests,      \* requests served at a time; each serves again once answered
  Credentials,   \* signing keys, or Google tokens
  Callers,       \* whom a request is made for
  Contents,      \* what an allowlist may say: sets of people
  Axes,          \* the allowlists that are files, in the order they are applied
  CacheTime,     \* JWKSCacheTime and CacheTTL, in ticks
  Timeout,       \* the HTTP clients' timeout, in ticks
  MaxChanges     \* bound: credentials withdrawn or renewed, edits and crashes

ConstantsOK ==
  /\ Axes \in Seq(STRING) /\ Axes # <<>>
  /\ {CacheTime, Timeout, MaxChanges} \subseteq Nat
  /\ CacheTime > 0

VARIABLES
  server,      \* "starting", "up", "exited" (refused its settings), "crashed"
  provider,    \* "none", "oidc" or "google"
  changes,     \* of the provider, the files and the process, so far
  vouched,     \* the credentials the provider accepts now
  since,       \* how long each credential has not been vouched for
  keys,        \* jwksCache
  keysAge,     \* time since jwksCacheExp was last set; CacheTime is expired
  identities,  \* Google's cache: time since each token was looked up
  file,        \* the allowlist files
  lists,       \* listCache: what was parsed and the mtime it is kept under
  req          \* the requests being served

external == <<vouched, since, file>>
process  == <<server, provider, changes>>
caches   == <<keys, keysAge, identities, lists>>
vars     == <<external, process, caches, req>>

(* Ages are counted as far as they tell anything apart. An identity too old   *)
(* to be used is one that was never kept.                                     *)
Memory == CacheTime + Timeout + 1
Older(age, most) == IF age < most THEN age + 1 ELSE age
Gone == CacheTime + 1
NoList == [kept |-> FALSE, mtime |-> 0, list |-> {}, version |-> 0]

Files == {Axes[i] : i \in 1..Len(Axes)}

Unserved == [at |-> "idle"]

Init ==
  /\ server = "starting" /\ provider = "none" /\ changes = 0
  /\ vouched \in SUBSET Credentials
  /\ since = [c \in Credentials |-> IF c \in vouched THEN 0 ELSE Memory]
  /\ keys = {} /\ keysAge = CacheTime
  /\ identities = [c \in Credentials |-> Gone]
  /\ \E list \in Contents :
       file = [a \in Files |-> [version |-> 0, readable |-> TRUE, list |-> list]]
  /\ lists = [a \in Files |-> NoList]
  /\ req = [r \in Requests |-> Unserved]

-----------------------------------------------------------------------------
(* Start of the process: startMCPHTTPServer. The provider is the one that is *)
(* set; both, or one without what it needs, end the process.                 *)

selectAuthProvider(issuer, clientID) ==
  CASE issuer /\ clientID   -> "exit"
    [] issuer /\ ~clientID  -> "oidc"
    [] ~issuer /\ clientID  -> "google"
    [] OTHER                -> "none"

buildOIDCHandlers(audience, publicURL) == audience /\ publicURL
maybeWrapGoogleAuth(publicURL) == publicURL

StartServer(issuer, clientID, audience, publicURL) ==
  LET chosen == selectAuthProvider(issuer, clientID)
      complete == CASE chosen = "oidc"   -> buildOIDCHandlers(audience, publicURL)
                    [] chosen = "google" -> maybeWrapGoogleAuth(publicURL)
                    [] chosen = "none"   -> TRUE
                    [] OTHER             -> FALSE
  IN /\ server = "starting"
     /\ IF complete
        THEN server' = "up" /\ provider' = chosen
        ELSE server' = "exited" /\ UNCHANGED provider
     /\ UNCHANGED <<external, changes, caches, req>>

-----------------------------------------------------------------------------
(* The provider and the operator.                                            *)

Change(c) ==
  /\ changes < MaxChanges
  /\ changes' = changes + 1
  /\ vouched' = IF c \in vouched THEN vouched \ {c} ELSE vouched \cup {c}
  /\ since' = [since EXCEPT ![c] = 0]
  /\ UNCHANGED <<file, server, provider, caches, req>>

Edit(a, list, readable) ==
  /\ changes < MaxChanges
  /\ changes' = changes + 1
  /\ file' = [file EXCEPT ![a] =
       [version |-> @.version + 1, readable |-> readable,
        list |-> IF readable THEN list ELSE @.list]]
  /\ UNCHANGED <<vouched, since, server, provider, caches, req>>

-----------------------------------------------------------------------------
(* A request: WithAuth and Authenticate.                                     *)

At(r, place) == server = "up" /\ req[r].at = place
Go(r, place) == req' = [req EXCEPT ![r].at = place]

(* A request that has come to a place, with nothing fetched or read yet. *)
Fresh(place, c, who, began) ==
  [at |-> place, cred |-> c, who |-> who, began |-> began,
   waited |-> 0, fetched |-> {}, offered |-> FALSE, alone |-> TRUE,
   axis |-> 1, stat |-> 0, parsed |-> NoList, outdated |-> FALSE]

(* The credential is good: on to the allowlists. *)
Vouched(r) == req' = [req EXCEPT ![r] = Fresh("lists", @.cred, @.who, @.began)]
Refuse(r) == req' = [req EXCEPT ![r] = Unserved]

(* The request is let in; whether by a list older than the file was when it   *)
(* came.                                                                      *)
Let(r, outdated) == req' = [req EXCEPT ![r] = [at |-> "serving", outdated |-> outdated]]

(* Without a provider the handler is not wrapped. A request whose token,      *)
(* signature or claims are wrong, or whom a list of the environment excludes, *)
(* is refused whatever the others do; what is followed here is one that is    *)
(* let in if the provider vouches for cred and the files admit its caller.    *)
Begin(r, c, who) ==
  /\ server = "up" /\ req[r].at = "idle"
  /\ IF provider = "none" THEN Let(r, FALSE)
     ELSE req' = [req EXCEPT ![r] =
            Fresh("lookup", c, who, [a \in Files |-> file[a].version])]
  /\ UNCHANGED <<external, process, caches>>

(* getPublicKey and cacheGetIdentity. The key cache is good until its expiry, *)
(* an identity up to and at it.                                               *)
Lookup(r) ==
  /\ At(r, "lookup")
  /\ LET c == req[r].cred
         hit == IF provider = "oidc" THEN keysAge < CacheTime /\ c \in keys
                ELSE identities[c] <= CacheTime
     IN IF hit THEN Vouched(r) ELSE Go(r, "call")
  /\ UNCHANGED <<external, process, caches>>

(* The provider answers at some moment of the call ... *)
Vouch(r) ==
  /\ At(r, "call")
  /\ req' = [req EXCEPT ![r].at = "return",
                        ![r].fetched = IF provider = "oidc" THEN vouched
                                       ELSE vouched \cap {req[r].cred}]
  /\ UNCHANGED <<external, process, caches>>

(* ... and its answer arrives. One of Google that is not a 200 is a refusal.  *)
Return(r) ==
  /\ At(r, "return")
  /\ CASE provider = "oidc" ->
            /\ req' = [req EXCEPT ![r].at = "clear", ![r].waited = 0]
            /\ UNCHANGED identities
       [] provider = "google" /\ req[r].cred \in req[r].fetched ->
            /\ Vouched(r)
            /\ identities' = [identities EXCEPT ![req[r].cred] = 0]
       [] OTHER -> Refuse(r) /\ UNCHANGED identities
  /\ UNCHANGED <<external, process, keys, keysAge, lists>>

(* Or the call fails: any time, and at the latest with its timeout. *)
CallFails(r) ==
  /\ At(r, "call") \/ At(r, "return")
  /\ Refuse(r)
  /\ UNCHANGED <<external, process, caches>>

(* Mutation: the keys are added to the old map. *)
MergeKeys(r) ==
  /\ At(r, "clear")
  /\ req' = [req EXCEPT ![r].at = "store", ![r].offered = req[r].cred \in req[r].fetched]
  /\ UNCHANGED <<external, process, caches>>

(* refreshJWKSCache: a new map, the keys one after the other into whatever    *)
(* map the field holds by then, the expiry, and the look-up repeated.         *)
ClearKeys(r) ==
  /\ At(r, "clear")
  /\ keys' = {}
  /\ req' = [q \in Requests |->
       IF q = r THEN [req[r] EXCEPT !.at = "store",
                                    !.offered = req[r].cred \in req[r].fetched]
       ELSE IF At(q, "store") \/ At(q, "again") THEN [req[q] EXCEPT !.alone = FALSE]
       ELSE req[q]]
  /\ UNCHANGED <<external, process, keysAge, identities, lists>>

(* Mutation: a key is kept under a name that no look-up uses. *)
StoreUnderOtherName(r) ==
  /\ At(r, "store")
  /\ \E k \in req[r].fetched : req' = [req EXCEPT ![r].fetched = @ \ {k}]
  /\ UNCHANGED <<external, process, caches>>

StoreKey(r) ==
  /\ At(r, "store")
  /\ \E k \in req[r].fetched :
       /\ keys' = keys \cup {k}
       /\ req' = [req EXCEPT ![r].fetched = @ \ {k}]
  /\ UNCHANGED <<external, process, keysAge, identities, lists>>

SetExpiry(r) ==
  /\ At(r, "store") /\ req[r].fetched = {}
  /\ keysAge' = 0
  /\ Go(r, "again")
  /\ UNCHANGED <<external, process, keys, identities, lists>>

LookAgain(r) ==
  /\ At(r, "again")
  /\ IF req[r].cred \in keys THEN Vouched(r) ELSE Refuse(r)
  /\ UNCHANGED <<external, process, caches>>

(* The map is read or written while another request writes it: the runtime    *)
(* may notice and end the process. The kubelet starts it again, with nothing  *)
(* kept.                                                                      *)
WritesKeys(r) == At(r, "store") /\ req[r].fetched # {}
ReadsKeys(r) == At(r, "again") \/ (At(r, "lookup") /\ keysAge < CacheTime)

Crash ==
  /\ provider = "oidc" /\ changes < MaxChanges
  /\ \E r, q \in Requests : r # q /\ WritesKeys(r) /\ (WritesKeys(q) \/ ReadsKeys(q))
  /\ server' = "crashed" /\ changes' = changes + 1
  /\ req' = [r \in Requests |-> Unserved]
  /\ keys' = {} /\ keysAge' = CacheTime
  /\ identities' = [c \in Credentials |-> Gone]
  /\ lists' = [a \in Files |-> NoList]
  /\ UNCHANGED <<external, provider>>

Restart ==
  /\ server = "crashed"
  /\ server' = "up"
  /\ UNCHANGED <<external, provider, changes, caches, req>>

-----------------------------------------------------------------------------
(* The allowlists: validateAuthorization, enforceAllowLists and current.      *)

Axis(r) == Axes[req[r].axis]

(* An empty list restricts nobody. *)
Decide(r, list, outdated) ==
  IF list # {} /\ req[r].who \notin list THEN Refuse(r)
  ELSE IF req[r].axis = Len(Axes) THEN Let(r, req[r].outdated \/ outdated)
  ELSE req' = [req EXCEPT ![r].at = "lists", ![r].axis = @ + 1, ![r].stat = 0,
                          ![r].parsed = NoList, ![r].outdated = @ \/ outdated]

Outdated(r, version) == version < req[r].began[Axis(r)]

(* Mutation: what was parsed once counts. *)
ParseListOnce(r) ==
  /\ At(r, "lists")
  /\ LET a == Axis(r) IN
     IF lists[a].kept THEN Decide(r, lists[a].list, Outdated(r, lists[a].version))
     ELSE req' = [req EXCEPT ![r].at = "read", ![r].stat = file[a].version]
  /\ UNCHANGED <<external, process, caches>>

(* Every decision stats the file; what was parsed under the same mtime counts. *)
StatList(r) ==
  /\ At(r, "lists")
  /\ LET a == Axis(r) IN
     IF ~file[a].readable THEN Refuse(r)
     ELSE IF lists[a].kept /\ lists[a].mtime = file[a].version
     THEN Decide(r, lists[a].list, Outdated(r, lists[a].version))
     ELSE req' = [req EXCEPT ![r].at = "read", ![r].stat = file[a].version]
  /\ UNCHANGED <<external, process, caches>>

(* The file may have changed since. *)
ReadList(r) ==
  /\ At(r, "read")
  /\ LET a == Axis(r) IN
     IF ~file[a].readable THEN Refuse(r)
     ELSE req' = [req EXCEPT ![r].at = "keep",
            ![r].parsed = [kept |-> TRUE, mtime |-> req[r].stat, list |-> file[a].list,
                           version |-> file[a].version]]
  /\ UNCHANGED <<external, process, caches>>

(* What was read is kept under the mtime seen before, whatever another request *)
(* kept meanwhile, and decides.                                               *)
KeepList(r) ==
  /\ At(r, "keep")
  /\ lists' = [lists EXCEPT ![Axis(r)] = req[r].parsed]
  /\ Decide(r, req[r].parsed.list, Outdated(r, req[r].parsed.version))
  /\ UNCHANGED <<external, process, keys, keysAge, identities>>

(* The wrapped handler returns. *)
EndRequest(r) ==
  /\ At(r, "serving")
  /\ Refuse(r)
  /\ UNCHANGED <<external, process, caches>>

-----------------------------------------------------------------------------
Calling == {r \in Requests : req[r].at \in {"call", "return"}}
Busy == {r \in Requests : req[r].at \notin {"idle", "call", "return"}}

Tick ==
  /\ server = "up" /\ Busy = {}
  /\ \A r \in Calling : req[r].waited < Timeout
  /\ since' = [c \in Credentials |-> IF c \in vouched THEN 0 ELSE Older(since[c], Memory)]
  /\ keysAge' = Older(keysAge, CacheTime)
  /\ identities' = [c \in Credentials |-> Older(identities[c], Gone)]
  /\ req' = [r \in Requests |->
       IF r \in Calling THEN [req[r] EXCEPT !.waited = @ + 1] ELSE req[r]]
  /\ UNCHANGED <<vouched, file, process, keys, lists>>

(* What the process does by itself for a request. *)
Serve(r) ==
  \/ Lookup(r) \/ ClearKeys(r) \/ StoreKey(r) \/ SetExpiry(r) \/ LookAgain(r)
  \/ StatList(r) \/ ReadList(r) \/ KeepList(r) \/ EndRequest(r)

Next ==
  \/ \E i, g, au, url \in BOOLEAN : StartServer(i, g, au, url)
  \/ \E c \in Credentials : Change(c)
  \/ \E a \in Files, list \in Contents, ok \in BOOLEAN : Edit(a, list, ok)
  \/ \E r \in Requests, c \in Credentials, who \in Callers : Begin(r, c, who)
  \/ \E r \in Requests : Serve(r) \/ Vouch(r) \/ Return(r) \/ CallFails(r)
  \/ Crash \/ Restart \/ Tick

Spec == Init /\ [][Next]_vars

-----------------------------------------------------------------------------
Ages == 0..Memory
Places ==
  {"lookup", "call", "return", "clear", "store", "again", "lists", "read", "keep",
   "serving"}

TypeOK ==
  /\ server \in {"starting", "up", "exited", "crashed"}
  /\ provider \in {"none", "oidc", "google"}
  /\ changes \in 0..MaxChanges
  /\ vouched \subseteq Credentials /\ keys \subseteq Credentials
  /\ since \in [Credentials -> Ages] /\ keysAge \in 0..CacheTime
  /\ identities \in [Credentials -> 0..Gone]
  /\ \A a \in Files :
       /\ file[a] \in [version : 0..MaxChanges, readable : BOOLEAN, list : Contents]
       /\ lists[a] \in [kept : BOOLEAN, mtime : 0..MaxChanges, list : Contents \cup {{}},
                         version : 0..MaxChanges]
  /\ \A r \in Requests : req[r].at \in Places \cup {"idle"}

(* An edit counts for every request that comes after it: nobody is let in on  *)
(* a list older than the file was when the request came (google.go:58-62:     *)
(* denied on the next request, not after the identity's TTL), although the    *)
(* parsed lists are shared and a file may change between its stat and its     *)
(* read.                                                                      *)
ListsCurrent == \A r \in Requests : At(r, "serving") => ~req[r].outdated

(* A credential is of no use for longer after its provider withdrew it than   *)
(* the cache's lifetime and one call: concurrent refreshes that overwrite     *)
(* each other's keys never keep a withdrawn key alive (oidc.go:407-499,       *)
(* google.go:26-31).                                                          *)
Admitted(r) ==
  req[r].at \in {"lists", "keep"} /\ req'[r].at = "serving"

WithdrawnExpires ==
  [][\A r \in Requests :
       Admitted(r) => since[req[r].cred] <= CacheTime + Timeout]_vars

(* A request whose key is among those it fetched is refused for a missing key *)
(* only when another request replaced the map since (oidc.go:426-433, 473):   *)
(* whatever else the others read and write, its own refresh served it.        *)
RefusedOnlyByRace ==
  [][\A r \in Requests :
       At(r, "again") /\ req[r].offered /\ req'[r].at = "idle" /\ server' = "up"
       => ~req[r].alone]_vars
=============================================================================
