---------------------------- MODULE HttpAuthProofs ----------------------------
(***************************************************************************)
(* Proofs about HttpAuth, as McpServer composes it: for any credentials,    *)
(* callers, allowlists, lifetimes and number of requests, nobody is let in  *)
(* on an outdated list, a withdrawn credential expires, and a key that was  *)
(* fetched is refused only after another request replaced the map.          *)
(*                                                                         *)
(* The argument is about ages. Time passes only while every request is idle *)
(* or waits for the provider, so what a refresh of the keys writes is as    *)
(* old as its call took, however refreshes interleave: while one of them is *)
(* under way every key in the map is that new.                              *)
(***************************************************************************)
EXTENDS McpServer, SequenceTheorems, TLAPS

Steps == {"lookup", "call", "return", "clear", "store", "again", "lists", "read",
          "keep"}

-----------------------------------------------------------------------------
(* The inductive invariant.                                                  *)

FileState == [version : 0 .. MaxChanges, readable : BOOLEAN, list : Contents]
ListState ==
  [kept : BOOLEAN, mtime : 0 .. MaxChanges, list : Contents \cup {{}},
   version : 0 .. MaxChanges]

RequestUnderWay ==
  [at : Steps, cred : Credentials, who : People, began : [Http!Files -> 0 .. MaxChanges],
   waited : Nat, fetched : SUBSET Credentials, offered : BOOLEAN, alone : BOOLEAN,
   axis : 1 .. Len(Axes), stat : 0 .. MaxChanges, parsed : ListState,
   outdated : BOOLEAN]
Request == [at : {"idle"}] \cup [at : {"serving"}, outdated : BOOLEAN] \cup RequestUnderWay

HttpTyped ==
  /\ server \in {"starting", "up", "exited", "crashed"}
  /\ provider \in {"none", "oidc", "google"}
  /\ changes \in 0 .. MaxChanges
  /\ vouched \subseteq Credentials /\ keys \subseteq Credentials
  /\ since \in [Credentials -> Http!Ages] /\ keysAge \in 0 .. CacheTime
  /\ identities \in [Credentials -> 0 .. Http!Gone]
  /\ file \in [Http!Files -> FileState]
  /\ lists \in [Http!Files -> ListState]
  /\ req \in [Workers -> Request]

(* A file is edited by a change; what is kept of it was read after it was     *)
(* seen to have the modification time it is kept under.                       *)
ListsAge ==
  \A a \in Http!Files :
    /\ file[a].version <= changes
    /\ lists[a].kept => lists[a].mtime <= lists[a].version

(* What is cached was vouched for when it was fetched, and a fetch takes no   *)
(* longer than the timeout.                                                   *)
CachesAge ==
  /\ \A c \in vouched : since[c] = 0
  /\ \A c \in keys : keysAge < CacheTime => since[c] <= keysAge + ProviderTimeout
  /\ \A c \in Credentials :
       identities[c] <= CacheTime => since[c] <= identities[c] + ProviderTimeout

(* While a refresh is under way no key is older than a fetch. *)
Refreshing(r) == req[r].at \in {"store", "again"}
RefreshedKeysAge ==
  \A r \in Workers : Refreshing(r) => \A c \in keys : since[c] <= ProviderTimeout

(* What a request that is under way has fetched and seen. *)
FetchedAge(r) ==
  /\ req[r].waited <= ProviderTimeout
  /\ req[r].at = "return" => \A c \in req[r].fetched : since[c] <= req[r].waited
  /\ req[r].at \in {"clear", "store"} =>
       \A c \in req[r].fetched : since[c] <= ProviderTimeout
  /\ req[r].at \in {"lists", "read", "keep"} =>
       since[req[r].cred] <= CacheTime + ProviderTimeout

OwnKeyIsThere(r) ==
  req[r].offered /\ req[r].alone =>
    /\ req[r].at = "store" => req[r].cred \in keys \cup req[r].fetched
    /\ req[r].at = "again" => req[r].cred \in keys

SeenCurrent(r) ==
  /\ \A a \in Http!Files : req[r].began[a] <= file[a].version
  /\ req[r].stat <= file[Axes[req[r].axis]].version
  /\ req[r].at = "keep" =>
       /\ req[r].parsed.mtime <= req[r].parsed.version
       /\ req[r].began[Axes[req[r].axis]] <= req[r].parsed.version
  /\ ~req[r].outdated

RequestOK(r) ==
  /\ req[r].at \in Steps => FetchedAge(r) /\ OwnKeyIsThere(r) /\ SeenCurrent(r)
  /\ req[r].at = "serving" => ~req[r].outdated

HttpInv ==
  /\ HttpTyped /\ ListsAge /\ CachesAge /\ RefreshedKeysAge
  /\ \A r \in Workers : RequestOK(r)

-----------------------------------------------------------------------------
(* What the constants and the types say.                                     *)

LEMMA Constants ==
  /\ CacheTime \in Nat \ {0} /\ ProviderTimeout \in Nat /\ MaxChanges \in Nat
  /\ Http!Memory = CacheTime + ProviderTimeout + 1 /\ Http!Gone = CacheTime + 1
  /\ Http!Ages = 0 .. CacheTime + ProviderTimeout + 1
  /\ Len(Axes) \in Nat /\ 1 \in 1 .. Len(Axes)
  /\ \A i \in 1 .. Len(Axes) : Axes[i] \in Http!Files
  <1>1. /\ {CacheTime, ProviderTimeout, MaxChanges} \subseteq Nat /\ CacheTime > 0
        /\ Axes \in Seq(STRING) /\ Axes # <<>>
    BY PartsAssumption DEF Http!ConstantsOK
  <1>2. Len(Axes) \in Nat /\ Len(Axes) # 0
    BY <1>1
  <1>. QED  BY <1>1, <1>2 DEF Http!Memory, Http!Gone, Http!Ages, Http!Files

LEMMA RequestsAre ==
  ASSUME HttpTyped, NEW r \in Workers
  PROVE  /\ req[r].at \in Steps => req[r] \in RequestUnderWay
         /\ req[r].at \in Steps \cup {"idle", "serving"}
  <1>1. req[r] \in Request
    BY DEF HttpTyped
  <1>. QED  BY <1>1 DEF Request, RequestUnderWay, Steps

LEMMA FreshIs ==
  ASSUME NEW place \in Steps, NEW c \in Credentials, NEW who \in People,
         NEW began \in [Http!Files -> 0 .. MaxChanges]
  PROVE  /\ Http!Fresh(place, c, who, began) \in RequestUnderWay
         /\ Http!Fresh(place, c, who, began).at = place
         /\ Http!Fresh(place, c, who, began).cred = c
         /\ Http!Fresh(place, c, who, began).began = began
         /\ Http!Fresh(place, c, who, began).waited = 0
         /\ Http!Fresh(place, c, who, began).stat = 0
         /\ Http!Fresh(place, c, who, began).axis = 1
         /\ ~Http!Fresh(place, c, who, began).outdated
         /\ ~Http!Fresh(place, c, who, began).offered
  <1>1. Http!NoList \in ListState
    BY Constants DEF Http!NoList, ListState
  <1>. QED  BY <1>1, Constants DEF Http!Fresh, RequestUnderWay

(* What RequestOK says of the record of a request. *)
IsOK(x) ==
  /\ x.at \in Steps =>
       /\ x.waited <= ProviderTimeout
       /\ x.at = "return" => \A c \in x.fetched : since[c] <= x.waited
       /\ x.at \in {"clear", "store"} => \A c \in x.fetched : since[c] <= ProviderTimeout
       /\ x.at \in {"lists", "read", "keep"} =>
            since[x.cred] <= CacheTime + ProviderTimeout
       /\ x.offered /\ x.alone =>
            /\ x.at = "store" => x.cred \in keys \cup x.fetched
            /\ x.at = "again" => x.cred \in keys
       /\ \A a \in Http!Files : x.began[a] <= file[a].version
       /\ x.stat <= file[Axes[x.axis]].version
       /\ x.at = "keep" =>
            /\ x.parsed.mtime <= x.parsed.version
            /\ x.began[Axes[x.axis]] <= x.parsed.version
       /\ ~x.outdated
  /\ x.at = "serving" => ~x.outdated

LEMMA RequestOKIs ==
  /\ \A r \in Workers : RequestOK(r) <=> IsOK(req[r])
  /\ \A r \in Workers : RequestOK(r)' <=> IsOK(req[r])'
  BY DEF RequestOK, FetchedAge, OwnKeyIsThere, SeenCurrent, IsOK

(* The world does not turn against a request that stands still: files only    *)
(* get new versions, what was vouched for is not older, the map keeps its     *)
(* keys.                                                                     *)
Steady ==
  /\ \A a \in Http!Files : file[a].version <= file'[a].version
  /\ file' \in [Http!Files -> FileState]
  /\ \A c \in Credentials : since'[c] <= since[c]
  /\ since' \in [Credentials -> Http!Ages]
  /\ keys \subseteq keys'

LEMMA StandingStill ==
  ASSUME HttpTyped, Steady, NEW r \in Workers, RequestOK(r), req'[r] = req[r]
  PROVE  RequestOK(r)'
  <1>. DEFINE x == req[r]
  <1>1. IsOK(x)
    BY RequestOKIs
  <1>2. \A a \in Http!Files :
          /\ file[a].version \in Nat /\ file'[a].version \in Nat
          /\ file[a].version <= file'[a].version
    BY Constants DEF HttpTyped, Steady, FileState
  <1>3. \A c \in Credentials :
          since[c] \in Nat /\ since'[c] \in Nat /\ since'[c] <= since[c]
    BY Constants DEF HttpTyped, Steady
  <1>4. CASE x.at \in Steps
    <2>1. x \in RequestUnderWay
      BY <1>4, RequestsAre
    <2>2. /\ x.cred \in Credentials /\ x.fetched \subseteq Credentials
          /\ x.waited \in Nat /\ x.stat \in Nat /\ Axes[x.axis] \in Http!Files
          /\ \A a \in Http!Files : x.began[a] \in Nat
      BY <2>1, Constants DEF RequestUnderWay
    <2>. HIDE DEF x
    <2>3. \A a \in Http!Files : x.began[a] <= file'[a].version
      BY <1>1, <1>2, <1>4, <2>2 DEF IsOK
    <2>4. x.stat <= file'[Axes[x.axis]].version
      BY <1>1, <1>2, <1>4, <2>2 DEF IsOK
    <2>5. x.at = "return" => \A c \in x.fetched : since'[c] <= x.waited
      BY <1>1, <1>3, <1>4, <2>2 DEF IsOK
    <2>6. x.at \in {"clear", "store"} => \A c \in x.fetched : since'[c] <= ProviderTimeout
      BY <1>1, <1>3, <1>4, <2>2, Constants DEF IsOK
    <2>7. x.at \in {"lists", "read", "keep"} =>
            since'[x.cred] <= CacheTime + ProviderTimeout
      BY <1>1, <1>3, <1>4, <2>2, Constants DEF IsOK
    <2>8. x.offered /\ x.alone =>
            /\ x.at = "store" => x.cred \in keys' \cup x.fetched
            /\ x.at = "again" => x.cred \in keys'
      BY <1>1, <1>4 DEF IsOK, Steady
    <2>9. req'[r] = x
      BY DEF x
    <2>10. /\ x.waited <= ProviderTimeout /\ ~x.outdated
           /\ x.at = "serving" => ~x.outdated
           /\ x.at = "keep" => /\ x.parsed.mtime <= x.parsed.version
                               /\ x.began[Axes[x.axis]] <= x.parsed.version
      BY <1>1, <1>4 DEF IsOK
    <2>11. IsOK(req[r])'
      BY <2>3, <2>4, <2>5, <2>6, <2>7, <2>8, <2>9, <2>10 DEF IsOK
    <2>. QED  BY <2>11, RequestOKIs
  <1>5. CASE x.at \notin Steps
    <2>1. IsOK(req[r])'
      BY <1>1, <1>5 DEF IsOK
    <2>. QED  BY <2>1, RequestOKIs
  <1>. QED  BY <1>4, <1>5

(* One request moves in a steady world. *)
LEMMA OneMovesAlone ==
  ASSUME HttpInv, Steady, NEW r \in Workers, NEW x \in Request,
         req' = [req EXCEPT ![r] = x], IsOK(req[r])'
  PROVE  /\ req' \in [Workers -> Request]
         /\ \A w \in Workers : RequestOK(w)'
  <1>1. req' \in [Workers -> Request]
    BY DEF HttpInv, HttpTyped
  <1>2. RequestOK(r)'
    BY RequestOKIs
  <1>3. ASSUME NEW w \in Workers, w # r PROVE RequestOK(w)'
    <2>1. req'[w] = req[w]
      BY <1>3 DEF HttpInv, HttpTyped
    <2>. QED  BY <2>1, StandingStill DEF HttpInv
  <1>. QED  BY <1>1, <1>2, <1>3

(* It moves by itself: nothing else changes. *)
LEMMA RequestMoves ==
  ASSUME HttpInv, NEW r \in Workers, NEW x \in Request,
         req' = [req EXCEPT ![r] = x], IsOK(x),
         x.at \in {"store", "again"} => Refreshing(r),
         UNCHANGED <<vouched, since, file, server, provider, changes,
                     keys, keysAge, identities, lists>>
  PROVE  HttpInv'
  <1>1. req'[r] = x /\ \A w \in Workers : w # r => req'[w] = req[w]
    BY DEF HttpInv, HttpTyped
  <1>2. Steady
    BY Constants DEF Steady, HttpInv, HttpTyped, FileState
  <1>3. IsOK(req[r])'
    BY <1>1 DEF IsOK
  <1>4. req' \in [Workers -> Request] /\ \A w \in Workers : RequestOK(w)'
    BY <1>2, <1>3, OneMovesAlone
  <1>5. RefreshedKeysAge'
    BY <1>1 DEF HttpInv, RefreshedKeysAge, Refreshing
  <1>6. HttpTyped' /\ ListsAge' /\ CachesAge'
    BY <1>4 DEF HttpInv, HttpTyped, ListsAge, CachesAge
  <1>. QED  BY <1>4, <1>5, <1>6 DEF HttpInv

-----------------------------------------------------------------------------
(* The steps of one request.                                                 *)

(* Nothing changes but where the requests are. *)
OnlyRequests ==
  UNCHANGED <<vouched, since, file, server, provider, changes,
              keys, keysAge, identities, lists>>

(* A request that is refused or served leaves nothing to be kept.             *)
LEMMA Refused ==
  ASSUME HttpInv, NEW r \in Workers, Http!Refuse(r), OnlyRequests
  PROVE  HttpInv'
  <1>. DEFINE x == Http!Unserved
  <1>1. x \in Request /\ x.at = "idle"
    BY DEF Http!Unserved, Request
  <1>2. IsOK(x) /\ x.at \notin {"store", "again"}
    BY <1>1 DEF IsOK, Steps
  <1>3. req' = [req EXCEPT ![r] = x]
    BY DEF Http!Refuse
  <1>. HIDE DEF x
  <1>. QED  BY <1>1, <1>2, <1>3, RequestMoves DEF OnlyRequests

LEMMA LetIn ==
  ASSUME HttpInv, NEW r \in Workers, Http!Let(r, FALSE), OnlyRequests
  PROVE  HttpInv'
  <1>. DEFINE x == [at |-> "serving", outdated |-> FALSE]
  <1>1. x \in Request
    BY DEF Request
  <1>2. IsOK(x) /\ x.at \notin {"store", "again"}
    BY DEF IsOK, Steps
  <1>3. req' = [req EXCEPT ![r] = x]
    BY DEF Http!Let
  <1>. HIDE DEF x
  <1>. QED  BY <1>1, <1>2, <1>3, RequestMoves DEF OnlyRequests

(* A request that goes on to another place with what it has.                  *)
LEMMA RequestGoesOn ==
  ASSUME HttpInv, NEW r \in Workers, req[r].at \in Steps, NEW place \in Steps,
         req' = [req EXCEPT ![r].at = place],
         place \in {"lookup", "call"}, OnlyRequests
  PROVE  HttpInv'
  <1>. DEFINE x == [req[r] EXCEPT !.at = place]
  <1>1. req[r] \in RequestUnderWay /\ IsOK(req[r])
    BY RequestsAre, RequestOKIs DEF HttpInv
  <1>2. x \in RequestUnderWay /\ x.at = place
    BY <1>1 DEF RequestUnderWay
  <1>3. IsOK(x)
    BY <1>1, <1>2 DEF IsOK, RequestUnderWay, Steps
  <1>4. x \in Request
    BY <1>2 DEF Request
  <1>5. req' = [req EXCEPT ![r] = x]
    BY DEF HttpInv, HttpTyped
  <1>. HIDE DEF x
  <1>. QED  BY <1>2, <1>3, <1>4, <1>5, RequestMoves DEF OnlyRequests

(* A request whose credential is good, on to its allowlists.                  *)
LEMMA VouchedIs ==
  ASSUME HttpInv, NEW r \in Workers, req[r].at \in Steps,
         since[req[r].cred] <= CacheTime + ProviderTimeout
  PROVE  LET x == Http!Fresh("lists", req[r].cred, req[r].who, req[r].began) IN
         x \in Request /\ x.at = "lists" /\ IsOK(x) /\ x.cred = req[r].cred
  <1>. DEFINE x == Http!Fresh("lists", req[r].cred, req[r].who, req[r].began)
  <1>1. req[r] \in RequestUnderWay /\ IsOK(req[r])
    BY RequestsAre, RequestOKIs DEF HttpInv
  <1>2. /\ req[r].cred \in Credentials /\ req[r].who \in People
        /\ req[r].began \in [Http!Files -> 0 .. MaxChanges]
        /\ "lists" \in Steps
    BY <1>1 DEF RequestUnderWay, Steps
  <1>3. /\ x \in RequestUnderWay /\ x.at = "lists" /\ x.cred = req[r].cred
        /\ x.began = req[r].began /\ x.waited = 0 /\ x.stat = 0 /\ x.axis = 1
        /\ ~x.outdated /\ ~x.offered
    BY <1>2, FreshIs
  <1>4. /\ Axes[1] \in Http!Files /\ file[Axes[1]].version \in Nat
        /\ 0 <= ProviderTimeout
    BY Constants DEF HttpInv, HttpTyped, FileState
  <1>. HIDE DEF x
  <1>5. IsOK(x)
    BY <1>1, <1>3, <1>4 DEF IsOK
  <1>6. x \in Request /\ x.at = "lists" /\ IsOK(x) /\ x.cred = req[r].cred
    BY <1>3, <1>5 DEF Request
  <1>. QED  BY <1>6 DEF x

LEMMA Admitting ==
  ASSUME HttpInv, NEW r \in Workers, req[r].at \in Steps, Http!Vouched(r), OnlyRequests,
         since[req[r].cred] <= CacheTime + ProviderTimeout
  PROVE  HttpInv'
  <1>. DEFINE x == Http!Fresh("lists", req[r].cred, req[r].who, req[r].began)
  <1>1. x \in Request /\ x.at = "lists" /\ IsOK(x)
    BY VouchedIs
  <1>2. req' = [req EXCEPT ![r] = x]
    BY DEF Http!Vouched
  <1>. HIDE DEF x
  <1>. QED  BY <1>1, <1>2, RequestMoves DEF OnlyRequests

LEMMA HttpBeginStep ==
  ASSUME HttpInv, NEW r \in Workers, NEW c \in Credentials, NEW who \in People,
         Http!Begin(r, c, who)
  PROVE  HttpInv'
  <1>1. OnlyRequests
    BY DEF Http!Begin, Http!external, Http!process, Http!caches, OnlyRequests
  <1>2. CASE Http!Let(r, FALSE)
    BY <1>1, <1>2, LetIn
  <1>. DEFINE began == [a \in Http!Files |-> file[a].version]
              x == Http!Fresh("lookup", c, who, began)
  <1>3. CASE req' = [req EXCEPT ![r] = x]
    <2>1. began \in [Http!Files -> 0 .. MaxChanges]
      BY DEF HttpInv, HttpTyped, FileState
    <2>2. /\ x \in RequestUnderWay /\ x.at = "lookup" /\ x.began = began /\ x.waited = 0
          /\ x.stat = 0 /\ x.axis = 1 /\ ~x.outdated /\ ~x.offered
      BY <2>1, FreshIs DEF Steps
    <2>3. /\ Axes[1] \in Http!Files /\ 0 <= ProviderTimeout
          /\ \A a \in Http!Files : file[a].version \in Nat /\ began[a] = file[a].version
      BY Constants DEF HttpInv, HttpTyped, FileState
    <2>. HIDE DEF x, began
    <2>4. IsOK(x)
      BY <2>2, <2>3 DEF IsOK
    <2>. QED  BY <1>1, <1>3, <2>2, <2>4, RequestMoves DEF OnlyRequests, Request
  <1>. QED  BY <1>2, <1>3 DEF Http!Begin

LEMMA HttpLookupStep ==
  ASSUME HttpInv, NEW r \in Workers, Http!Lookup(r)
  PROVE  HttpInv'
  <1>. DEFINE c == req[r].cred
  <1>1. req[r].at = "lookup" /\ req[r].at \in Steps /\ OnlyRequests
    BY DEF Http!Lookup, Http!At, Http!external, Http!process, Http!caches, OnlyRequests, Steps
  <1>2. c \in Credentials
    BY <1>1, RequestsAre DEF HttpInv, RequestUnderWay
  <1>3. /\ since[c] \in Nat /\ identities[c] \in Nat /\ keysAge \in Nat
        /\ CacheTime \in Nat /\ ProviderTimeout \in Nat
    BY <1>2, Constants DEF HttpInv, HttpTyped
  <1>4. CASE ((keysAge < CacheTime /\ c \in keys) \/ identities[c] <= CacheTime) /\ Http!Vouched(r)
    <2>1. \/ since[c] <= keysAge + ProviderTimeout /\ keysAge < CacheTime
          \/ since[c] <= identities[c] + ProviderTimeout /\ identities[c] <= CacheTime
      BY <1>2, <1>4 DEF HttpInv, CachesAge
    <2>2. since[c] <= CacheTime + ProviderTimeout
      BY <1>3, <2>1
    <2>. QED  BY <1>1, <1>4, <2>2, Admitting
  <1>5. CASE Http!Go(r, "call")
    BY <1>1, <1>5, RequestGoesOn DEF Http!Go, Steps
  <1>. QED  BY <1>4, <1>5 DEF Http!Lookup

LEMMA VouchStep ==
  ASSUME HttpInv, NEW r \in Workers, Http!Vouch(r)
  PROVE  HttpInv'
  <1>. DEFINE fetched == IF provider = "oidc" THEN vouched ELSE vouched \cap {req[r].cred}
              x == [req[r] EXCEPT !.at = "return", !.fetched = fetched]
  <1>1. /\ req[r].at = "call" /\ OnlyRequests
        /\ req' = [req EXCEPT ![r].at = "return", ![r].fetched = fetched]
    BY DEF Http!Vouch, Http!At, Http!external, Http!process, Http!caches, OnlyRequests
  <1>2. req[r] \in RequestUnderWay /\ IsOK(req[r])
    BY <1>1, RequestsAre, RequestOKIs DEF HttpInv, Steps
  <1>3. fetched \subseteq vouched /\ fetched \in SUBSET Credentials
    BY DEF HttpInv, HttpTyped
  <1>4. req' = [req EXCEPT ![r] = x]
    BY <1>1 DEF HttpInv, HttpTyped
  <1>. HIDE DEF fetched
  <1>5. /\ x \in RequestUnderWay /\ x.at = "return" /\ x.fetched = fetched
        /\ x.waited = req[r].waited /\ x.began = req[r].began /\ x.stat = req[r].stat
        /\ x.axis = req[r].axis /\ x.outdated = req[r].outdated
    BY <1>2, <1>3 DEF RequestUnderWay, Steps
  <1>6. \A c \in fetched : since[c] <= req[r].waited
    BY <1>2, <1>3 DEF HttpInv, CachesAge, RequestUnderWay
  <1>. HIDE DEF x
  <1>7. IsOK(x)
    BY <1>1, <1>2, <1>5, <1>6 DEF IsOK, Steps
  <1>. QED  BY <1>1, <1>4, <1>5, <1>7, RequestMoves DEF OnlyRequests, Request

(* What the provider answered is no older than the call.                      *)
LEMMA HttpReturnStep ==
  ASSUME HttpInv, NEW r \in Workers, Http!Return(r)
  PROVE  HttpInv'
  <1>1. /\ req[r].at = "return"
        /\ UNCHANGED <<vouched, since, file, server, provider, changes, keys, keysAge, lists>>
    BY DEF Http!Return, Http!At, Http!external, Http!process
  <1>2. req[r] \in RequestUnderWay /\ IsOK(req[r]) /\ req[r].at \in Steps
    BY <1>1, RequestsAre, RequestOKIs DEF HttpInv, Steps
  <1>3. /\ \A c \in req[r].fetched : c \in Credentials /\ since[c] <= req[r].waited
        /\ req[r].waited <= ProviderTimeout /\ req[r].waited \in Nat
        /\ req[r].cred \in Credentials
    BY <1>1, <1>2 DEF IsOK, RequestUnderWay
  <1>4. \A c \in req[r].fetched : since[c] <= ProviderTimeout /\ since[c] \in Nat
    BY <1>3, Constants DEF HttpInv, HttpTyped
  <1>5. CASE /\ req' = [req EXCEPT ![r].at = "clear", ![r].waited = 0]
             /\ UNCHANGED identities
    <2>. DEFINE x == [req[r] EXCEPT !.at = "clear", !.waited = 0]
    <2>1. /\ x \in RequestUnderWay /\ x.at = "clear" /\ x.fetched = req[r].fetched
          /\ x.waited = 0 /\ x.began = req[r].began /\ x.stat = req[r].stat
          /\ x.axis = req[r].axis /\ x.outdated = req[r].outdated
      BY <1>2 DEF RequestUnderWay, Steps
    <2>2. req' = [req EXCEPT ![r] = x]
      BY <1>5 DEF HttpInv, HttpTyped
    <2>3. 0 <= ProviderTimeout
      BY Constants
    <2>. HIDE DEF x
    <2>4. IsOK(x)
      BY <1>2, <1>4, <2>1, <2>3 DEF IsOK, Steps
    <2>. QED  BY <1>1, <1>5, <2>1, <2>2, <2>4, RequestMoves DEF Request
  <1>6. CASE /\ req[r].cred \in req[r].fetched /\ Http!Vouched(r)
             /\ identities' = [identities EXCEPT ![req[r].cred] = 0]
    <2>. DEFINE x == Http!Fresh("lists", req[r].cred, req[r].who, req[r].began)
    <2>1. since[req[r].cred] <= CacheTime + ProviderTimeout
      BY <1>4, <1>6, Constants
    <2>2. x \in Request /\ x.at = "lists" /\ IsOK(x)
      BY <1>2, <2>1, VouchedIs
    <2>3. req' = [req EXCEPT ![r] = x]
      BY <1>6 DEF Http!Vouched
    <2>. HIDE DEF x
    <2>4. req'[r] = x /\ \A w \in Workers : w # r => req'[w] = req[w]
      BY <2>3 DEF HttpInv, HttpTyped
    <2>5. Steady
      BY <1>1, Constants DEF Steady, HttpInv, HttpTyped, FileState
    <2>6. IsOK(req[r])'
      BY <1>1, <2>2, <2>4 DEF IsOK
    <2>7. req' \in [Workers -> Request] /\ \A w \in Workers : RequestOK(w)'
      BY <2>2, <2>3, <2>5, <2>6, OneMovesAlone
    <2>8. RefreshedKeysAge'
      BY <1>1, <2>2, <2>4 DEF HttpInv, RefreshedKeysAge, Refreshing
    <2>9. identities' \in [Credentials -> 0 .. Http!Gone]
      BY <1>3, <1>6, Constants DEF HttpInv, HttpTyped
    <2>10. ASSUME NEW c \in Credentials, identities'[c] <= CacheTime
           PROVE  since[c] <= identities'[c] + ProviderTimeout
      <3>1. CASE c = req[r].cred
        <4>1. identities'[c] = 0
          BY <1>6, <3>1 DEF HttpInv, HttpTyped
        <4>2. since[c] <= ProviderTimeout /\ ProviderTimeout \in Nat
          BY <1>4, <1>6, <3>1, Constants
        <4>. QED  BY <4>1, <4>2
      <3>2. CASE c # req[r].cred
        <4>1. identities'[c] = identities[c]
          BY <1>6, <3>2 DEF HttpInv, HttpTyped
        <4>. QED  BY <2>10, <4>1 DEF HttpInv, CachesAge
      <3>. QED  BY <3>1, <3>2
    <2>11. HttpTyped' /\ ListsAge' /\ CachesAge'
      BY <1>1, <2>7, <2>9, <2>10 DEF HttpInv, HttpTyped, ListsAge, CachesAge
    <2>. QED  BY <2>7, <2>8, <2>11 DEF HttpInv
  <1>7. CASE Http!Refuse(r) /\ UNCHANGED identities
    BY <1>1, <1>7, Refused DEF OnlyRequests
  <1>. QED  BY <1>5, <1>6, <1>7 DEF Http!Return

LEMMA CallFailsStep ==
  ASSUME HttpInv, NEW r \in Workers, Http!CallFails(r)
  PROVE  HttpInv'
  BY Refused DEF Http!CallFails, Http!external, Http!process, Http!caches, OnlyRequests

LEMMA EndStep ==
  ASSUME HttpInv, NEW r \in Workers, Http!EndRequest(r)
  PROVE  HttpInv'
  BY Refused DEF Http!EndRequest, Http!external, Http!process, Http!caches, OnlyRequests

LEMMA LookAgainStep ==
  ASSUME HttpInv, NEW r \in Workers, Http!LookAgain(r)
  PROVE  HttpInv'
  <1>1. req[r].at = "again" /\ OnlyRequests
    BY DEF Http!LookAgain, Http!At, Http!external, Http!process, Http!caches, OnlyRequests
  <1>2. CASE req[r].cred \in keys /\ Http!Vouched(r)
    <2>1. since[req[r].cred] <= ProviderTimeout
      BY <1>1, <1>2 DEF HttpInv, RefreshedKeysAge, Refreshing
    <2>2. since[req[r].cred] \in Nat
      BY <1>2, Constants DEF HttpInv, HttpTyped
    <2>3. since[req[r].cred] <= CacheTime + ProviderTimeout
      BY <2>1, <2>2, Constants
    <2>. QED  BY <1>1, <1>2, <2>3, Admitting DEF Steps
  <1>3. CASE Http!Refuse(r)
    BY <1>1, <1>3, Refused
  <1>. QED  BY <1>2, <1>3 DEF Http!LookAgain

-----------------------------------------------------------------------------
(* The refresh of the keys, one write at a time.                             *)

(* Whoever clears the map tells the others that are refreshing it.            *)
LEMMA ClearKeysStep ==
  ASSUME HttpInv, NEW r \in Workers, Http!ClearKeys(r)
  PROVE  HttpInv'
  <1>. DEFINE offered == req[r].cred \in req[r].fetched
              x == [req[r] EXCEPT !.at = "store", !.offered = offered]
  <1>1. /\ req[r].at = "clear" /\ keys' = {}
        /\ UNCHANGED <<vouched, since, file, server, provider, changes,
                       keysAge, identities, lists>>
        /\ req' = [q \in Workers |->
             IF q = r THEN x
             ELSE IF Http!At(q, "store") \/ Http!At(q, "again")
                  THEN [req[q] EXCEPT !.alone = FALSE]
             ELSE req[q]]
    BY DEF Http!ClearKeys, Http!At, Http!external, Http!process
  <1>2. \A w \in Workers : IsOK(req[w]) /\ (req[w].at \in Steps => req[w] \in RequestUnderWay)
    BY RequestsAre, RequestOKIs DEF HttpInv
  <1>3. server = "up"
    BY DEF Http!ClearKeys, Http!At
  <1>4. req'[r] \in Request /\ RequestOK(r)'
    <2>1. req[r] \in RequestUnderWay /\ req'[r] = x
      BY <1>1, <1>2 DEF Steps
    <2>2. offered \in BOOLEAN /\ (offered => req[r].cred \in req[r].fetched)
      OBVIOUS
    <2>. HIDE DEF offered
    <2>3. /\ x \in RequestUnderWay /\ x.at = "store" /\ x.fetched = req[r].fetched
          /\ x.cred = req[r].cred /\ x.waited = req[r].waited /\ x.began = req[r].began
          /\ x.stat = req[r].stat /\ x.axis = req[r].axis /\ x.outdated = req[r].outdated
          /\ x.offered = offered
      BY <2>1, <2>2 DEF RequestUnderWay, Steps
    <2>. HIDE DEF x
    <2>4. IsOK(req[r])'
      BY <1>1, <1>2, <2>1, <2>2, <2>3 DEF IsOK, Steps
    <2>. QED  BY <2>1, <2>3, <2>4, RequestOKIs DEF Request
  <1>5. ASSUME NEW q \in Workers, q # r PROVE req'[q] \in Request /\ RequestOK(q)'
    <2>1. CASE req[q].at \in {"store", "again"}
      <3>. DEFINE y == [req[q] EXCEPT !.alone = FALSE]
      <3>1. req'[q] = y /\ req[q] \in RequestUnderWay
        BY <1>1, <1>2, <1>3, <1>5, <2>1 DEF Http!At, Steps
      <3>2. /\ y \in RequestUnderWay /\ y.at = req[q].at /\ y.fetched = req[q].fetched /\ ~y.alone
            /\ y.waited = req[q].waited /\ y.began = req[q].began /\ y.stat = req[q].stat
            /\ y.axis = req[q].axis /\ y.outdated = req[q].outdated
        BY <3>1 DEF RequestUnderWay
      <3>. HIDE DEF y
      <3>3. IsOK(req[q])'
        BY <1>1, <1>2, <2>1, <3>1, <3>2 DEF IsOK, Steps
      <3>. QED  BY <3>1, <3>2, <3>3, RequestOKIs DEF Request
    <2>2. CASE req[q].at \notin {"store", "again"}
      <3>1. req'[q] = req[q]
        BY <1>1, <1>5, <2>2 DEF Http!At
      <3>2. IsOK(req[q])'
        BY <1>1, <1>2, <2>2, <3>1 DEF IsOK
      <3>. QED  BY <3>1, <3>2, RequestOKIs DEF HttpInv, HttpTyped
    <2>. QED  BY <2>1, <2>2
  <1>6. req' \in [Workers -> Request] /\ \A w \in Workers : RequestOK(w)'
    <2>1. \A w \in Workers : req'[w] \in Request /\ RequestOK(w)'
      BY <1>4, <1>5
    <2>. HIDE DEF x, offered
    <2>. QED  BY <1>1, <2>1
  <1>7. HttpTyped' /\ ListsAge' /\ CachesAge' /\ RefreshedKeysAge'
    BY <1>1, <1>6 DEF HttpInv, HttpTyped, ListsAge, CachesAge, RefreshedKeysAge
  <1>. QED  BY <1>6, <1>7 DEF HttpInv

LEMMA StoreKeyStep ==
  ASSUME HttpInv, NEW r \in Workers, Http!StoreKey(r)
  PROVE  HttpInv'
  <1>1. PICK k \in req[r].fetched :
          /\ keys' = keys \cup {k}
          /\ req' = [req EXCEPT ![r].fetched = @ \ {k}]
    BY DEF Http!StoreKey
  <1>2. /\ req[r].at = "store"
        /\ UNCHANGED <<vouched, since, file, server, provider, changes,
                       keysAge, identities, lists>>
    BY DEF Http!StoreKey, Http!At, Http!external, Http!process
  <1>3. req[r] \in RequestUnderWay /\ IsOK(req[r])
    BY <1>2, RequestsAre, RequestOKIs DEF HttpInv, Steps
  <1>4. k \in Credentials /\ since[k] <= ProviderTimeout /\ since[k] \in Nat
    BY <1>2, <1>3, Constants DEF IsOK, RequestUnderWay, HttpInv, HttpTyped, Steps
  <1>. DEFINE x == [req[r] EXCEPT !.fetched = @ \ {k}]
  <1>5. /\ x \in RequestUnderWay /\ x.at = "store" /\ x.fetched = req[r].fetched \ {k}
        /\ x.cred = req[r].cred /\ x.waited = req[r].waited /\ x.began = req[r].began
        /\ x.stat = req[r].stat /\ x.axis = req[r].axis /\ x.outdated = req[r].outdated
        /\ x.offered = req[r].offered /\ x.alone = req[r].alone
    BY <1>2, <1>3 DEF RequestUnderWay
  <1>6. req' = [req EXCEPT ![r] = x]
    BY <1>1 DEF HttpInv, HttpTyped
  <1>. HIDE DEF x
  <1>7. req'[r] = x /\ \A w \in Workers : w # r => req'[w] = req[w]
    BY <1>6 DEF HttpInv, HttpTyped
  <1>8. Steady
    BY <1>1, <1>2, Constants DEF Steady, HttpInv, HttpTyped, FileState
  <1>9. IsOK(req[r])'
    BY <1>1, <1>2, <1>3, <1>5, <1>7 DEF IsOK, Steps
  <1>10. req' \in [Workers -> Request] /\ \A w \in Workers : RequestOK(w)'
    BY <1>5, <1>6, <1>8, <1>9, OneMovesAlone DEF Request
  <1>11. \A c \in keys' : since[c] <= ProviderTimeout /\ since[c] \in Nat
    BY <1>1, <1>2, <1>4, Constants DEF HttpInv, HttpTyped, RefreshedKeysAge, Refreshing
  <1>12. RefreshedKeysAge'
    BY <1>2, <1>11 DEF RefreshedKeysAge
  <1>13. CachesAge'
    BY <1>2, <1>11, Constants DEF HttpInv, HttpTyped, CachesAge
  <1>14. HttpTyped' /\ ListsAge'
    BY <1>1, <1>2, <1>4, <1>10 DEF HttpInv, HttpTyped, ListsAge
  <1>. QED  BY <1>10, <1>12, <1>13, <1>14 DEF HttpInv

LEMMA SetExpiryStep ==
  ASSUME HttpInv, NEW r \in Workers, Http!SetExpiry(r)
  PROVE  HttpInv'
  <1>1. /\ req[r].at = "store" /\ req[r].fetched = {} /\ keysAge' = 0
        /\ req' = [req EXCEPT ![r].at = "again"]
        /\ UNCHANGED <<vouched, since, file, server, provider, changes,
                       keys, identities, lists>>
    BY DEF Http!SetExpiry, Http!Go, Http!At, Http!external, Http!process
  <1>2. req[r] \in RequestUnderWay /\ IsOK(req[r])
    BY <1>1, RequestsAre, RequestOKIs DEF HttpInv, Steps
  <1>. DEFINE x == [req[r] EXCEPT !.at = "again"]
  <1>3. /\ x \in RequestUnderWay /\ x.at = "again"
        /\ x.cred = req[r].cred /\ x.waited = req[r].waited /\ x.began = req[r].began
        /\ x.stat = req[r].stat /\ x.axis = req[r].axis /\ x.outdated = req[r].outdated
        /\ x.offered = req[r].offered /\ x.alone = req[r].alone
    BY <1>2 DEF RequestUnderWay, Steps
  <1>4. req' = [req EXCEPT ![r] = x]
    BY <1>1 DEF HttpInv, HttpTyped
  <1>. HIDE DEF x
  <1>5. req'[r] = x /\ \A w \in Workers : w # r => req'[w] = req[w]
    BY <1>4 DEF HttpInv, HttpTyped
  <1>6. Steady
    BY <1>1, Constants DEF Steady, HttpInv, HttpTyped, FileState
  <1>7. IsOK(req[r])'
    BY <1>1, <1>2, <1>3, <1>5 DEF IsOK, Steps
  <1>8. req' \in [Workers -> Request] /\ \A w \in Workers : RequestOK(w)'
    BY <1>3, <1>4, <1>6, <1>7, OneMovesAlone DEF Request
  <1>9. \A c \in keys : since[c] <= ProviderTimeout
    BY <1>1 DEF HttpInv, RefreshedKeysAge, Refreshing
  <1>10. RefreshedKeysAge'
    BY <1>1, <1>9 DEF RefreshedKeysAge
  <1>11. CachesAge'
    BY <1>1, <1>9, Constants DEF HttpInv, HttpTyped, CachesAge
  <1>12. HttpTyped' /\ ListsAge'
    BY <1>1, <1>8, Constants DEF HttpInv, HttpTyped, ListsAge
  <1>. QED  BY <1>8, <1>10, <1>11, <1>12 DEF HttpInv

-----------------------------------------------------------------------------
(* The allowlists.                                                           *)

(* A decision on a list no older than the request is the request's next step. *)
LEMMA Decided ==
  ASSUME HttpInv, NEW r \in Workers, req[r].at \in {"lists", "keep"}, NEW list,
         Http!Decide(r, list, FALSE)
  PROVE  \E x \in Request : /\ req' = [req EXCEPT ![r] = x]
                            /\ IsOK(x) /\ x.at \in {"idle", "serving", "lists"}
  <1>1. req[r] \in RequestUnderWay /\ IsOK(req[r])
    BY RequestsAre, RequestOKIs DEF HttpInv, Steps
  <1>2. ~req[r].outdated /\ req[r].outdated \in BOOLEAN /\ req[r].axis \in 1 .. Len(Axes)
    BY <1>1 DEF IsOK, Steps, RequestUnderWay
  <1>3. CASE Http!Refuse(r)
    <2>. DEFINE x == Http!Unserved
    <2>1. x \in Request /\ x.at = "idle"
      BY DEF Http!Unserved, Request
    <2>2. IsOK(x)
      BY <2>1 DEF IsOK, Steps
    <2>3. req' = [req EXCEPT ![r] = x]
      BY <1>3 DEF Http!Refuse
    <2>. HIDE DEF x
    <2>. QED  BY <2>1, <2>2, <2>3
  <1>4. CASE Http!Let(r, req[r].outdated \/ FALSE)
    <2>. DEFINE x == [at |-> "serving", outdated |-> req[r].outdated \/ FALSE]
    <2>1. x \in Request /\ x.at = "serving" /\ ~x.outdated
      BY <1>2 DEF Request
    <2>2. req' = [req EXCEPT ![r] = x]
      BY <1>4 DEF Http!Let
    <2>. HIDE DEF x
    <2>3. IsOK(x)
      BY <2>1 DEF IsOK, Steps
    <2>. QED  BY <2>1, <2>2, <2>3
  <1>5. CASE /\ req[r].axis # Len(Axes)
             /\ req' = [req EXCEPT ![r].at = "lists", ![r].axis = @ + 1, ![r].stat = 0,
                                   ![r].parsed = Http!NoList, ![r].outdated = @ \/ FALSE]
    <2>. DEFINE next == req[r].axis + 1
                x == [req[r] EXCEPT !.at = "lists", !.axis = next, !.stat = 0,
                                    !.parsed = Http!NoList, !.outdated = FALSE]
    <2>1. next \in 1 .. Len(Axes) /\ 0 \in 0 .. MaxChanges /\ Http!NoList \in ListState
      BY <1>2, <1>5, Constants DEF Http!NoList, ListState
    <2>2. (req[r].outdated \/ FALSE) = FALSE
      BY <1>2
    <2>3. req' = [req EXCEPT ![r] = x]
      BY <1>5, <2>2 DEF HttpInv, HttpTyped
    <2>4. Axes[next] \in Http!Files /\ 0 <= file[Axes[next]].version
      BY <2>1, Constants DEF HttpInv, HttpTyped, FileState
    <2>. HIDE DEF next
    <2>5. /\ x \in RequestUnderWay /\ x.at = "lists" /\ x.cred = req[r].cred
          /\ x.waited = req[r].waited /\ x.began = req[r].began
          /\ x.stat = 0 /\ x.axis = next /\ ~x.outdated
      BY <1>1, <2>1 DEF RequestUnderWay, Steps
    <2>. HIDE DEF x
    <2>6. IsOK(x)
      BY <1>1, <2>4, <2>5 DEF IsOK, Steps
    <2>. QED  BY <2>3, <2>5, <2>6 DEF Request
  <1>. QED  BY <1>3, <1>4, <1>5 DEF Http!Decide

(* What is kept under the modification time a file has now was read no        *)
(* earlier than the request came.                                             *)
LEMMA StatListStep ==
  ASSUME HttpInv, NEW r \in Workers, Http!StatList(r)
  PROVE  HttpInv'
  <1>. DEFINE a == Axes[req[r].axis]
  <1>1. req[r].at = "lists" /\ OnlyRequests /\ a = Http!Axis(r)
    BY DEF Http!StatList, Http!At, Http!external, Http!process, Http!caches, OnlyRequests,
         Http!Axis
  <1>2. req[r] \in RequestUnderWay /\ IsOK(req[r])
    BY <1>1, RequestsAre, RequestOKIs DEF HttpInv, Steps
  <1>3. /\ a \in Http!Files
        /\ file[a].version \in 0 .. MaxChanges /\ req[r].began[a] \in Nat
        /\ req[r].began[a] <= file[a].version
        /\ lists[a].version \in Nat /\ lists[a].mtime \in Nat
        /\ (lists[a].kept => lists[a].mtime <= lists[a].version)
    <2>1. /\ a \in Http!Files /\ req[r].began[a] \in Nat
          /\ req[r].began[a] <= file[a].version
      BY <1>1, <1>2, Constants DEF RequestUnderWay, IsOK, Steps
    <2>2. file[a].version \in 0 .. MaxChanges
      BY <2>1 DEF HttpInv, HttpTyped, FileState
    <2>3. lists[a].version \in Nat /\ lists[a].mtime \in Nat
      BY <2>1, Constants DEF HttpInv, HttpTyped, ListState
    <2>4. lists[a].kept => lists[a].mtime <= lists[a].version
      BY <2>1 DEF HttpInv, ListsAge
    <2>. QED  BY <2>1, <2>2, <2>3, <2>4
  <1>4. CASE Http!Refuse(r)
    BY <1>1, <1>4, Refused
  <1>5. CASE /\ lists[a].kept /\ lists[a].mtime = file[a].version
             /\ Http!Decide(r, lists[a].list, Http!Outdated(r, lists[a].version))
    <2>1. Http!Outdated(r, lists[a].version) = FALSE
      <3>. DEFINE older == lists[a].version < req[r].began[a]
      <3>1. Http!Outdated(r, lists[a].version) = older
        BY DEF Http!Outdated, Http!Axis
      <3>2. older \in BOOLEAN /\ ~older
        BY <1>3, <1>5
      <3>. HIDE DEF older
      <3>3. older = FALSE
        BY <3>2
      <3>. QED  BY <3>1, <3>3
    <2>2. Http!Decide(r, lists[a].list, FALSE)
      BY <1>5, <2>1
    <2>3. \E x \in Request : /\ req' = [req EXCEPT ![r] = x]
                             /\ IsOK(x) /\ x.at \in {"idle", "serving", "lists"}
      BY <1>1, <2>2, Decided
    <2>. QED  BY <1>1, <2>3, RequestMoves DEF OnlyRequests
  <1>6. CASE req' = [req EXCEPT ![r].at = "read", ![r].stat = file[a].version]
    <2>. DEFINE x == [req[r] EXCEPT !.at = "read", !.stat = file[a].version]
    <2>1. /\ x \in RequestUnderWay /\ x.at = "read" /\ x.cred = req[r].cred
          /\ x.waited = req[r].waited /\ x.began = req[r].began
          /\ x.stat = file[a].version /\ x.axis = req[r].axis
          /\ x.outdated = req[r].outdated
      BY <1>2, <1>3 DEF RequestUnderWay, Steps
    <2>2. req' = [req EXCEPT ![r] = x]
      BY <1>6 DEF HttpInv, HttpTyped
    <2>3. file[a].version <= file[a].version
      BY <1>3
    <2>4. a = Axes[x.axis]
      BY <2>1
    <2>. HIDE DEF x, a
    <2>5. IsOK(x)
      BY <1>1, <1>2, <2>1, <2>3, <2>4 DEF IsOK, Steps
    <2>. QED  BY <1>1, <2>1, <2>2, <2>5, RequestMoves DEF OnlyRequests, Request
  <1>. QED  BY <1>1, <1>4, <1>5, <1>6 DEF Http!StatList

(* What is read may be newer than the modification time it is kept under.     *)
LEMMA ReadListStep ==
  ASSUME HttpInv, NEW r \in Workers, Http!ReadList(r)
  PROVE  HttpInv'
  <1>. DEFINE a == Axes[req[r].axis]
              parsed == [kept |-> TRUE, mtime |-> req[r].stat, list |-> file[a].list,
                         version |-> file[a].version]
  <1>1. req[r].at = "read" /\ OnlyRequests /\ a = Http!Axis(r)
    BY DEF Http!ReadList, Http!At, Http!external, Http!process, Http!caches, OnlyRequests,
         Http!Axis
  <1>2. req[r] \in RequestUnderWay /\ IsOK(req[r])
    BY <1>1, RequestsAre, RequestOKIs DEF HttpInv, Steps
  <1>3. /\ a \in Http!Files
        /\ file[a].version \in 0 .. MaxChanges /\ file[a].list \in Contents
        /\ req[r].began[a] <= file[a].version
        /\ req[r].stat \in 0 .. MaxChanges /\ req[r].stat <= file[a].version
    BY <1>1, <1>2, Constants DEF RequestUnderWay, IsOK, Steps, HttpInv, HttpTyped, FileState
  <1>4. CASE Http!Refuse(r)
    BY <1>1, <1>4, Refused
  <1>5. CASE req' = [req EXCEPT ![r].at = "keep", ![r].parsed = parsed]
    <2>1. /\ parsed \in ListState /\ parsed.mtime <= parsed.version
          /\ req[r].began[a] <= parsed.version
      BY <1>3 DEF ListState
    <2>. HIDE DEF parsed
    <2>. DEFINE x == [req[r] EXCEPT !.at = "keep", !.parsed = parsed]
    <2>2. /\ x \in RequestUnderWay /\ x.at = "keep" /\ x.cred = req[r].cred
          /\ x.waited = req[r].waited /\ x.began = req[r].began /\ x.parsed = parsed
          /\ x.stat = req[r].stat /\ x.axis = req[r].axis /\ x.outdated = req[r].outdated
      BY <1>2, <2>1 DEF RequestUnderWay, Steps
    <2>3. req' = [req EXCEPT ![r] = x]
      BY <1>5 DEF HttpInv, HttpTyped
    <2>4. a = Axes[x.axis]
      BY <2>2
    <2>. HIDE DEF x, a
    <2>5. IsOK(x)
      BY <1>1, <1>2, <1>3, <2>1, <2>2, <2>4 DEF IsOK, Steps
    <2>. QED  BY <1>1, <2>2, <2>3, <2>5, RequestMoves DEF OnlyRequests, Request
  <1>. QED  BY <1>1, <1>4, <1>5 DEF Http!ReadList

(* What was read is no older than the request, whatever became of the file.   *)
LEMMA KeepListStep ==
  ASSUME HttpInv, NEW r \in Workers, Http!KeepList(r)
  PROVE  HttpInv'
  <1>. DEFINE a == Axes[req[r].axis]
              parsed == req[r].parsed
  <1>1. /\ req[r].at = "keep"
        /\ lists' = [lists EXCEPT ![a] = parsed]
        /\ Http!Decide(r, parsed.list, Http!Outdated(r, parsed.version))
        /\ UNCHANGED <<vouched, since, file, server, provider, changes,
                       keys, keysAge, identities>>
    BY DEF Http!KeepList, Http!At, Http!external, Http!process, Http!Axis
  <1>2. req[r] \in RequestUnderWay /\ IsOK(req[r])
    BY <1>1, RequestsAre, RequestOKIs DEF HttpInv, Steps
  <1>3. /\ a \in Http!Files /\ parsed \in ListState
        /\ req[r].began[a] \in Nat /\ parsed.version \in Nat
        /\ parsed.mtime <= parsed.version /\ req[r].began[a] <= parsed.version
    BY <1>1, <1>2, Constants DEF RequestUnderWay, IsOK, Steps, ListState
  <1>4. Http!Outdated(r, parsed.version) = FALSE
    <2>. DEFINE older == parsed.version < req[r].began[a]
    <2>1. Http!Outdated(r, parsed.version) = older
      BY DEF Http!Outdated, Http!Axis
    <2>2. older \in BOOLEAN /\ ~older
      BY <1>3
    <2>. HIDE DEF older
    <2>3. older = FALSE
      BY <2>2
    <2>. QED  BY <2>1, <2>3
  <1>5. Http!Decide(r, parsed.list, FALSE)
    BY <1>1, <1>4
  <1>6. PICK x \in Request : /\ req' = [req EXCEPT ![r] = x]
                             /\ IsOK(x) /\ x.at \in {"idle", "serving", "lists"}
    BY <1>1, <1>5, Decided
  <1>7. req'[r] = x /\ \A w \in Workers : w # r => req'[w] = req[w]
    BY <1>6 DEF HttpInv, HttpTyped
  <1>8. Steady
    BY <1>1, Constants DEF Steady, HttpInv, HttpTyped, FileState
  <1>9. IsOK(req[r])'
    BY <1>1, <1>6, <1>7 DEF IsOK
  <1>10. req' \in [Workers -> Request] /\ \A w \in Workers : RequestOK(w)'
    BY <1>6, <1>8, <1>9, OneMovesAlone
  <1>11. RefreshedKeysAge'
    BY <1>1, <1>6, <1>7 DEF HttpInv, RefreshedKeysAge, Refreshing
  <1>. HIDE DEF parsed, a
  <1>12. /\ lists' \in [Http!Files -> ListState]
         /\ \A b \in Http!Files : lists'[b] = IF b = a THEN parsed ELSE lists[b]
    BY <1>1, <1>3 DEF HttpInv, HttpTyped
  <1>13. HttpTyped' /\ CachesAge'
    BY <1>1, <1>10, <1>12 DEF HttpInv, HttpTyped, CachesAge
  <1>14. ListsAge'
    BY <1>1, <1>3, <1>12 DEF HttpInv, ListsAge
  <1>. QED  BY <1>10, <1>11, <1>13, <1>14 DEF HttpInv

-----------------------------------------------------------------------------
(* The provider, the operator, the process and time.                         *)

LEMMA AllStandStill ==
  ASSUME HttpInv, Steady, UNCHANGED req
  PROVE  req' \in [Workers -> Request] /\ \A w \in Workers : RequestOK(w)'
  <1>1. ASSUME NEW w \in Workers PROVE RequestOK(w)'
    BY StandingStill DEF HttpInv
  <1>. QED  BY <1>1 DEF HttpInv, HttpTyped

(* The caches, the files and the requests do not notice. *)
LEMMA ProcessStep ==
  ASSUME HttpInv, server' \in {"starting", "up", "exited", "crashed"},
         provider' \in {"none", "oidc", "google"},
         UNCHANGED <<vouched, since, file, changes, keys, keysAge, identities, lists, req>>
  PROVE  HttpInv'
  <1>1. Steady
    BY Constants DEF Steady, HttpInv, HttpTyped, FileState
  <1>2. req' \in [Workers -> Request] /\ \A w \in Workers : RequestOK(w)'
    BY <1>1, AllStandStill
  <1>3. HttpTyped' /\ ListsAge' /\ CachesAge' /\ RefreshedKeysAge'
    BY <1>2 DEF HttpInv, HttpTyped, ListsAge, CachesAge, RefreshedKeysAge, Refreshing
  <1>. QED  BY <1>2, <1>3 DEF HttpInv

LEMMA StartServerStep ==
  ASSUME HttpInv, NEW i \in BOOLEAN, NEW g \in BOOLEAN, NEW au \in BOOLEAN,
         NEW url \in BOOLEAN, Http!StartServer(i, g, au, url)
  PROVE  HttpInv'
  <1>1. UNCHANGED <<vouched, since, file, changes, keys, keysAge, identities, lists, req>>
    BY DEF Http!StartServer, Http!external, Http!caches
  <1>2. \/ server' = "exited" /\ UNCHANGED provider
        \/ server' = "up" /\ provider' = Http!selectAuthProvider(i, g)
           /\ Http!selectAuthProvider(i, g) \in {"none", "oidc", "google"}
    BY DEF Http!StartServer, Http!selectAuthProvider
  <1>. QED  BY <1>1, <1>2, ProcessStep DEF HttpInv, HttpTyped

LEMMA RestartStep ==
  ASSUME HttpInv, Http!Restart
  PROVE  HttpInv'
  BY ProcessStep DEF Http!Restart, Http!external, Http!caches, HttpInv, HttpTyped

LEMMA ChangeStep ==
  ASSUME HttpInv, NEW c \in Credentials, Http!Change(c)
  PROVE  HttpInv'
  <1>1. /\ changes < MaxChanges /\ changes' = changes + 1
        /\ vouched' = IF c \in vouched THEN vouched \ {c} ELSE vouched \cup {c}
        /\ since' = [since EXCEPT ![c] = 0]
        /\ UNCHANGED <<file, server, provider, keys, keysAge, identities, lists, req>>
    BY DEF Http!Change, Http!caches
  <1>2. /\ since' \in [Credentials -> Http!Ages]
        /\ \A d \in Credentials :
             /\ since[d] \in Nat /\ since'[d] \in Nat /\ since'[d] <= since[d]
             /\ since'[d] = IF d = c THEN 0 ELSE since[d]
    BY <1>1, Constants DEF HttpInv, HttpTyped
  <1>3. Steady
    BY <1>1, <1>2, Constants DEF Steady, HttpInv, HttpTyped, FileState
  <1>4. req' \in [Workers -> Request] /\ \A w \in Workers : RequestOK(w)'
    BY <1>1, <1>3, AllStandStill
  <1>5. HttpTyped'
    BY <1>1, <1>2, <1>4, Constants DEF HttpInv, HttpTyped
  <1>6. ListsAge'
    BY <1>1, Constants DEF HttpInv, HttpTyped, ListsAge, FileState
  <1>7. CachesAge'
    <2>1. \A d \in vouched' : since'[d] = 0
      BY <1>1, <1>2 DEF HttpInv, HttpTyped, CachesAge
    <2>2. \A d \in keys : keysAge < CacheTime => since'[d] <= keysAge + ProviderTimeout
      BY <1>1, <1>2, Constants DEF HttpInv, HttpTyped, CachesAge
    <2>3. \A d \in Credentials :
            identities[d] <= CacheTime => since'[d] <= identities[d] + ProviderTimeout
      BY <1>1, <1>2, Constants DEF HttpInv, HttpTyped, CachesAge
    <2>. QED  BY <1>1, <2>1, <2>2, <2>3 DEF CachesAge
  <1>8. RefreshedKeysAge'
    BY <1>1, <1>2, Constants DEF HttpInv, HttpTyped, RefreshedKeysAge, Refreshing
  <1>. QED  BY <1>4, <1>5, <1>6, <1>7, <1>8 DEF HttpInv

LEMMA EditStep ==
  ASSUME HttpInv, NEW a \in Http!Files, NEW list \in Contents, NEW ok \in BOOLEAN,
         Http!Edit(a, list, ok)
  PROVE  HttpInv'
  <1>. DEFINE new == [version |-> file[a].version + 1, readable |-> ok,
                      list |-> IF ok THEN list ELSE file[a].list]
  <1>1. /\ changes < MaxChanges /\ changes' = changes + 1
        /\ file' = [file EXCEPT ![a] = new]
        /\ UNCHANGED <<vouched, since, server, provider, keys, keysAge, identities, lists,
                       req>>
    BY DEF Http!Edit, Http!caches
  <1>2. \A b \in Http!Files : file[b] \in FileState /\ file[b].version <= changes
    BY DEF HttpInv, HttpTyped, ListsAge
  <1>3. changes \in Nat
    BY Constants DEF HttpInv, HttpTyped
  <1>4. new \in FileState /\ new.version <= changes + 1 /\ file[a].version <= new.version
    BY <1>1, <1>2, <1>3, Constants DEF FileState
  <1>. HIDE DEF new
  <1>5. /\ file' \in [Http!Files -> FileState]
        /\ \A b \in Http!Files : file'[b] = IF b = a THEN new ELSE file[b]
    BY <1>1, <1>4 DEF HttpInv, HttpTyped
  <1>6. Steady
    BY <1>1, <1>2, <1>4, <1>5, Constants DEF Steady, HttpInv, HttpTyped, FileState
  <1>7. req' \in [Workers -> Request] /\ \A w \in Workers : RequestOK(w)'
    BY <1>1, <1>6, AllStandStill
  <1>8. HttpTyped'
    BY <1>1, <1>5, <1>7, Constants DEF HttpInv, HttpTyped
  <1>9. ListsAge'
    BY <1>1, <1>2, <1>3, <1>4, <1>5, Constants DEF HttpInv, ListsAge, FileState
  <1>10. CachesAge' /\ RefreshedKeysAge'
    BY <1>1 DEF HttpInv, CachesAge, RefreshedKeysAge, Refreshing
  <1>. QED  BY <1>7, <1>8, <1>9, <1>10 DEF HttpInv

LEMMA UnservedIs ==
  Http!Unserved \in Request /\ Http!Unserved.at = "idle" /\ IsOK(Http!Unserved)
  /\ IsOK(Http!Unserved)'
  <1>1. Http!Unserved \in Request /\ Http!Unserved.at = "idle"
    BY DEF Http!Unserved, Request
  <1>. QED  BY <1>1 DEF IsOK, Steps, Http!Unserved

LEMMA CrashStep ==
  ASSUME HttpInv, Http!Crash
  PROVE  HttpInv'
  <1>1. /\ changes < MaxChanges /\ changes' = changes + 1 /\ server' = "crashed"
        /\ req' = [r \in Workers |-> Http!Unserved]
        /\ keys' = {} /\ keysAge' = CacheTime
        /\ identities' = [c \in Credentials |-> Http!Gone]
        /\ lists' = [a \in Http!Files |-> Http!NoList]
        /\ UNCHANGED <<vouched, since, file, provider>>
    BY DEF Http!Crash, Http!external
  <1>2. \A w \in Workers : req'[w] = Http!Unserved
    BY <1>1
  <1>3. req' \in [Workers -> Request]
    BY <1>1, UnservedIs
  <1>4. \A w \in Workers : RequestOK(w)'
    BY <1>2, UnservedIs, RequestOKIs DEF IsOK
  <1>5. Http!NoList \in ListState /\ Http!NoList.kept = FALSE
    BY Constants DEF Http!NoList, ListState
  <1>6. lists' \in [Http!Files -> ListState] /\ \A a \in Http!Files : ~lists'[a].kept
    BY <1>1, <1>5
  <1>7. HttpTyped'
    BY <1>1, <1>3, <1>6, Constants DEF HttpInv, HttpTyped
  <1>8. ListsAge'
    BY <1>1, <1>6, Constants DEF HttpInv, HttpTyped, ListsAge, FileState
  <1>9. CachesAge' /\ RefreshedKeysAge'
    BY <1>1, Constants DEF HttpInv, HttpTyped, CachesAge, RefreshedKeysAge
  <1>. QED  BY <1>4, <1>7, <1>8, <1>9 DEF HttpInv

(* Time passes only while every request is idle or waits for the provider: it *)
(* is the calls under way that get older with what they fetched.              *)
LEMMA TickStep ==
  ASSUME HttpInv, Http!Tick
  PROVE  HttpInv'
  <1>1. /\ Http!Busy = {}
        /\ \A r \in Http!Calling : req[r].waited < ProviderTimeout
        /\ since' = [c \in Credentials |->
             IF c \in vouched THEN 0 ELSE Http!Older(since[c], Http!Memory)]
        /\ keysAge' = Http!Older(keysAge, CacheTime)
        /\ identities' = [c \in Credentials |-> Http!Older(identities[c], Http!Gone)]
        /\ req' = [r \in Workers |->
             IF r \in Http!Calling THEN [req[r] EXCEPT !.waited = @ + 1] ELSE req[r]]
        /\ UNCHANGED <<vouched, file, server, provider, changes, keys, lists>>
    BY DEF Http!Tick, Http!process
  <1>2. /\ since' \in [Credentials -> Http!Ages]
        /\ \A c \in Credentials : /\ since[c] \in Nat /\ since'[c] \in Nat
                                  /\ since'[c] <= since[c] + 1
                                  /\ c \in vouched => since'[c] = 0
    BY <1>1, Constants DEF HttpInv, HttpTyped, Http!Older
  <1>3. /\ keysAge' \in 0 .. CacheTime
        /\ keysAge' < CacheTime => keysAge' = keysAge + 1 /\ keysAge < CacheTime
    BY <1>1, Constants DEF HttpInv, HttpTyped, Http!Older
  <1>4. /\ identities' \in [Credentials -> 0 .. Http!Gone]
        /\ \A c \in Credentials :
             identities'[c] <= CacheTime =>
               identities'[c] = identities[c] + 1 /\ identities[c] <= CacheTime
    BY <1>1, Constants DEF HttpInv, HttpTyped, Http!Older
  <1>5. \A w \in Workers : req[w].at \in {"idle", "call", "return"}
    BY <1>1 DEF Http!Busy
  <1>6. ASSUME NEW w \in Workers
        PROVE  /\ req'[w] \in Request /\ RequestOK(w)'
               /\ req'[w].at \notin {"store", "again"}
    <2>1. IsOK(req[w])
      BY RequestOKIs DEF HttpInv
    <2>2. CASE req[w].at = "idle"
      <3>1. req'[w] = req[w]
        BY <1>1, <2>2 DEF Http!Calling
      <3>2. IsOK(req[w])'
        BY <2>2, <3>1 DEF IsOK, Steps
      <3>. QED  BY <2>2, <3>1, <3>2, RequestOKIs DEF HttpInv, HttpTyped
    <2>3. CASE req[w].at \in {"call", "return"}
      <3>. DEFINE x == [req[w] EXCEPT !.waited = @ + 1]
      <3>1. req'[w] = x /\ req[w].waited < ProviderTimeout
        BY <1>1, <2>3 DEF Http!Calling
      <3>2. req[w] \in RequestUnderWay
        BY <2>3, RequestsAre DEF HttpInv, Steps
      <3>3. /\ x \in RequestUnderWay /\ x.at = req[w].at /\ x.fetched = req[w].fetched
            /\ x.waited = req[w].waited + 1 /\ x.began = req[w].began
            /\ x.stat = req[w].stat /\ x.axis = req[w].axis
            /\ x.outdated = req[w].outdated
        BY <3>2 DEF RequestUnderWay
      <3>4. /\ req[w].waited \in Nat /\ req[w].fetched \subseteq Credentials
            /\ x.waited <= ProviderTimeout
        BY <3>1, <3>2, <3>3, Constants DEF RequestUnderWay
      <3>. HIDE DEF x
      <3>5. x.at = "return" => \A c \in x.fetched : since'[c] <= x.waited
        BY <1>2, <2>1, <2>3, <3>3, <3>4 DEF IsOK, Steps
      <3>6. IsOK(req[w])'
        BY <1>1, <2>1, <2>3, <3>1, <3>3, <3>4, <3>5 DEF IsOK, Steps
      <3>. QED  BY <2>3, <3>1, <3>3, <3>6, RequestOKIs DEF Request
    <2>. QED  BY <1>5, <2>2, <2>3
  <1>7. req' \in [Workers -> Request]
    <2>1. \A w \in Workers : req'[w] \in Request
      BY <1>6
    <2>. QED  BY <1>1, <2>1
  <1>8. HttpTyped' /\ ListsAge'
    BY <1>1, <1>2, <1>3, <1>4, <1>7 DEF HttpInv, HttpTyped, ListsAge
  <1>9. CachesAge'
    <2>1. keys \subseteq Credentials /\ keysAge \in Nat
          /\ \A c \in Credentials : identities[c] \in Nat
      BY Constants DEF HttpInv, HttpTyped
    <2>2. \A c \in keys : keysAge' < CacheTime => since'[c] <= keysAge' + ProviderTimeout
      <3>1. SUFFICES ASSUME NEW c \in keys, keysAge' < CacheTime
                     PROVE  since'[c] <= keysAge' + ProviderTimeout
        OBVIOUS
      <3>2. c \in Credentials /\ since[c] <= keysAge + ProviderTimeout
        BY <1>3, <2>1, <3>1 DEF HttpInv, CachesAge
      <3>3. since[c] \in Nat /\ since'[c] \in Nat /\ since'[c] <= since[c] + 1
        BY <1>2, <3>2
      <3>4. keysAge' = keysAge + 1 /\ keysAge \in Nat /\ ProviderTimeout \in Nat
        BY <1>3, <2>1, <3>1, Constants
      <3>. QED  BY <3>2, <3>3, <3>4
    <2>3. \A c \in Credentials :
            identities'[c] <= CacheTime => since'[c] <= identities'[c] + ProviderTimeout
      BY <1>2, <1>4, <2>1, Constants DEF HttpInv, CachesAge
    <2>. QED  BY <1>1, <1>2, <2>2, <2>3 DEF CachesAge, HttpInv, HttpTyped
  <1>10. RefreshedKeysAge'
    BY <1>6 DEF RefreshedKeysAge, Refreshing
  <1>. QED  BY <1>6, <1>8, <1>9, <1>10 DEF HttpInv

LEMMA HttpStart == ASSUME Http!Init PROVE HttpInv
  <1>1. /\ server = "starting" /\ provider = "none" /\ changes = 0
        /\ vouched \subseteq Credentials
        /\ since = [c \in Credentials |-> IF c \in vouched THEN 0 ELSE Http!Memory]
        /\ keys = {} /\ keysAge = CacheTime
        /\ identities = [c \in Credentials |-> Http!Gone]
        /\ lists = [a \in Http!Files |-> Http!NoList]
        /\ req = [r \in Workers |-> Http!Unserved]
    BY DEF Http!Init
  <1>2. PICK list \in Contents :
          file = [a \in Http!Files |-> [version |-> 0, readable |-> TRUE, list |-> list]]
    BY DEF Http!Init
  <1>3. file \in [Http!Files -> FileState] /\ \A a \in Http!Files : file[a].version = 0
    BY <1>2, Constants DEF FileState
  <1>4. lists \in [Http!Files -> ListState] /\ \A a \in Http!Files : ~lists[a].kept
    <2>1. Http!NoList \in ListState /\ ~Http!NoList.kept
      BY Constants DEF Http!NoList, ListState
    <2>. QED  BY <1>1, <2>1
  <1>5. req \in [Workers -> Request] /\ \A w \in Workers : req[w] = Http!Unserved
    BY <1>1, UnservedIs
  <1>6. \A w \in Workers : RequestOK(w)
    BY <1>5, UnservedIs, RequestOKIs
  <1>7. HttpTyped
    BY <1>1, <1>3, <1>4, <1>5, Constants DEF HttpTyped
  <1>8. ListsAge
    BY <1>1, <1>3, <1>4 DEF ListsAge
  <1>9. CachesAge /\ RefreshedKeysAge
    BY <1>1, Constants DEF CachesAge, RefreshedKeysAge
  <1>. QED  BY <1>6, <1>7, <1>8, <1>9 DEF HttpInv

LEMMA HttpStep == ASSUME HttpInv, [Http!Next]_(Http!vars) PROVE HttpInv'
  <1>1. ASSUME NEW i \in BOOLEAN, NEW g \in BOOLEAN, NEW au \in BOOLEAN, NEW url \in BOOLEAN,
               Http!StartServer(i, g, au, url)
        PROVE  HttpInv'
    BY <1>1, StartServerStep
  <1>2. ASSUME NEW c \in Credentials, Http!Change(c) PROVE HttpInv'
    BY <1>2, ChangeStep
  <1>3. ASSUME NEW a \in Http!Files, NEW list \in Contents, NEW ok \in BOOLEAN,
               Http!Edit(a, list, ok)
        PROVE  HttpInv'
    BY <1>3, EditStep
  <1>4. ASSUME NEW r \in Workers, NEW c \in Credentials, NEW who \in People,
               Http!Begin(r, c, who)
        PROVE  HttpInv'
    BY <1>4, HttpBeginStep
  <1>5. ASSUME NEW r \in Workers, Http!Serve(r) PROVE HttpInv'
    BY <1>5, HttpLookupStep, ClearKeysStep, StoreKeyStep, SetExpiryStep, LookAgainStep,
       StatListStep, ReadListStep, KeepListStep, EndStep DEF Http!Serve
  <1>6. ASSUME NEW r \in Workers, Http!Vouch(r) \/ Http!Return(r) \/ Http!CallFails(r)
        PROVE  HttpInv'
    BY <1>6, VouchStep, HttpReturnStep, CallFailsStep
  <1>7. CASE Http!Crash
    BY <1>7, CrashStep
  <1>8. CASE Http!Restart
    BY <1>8, RestartStep
  <1>9. CASE Http!Tick
    BY <1>9, TickStep
  <1>10. CASE UNCHANGED Http!vars
    BY <1>10, ProcessStep
       DEF Http!vars, Http!external, Http!process, Http!caches, HttpInv, HttpTyped
  <1>. QED
    BY <1>1, <1>2, <1>3, <1>4, <1>5, <1>6, <1>7, <1>8, <1>9, <1>10 DEF Http!Next

-----------------------------------------------------------------------------
(* What follows of the server.                                               *)

(* A step of the server is a step of this part or leaves it alone.            *)
LEMMA HttpMoves == [Next]_vars => [Http!Next]_(Http!vars)
  BY DEF Next, vars, httpVars, Http!vars, Http!external, Http!process, Http!caches

(* The invariant holds of every behaviour of the server.                      *)
THEOREM HttpInvHolds == Spec => []HttpInv
  <1>1. Init => HttpInv
    BY HttpStart DEF Init
  <1>2. HttpInv /\ [Next]_vars => HttpInv'
    BY HttpStep, HttpMoves
  <1>. QED  BY <1>1, <1>2, PTL DEF Spec

(* Nobody is let in on an allowlist older than the file was when the request  *)
(* came (auth/listsource.go:59-93), although requests share what was parsed   *)
(* and a file may change between its stat and its read.                       *)
THEOREM ListsAreCurrent == Spec => []ListsCurrent
  <1>1. HttpInv => ListsCurrent
    BY DEF HttpInv, RequestOK, ListsCurrent, Http!ListsCurrent, Http!At
  <1>. QED  BY <1>1, HttpInvHolds, PTL

(* A credential lets nobody in for longer after its provider withdrew it than *)
(* the caches' lifetime and one call (auth/oidc.go:407-499,                   *)
(* auth/google.go:285-310), however refreshes of the keys interleave.         *)
THEOREM WithdrawnCredentialsExpire == Spec => WithdrawnExpires
  <1>1. HttpInv =>
          \A r \in Workers : Http!Admitted(r) =>
            since[req[r].cred] <= CacheTime + ProviderTimeout
    BY DEF HttpInv, RequestOK, FetchedAge, Http!Admitted, Steps
  <1>. QED  BY <1>1, HttpInvHolds, PTL DEF WithdrawnExpires, Http!WithdrawnExpires

(* The types of the state of HTTP authentication.                             *)
THEOREM HttpTypesHold == Spec => []Http!TypeOK
  <1>1. ASSUME HttpInv PROVE Http!TypeOK
    <2>1. \A r \in Workers : req[r].at \in Http!Places \cup {"idle"}
      BY <1>1, RequestsAre DEF HttpInv, Steps, Http!Places
    <2>. QED  BY <1>1, <2>1 DEF HttpInv, HttpTyped, Http!TypeOK, FileState, ListState
  <1>. QED  BY <1>1, HttpInvHolds, PTL

(* Only its own look leaves the place where a request looks for its key again, *)
(* but for the end of the process.                                            *)
LEMMA LooksAgainAlone ==
  ASSUME HttpInv, NEW r \in Workers, req[r].at = "again", Http!Next,
         server' = "up", req'[r].at = "idle"
  PROVE  Http!LookAgain(r)
  <1>. DEFINE Stays(q) == q # r => req'[r] = req[r]
  <1>1. ASSUME NEW i \in BOOLEAN, NEW g \in BOOLEAN, NEW au \in BOOLEAN, NEW url \in BOOLEAN,
               Http!StartServer(i, g, au, url)
        PROVE  FALSE
    BY <1>1 DEF Http!StartServer
  <1>2. ASSUME NEW c \in Credentials, Http!Change(c) PROVE FALSE
    BY <1>2 DEF Http!Change
  <1>3. ASSUME NEW a \in Http!Files, NEW list \in Contents, NEW ok \in BOOLEAN,
               Http!Edit(a, list, ok)
        PROVE  FALSE
    BY <1>3 DEF Http!Edit
  <1>4. ASSUME NEW q \in Workers, NEW c \in Credentials, NEW who \in People,
               Http!Begin(q, c, who)
        PROVE  FALSE
    <2>1. q # r
      BY <1>4 DEF Http!Begin
    <2>2. req'[r] = req[r]
      BY <1>4, <2>1 DEF Http!Begin, Http!Let, HttpInv, HttpTyped
    <2>. QED  BY <2>2
  <1>5. ASSUME NEW q \in Workers, Http!ClearKeys(q) PROVE FALSE
    <2>1. req[r] \in RequestUnderWay
      BY RequestsAre DEF HttpInv, Steps
    <2>2. req'[r] \in {req[r], [req[r] EXCEPT !.alone = FALSE]}
      BY <1>5 DEF Http!ClearKeys, Http!At
    <2>3. [req[r] EXCEPT !.alone = FALSE].at = "again"
      BY <2>1 DEF RequestUnderWay
    <2>. QED  BY <2>2, <2>3
  <1>6. ASSUME NEW q \in Workers, q # r, Http!Serve(q), ~Http!ClearKeys(q) PROVE FALSE
    <2>1. ASSUME Http!Vouched(q) \/ Http!Refuse(q) \/ Http!Go(q, "call") PROVE req'[r] = req[r]
      BY <1>6, <2>1 DEF Http!Vouched, Http!Refuse, Http!Go, HttpInv, HttpTyped
    <2>2. ASSUME NEW list, NEW older, Http!Decide(q, list, older) PROVE req'[r] = req[r]
      BY <1>6, <2>1, <2>2 DEF Http!Decide, Http!Let, HttpInv, HttpTyped
    <2>3. CASE Http!Lookup(q) \/ Http!LookAgain(q) \/ Http!EndRequest(q)
      BY <2>1, <2>3 DEF Http!Lookup, Http!LookAgain, Http!EndRequest
    <2>4. CASE Http!StoreKey(q) \/ Http!SetExpiry(q)
      BY <1>6, <2>4 DEF Http!StoreKey, Http!SetExpiry, Http!Go, HttpInv, HttpTyped
    <2>5. CASE Http!StatList(q) \/ Http!ReadList(q) \/ Http!KeepList(q)
      BY <1>6, <2>1, <2>2, <2>5
         DEF Http!StatList, Http!ReadList, Http!KeepList, HttpInv, HttpTyped
    <2>. QED  BY <1>6, <2>3, <2>4, <2>5 DEF Http!Serve
  <1>7. ASSUME Http!Serve(r) PROVE Http!LookAgain(r)
    BY <1>5, <1>7 DEF Http!Serve, Http!Lookup, Http!StoreKey, Http!SetExpiry,
       Http!StatList, Http!ReadList, Http!KeepList, Http!EndRequest, Http!At
  <1>8. ASSUME NEW q \in Workers, Http!Vouch(q) \/ Http!Return(q) \/ Http!CallFails(q)
        PROVE  FALSE
    <2>1. q # r
      BY <1>8 DEF Http!Vouch, Http!Return, Http!CallFails, Http!At
    <2>2. PICK x : req' = [req EXCEPT ![q] = x]
      BY <1>8 DEF Http!Vouch, Http!Return, Http!CallFails, Http!Vouched, Http!Refuse
    <2>. QED  BY <2>1, <2>2 DEF HttpInv, HttpTyped
  <1>9. ~Http!Crash
    BY DEF Http!Crash
  <1>10. ~Http!Restart
    BY DEF Http!Restart
  <1>11. ASSUME Http!Tick PROVE FALSE
    BY <1>11 DEF Http!Tick, Http!Busy
  <1>. QED
    BY <1>1, <1>2, <1>3, <1>4, <1>5, <1>6, <1>7, <1>8, <1>9, <1>10, <1>11 DEF Http!Next

(* A request whose key was among those it fetched is refused for a missing    *)
(* key only after another request replaced the map (auth/oidc.go:426-433).    *)
THEOREM RefusalsAreRaces == Spec => RefusedOnlyByRace
  <1>1. ASSUME HttpInv, [Http!Next]_(Http!vars)
        PROVE  [\A r \in Workers :
                  Http!At(r, "again") /\ req[r].offered /\ req'[r].at = "idle"
                    /\ server' = "up"
                  => ~req[r].alone]_(Http!vars)
    <2>1. SUFFICES ASSUME Http!Next, NEW r \in Workers, req[r].at = "again",
                          req[r].offered, req[r].alone, req'[r].at = "idle", server' = "up"
                   PROVE  FALSE
      BY <1>1 DEF Http!At
    <2>2. Http!LookAgain(r)
      BY <1>1, <2>1, LooksAgainAlone
    <2>3. req[r].cred \in keys
      BY <1>1, <2>1 DEF HttpInv, RequestOK, OwnKeyIsThere, Steps
    <2>4. req' = [req EXCEPT ![r] = Http!Fresh("lists", req[r].cred, req[r].who, req[r].began)]
      BY <2>2, <2>3 DEF Http!LookAgain, Http!Vouched
    <2>5. req'[r].at = "lists"
      BY <1>1, <2>4 DEF HttpInv, HttpTyped, Http!Fresh
    <2>. QED  BY <2>1, <2>5
  <1>. QED
    BY <1>1, HttpInvHolds, HttpMoves, PTL DEF Spec, RefusedOnlyByRace, Http!RefusedOnlyByRace
=============================================================================
