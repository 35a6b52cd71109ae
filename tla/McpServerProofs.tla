---------------------------- MODULE McpServerProofs ----------------------------
(***************************************************************************)
(* Proofs about what stands behind the tools of the MCP server: the log     *)
(* searches, the investigations, the named endpoints and the reads by       *)
(* pages, as McpServer composes them, and about the server as a whole.      *)
(* HttpAuthProofs and ToolCallsProofs are about its other parts.            *)
(***************************************************************************)
EXTENDS HttpAuthProofs, ToolCallsProofs

(* The instances have copies of their own of what the library defines.        *)
LEMMA RangeAppended ==
  ASSUME NEW S, NEW s \in Seq(S), NEW e \in S
  PROVE  /\ Append(s, e) \in Seq(S) /\ Len(Append(s, e)) = Len(s) + 1
         /\ Log!Range(Append(s, e)) = Log!Range(s) \cup {e}
         /\ Append(s, e)[Len(s) + 1] = e
         /\ \A i \in 1 .. Len(s) : Append(s, e)[i] = s[i]
  <1>1. /\ Append(s, e) \in Seq(S) /\ Len(Append(s, e)) = Len(s) + 1
        /\ Append(s, e)[Len(s) + 1] = e
        /\ \A i \in 1 .. Len(s) : Append(s, e)[i] = s[i]
    BY AppendProperties
  <1>2. Len(s) \in Nat /\ DOMAIN s = 1 .. Len(s) /\ DOMAIN Append(s, e) = 1 .. Len(s) + 1
    BY <1>1
  <1>3. ASSUME NEW x PROVE x \in Log!Range(Append(s, e)) <=> x \in Log!Range(s) \cup {e}
    <2>1. ASSUME x \in Log!Range(Append(s, e)) PROVE x \in Log!Range(s) \cup {e}
      <3>1. PICK i \in 1 .. Len(s) + 1 : Append(s, e)[i] = x
        BY <1>2, <2>1 DEF Log!Range
      <3>. QED  BY <1>1, <1>2, <3>1 DEF Log!Range
    <2>2. ASSUME x \in Log!Range(s) PROVE x \in Log!Range(Append(s, e))
      <3>1. PICK i \in 1 .. Len(s) : s[i] = x
        BY <1>2, <2>2 DEF Log!Range
      <3>. QED  BY <1>1, <1>2, <3>1 DEF Log!Range
    <2>3. e \in Log!Range(Append(s, e))
      BY <1>1, <1>2 DEF Log!Range
    <2>. QED  BY <2>1, <2>2, <2>3
  <1>. QED  BY <1>1, <1>3

LEMMA SetListed ==
  ASSUME NEW S, Log!IsFiniteSet(S)
  PROVE  Log!SetToSeq(S) \in Seq(S)
  <1>1. IsFiniteSet(S) /\ Log!Cardinality(S) = Cardinality(S)
    BY DEF Log!IsFiniteSet, IsFiniteSet, Log!Cardinality, Cardinality
  <1>2. Cardinality(S) \in Nat /\ ExistsBijection(1 .. Cardinality(S), S)
    BY <1>1, FS_CardinalityType
  <1>3. \E f \in [1 .. Cardinality(S) -> S] : Log!IsInjective(f)
    BY <1>2 DEF ExistsBijection, Bijection, Injection, Log!IsInjective, IsInjective
  <1>4. Log!SetToSeq(S) \in [1 .. Cardinality(S) -> S]
    BY <1>1, <1>3 DEF Log!SetToSeq
  <1>. QED  BY <1>2, <1>4

-----------------------------------------------------------------------------
(* Searches: the inductive invariant.                                        *)

Names == Seq(STRING)
Ops == Log!ByAccount \cup {"loki", "labels", "trace", "traces"}
Answers == {"rows", "empty", "error"}

LogCall ==
  [at : {"idle"}] \cup
  [at : {"ask", "poll", "pause"}, op : Ops, places : Seq(Names), answers : Seq(Answers),
   sent : Names, cancelled : BOOLEAN, waited : Nat, since : Nat] \cup
  [at : {"done"}, op : Ops, ok : BOOLEAN, places : Seq(Names), answers : Seq(Answers),
   leads : SUBSET STRING, others : SUBSET Log!LogFamilies]

(* With an allowlist, a place is made of names that are on it.                *)
Permitted(policy, place) ==
  policy.allowed # {} => place # <<>> /\ Log!Range(place) \subseteq policy.allowed

PlacesPermitted(c) ==
  /\ c.op \in {"loki", "trace", "traces"} =>
       Len(c.places) = 1 /\ Permitted(Log!Policy(c.op), c.places[1])
  /\ c.op = "labels" => \A i \in 1 .. Len(c.places) : Permitted(conf.loki, c.places[i])

(* What was sent last went out for the place that answered last.              *)
SentTo(op, place) == IF op = "labels" THEN Log!Resolve(conf.loki, place).header ELSE place
SentForPlace(c) ==
  c.op \notin Log!ByAccount /\ c.answers # <<>> =>
    c.sent = SentTo(c.op, c.places[Len(c.answers)])

(* The deadline is looked at between two requests.                            *)
TimesKept(c) ==
  /\ c.at \in {"poll", "pause"} => Log!Polls(c.op) /\ Len(c.answers) < Len(c.places)
  /\ c.at = "poll" => c.since <= CallTime /\ c.waited <= MaxWait + c.since
  /\ c.at = "pause" => c.since <= Interval /\ c.waited <= MaxWait + CallTime + c.since

AskedRightly(c) ==
  /\ Len(c.answers) <= Len(c.places)
  /\ PlacesPermitted(c) /\ SentForPlace(c) /\ TimesKept(c)

LogInv ==
  /\ conf \in Deployments /\ search \in LogCall
  /\ search.at \in {"ask", "poll", "pause"} => AskedRightly(search)
  /\ search.at = "done" =>
       Len(search.answers) <= Len(search.places) /\ Log!EmptyAnswersLeadOn

-----------------------------------------------------------------------------
(* Searches: what the constants and the operators say.                       *)

LEMMA LogConstants ==
  /\ \A d \in Deployments : Log!IsDeployment(d)
  /\ \A s \in Searches : s.op \in Ops /\ s.named \in Names
  /\ MaxWait \in Nat \ {0} /\ Interval \in Nat \ {0} /\ CallTime \in Nat \ {0}
  BY PartsAssumption DEF Log!ConstantsOK, Ops, Names

LEMMA OpsAre ==
  /\ "insights" \in Log!ByAccount /\ Log!Accounts["insights"].leads = TRUE
  /\ \A op : Log!Polls(op) <=> op = "insights"
  /\ Log!ByAccount \cap {"loki", "labels", "trace", "traces"} = {}
  <1>. DEFINE InEach(polls, leads) == [polls |-> polls, leads |-> leads]
  <1>1. Log!Accounts = [
          insights |-> InEach(TRUE, TRUE), groups |-> InEach(FALSE, FALSE),
          events |-> InEach(FALSE, FALSE), metrics |-> InEach(FALSE, FALSE),
          statistics |-> InEach(FALSE, FALSE), metric_data |-> InEach(FALSE, FALSE),
          alarms |-> InEach(FALSE, FALSE), alarm_history |-> InEach(FALSE, FALSE)]
    BY DEF Log!Accounts, Log!InEach, Log!executeMultiAccountQuery,
       Log!executeMultiAccountListGroups, Log!executeMultiAccountGetEvents,
       Log!executeMultiAccountListMetrics, Log!executeMultiAccountGetMetricStatistics,
       Log!executeMultiAccountGetMetricData, Log!executeMultiAccountAlarmsList,
       Log!executeMultiAccountAlarmsHistory
  <1>2. Log!ByAccount = {"insights", "groups", "events", "metrics", "statistics",
                         "metric_data", "alarms", "alarm_history"}
    BY <1>1 DEF Log!ByAccount
  <1>3. /\ Log!Accounts["insights"] = InEach(TRUE, TRUE)
        /\ \A op \in Log!ByAccount \ {"insights"} : Log!Accounts[op] = InEach(FALSE, FALSE)
    <2>. HIDE DEF InEach
    <2>1. /\ Log!Accounts["insights"] = InEach(TRUE, TRUE)
          /\ Log!Accounts["groups"] = InEach(FALSE, FALSE)
          /\ Log!Accounts["events"] = InEach(FALSE, FALSE)
          /\ Log!Accounts["metrics"] = InEach(FALSE, FALSE)
          /\ Log!Accounts["statistics"] = InEach(FALSE, FALSE)
          /\ Log!Accounts["metric_data"] = InEach(FALSE, FALSE)
          /\ Log!Accounts["alarms"] = InEach(FALSE, FALSE)
          /\ Log!Accounts["alarm_history"] = InEach(FALSE, FALSE)
      BY <1>1
    <2>. QED  BY <1>2, <2>1
  <1>4. /\ Log!Accounts["insights"].leads = TRUE /\ Log!Accounts["insights"].polls = TRUE
        /\ \A op \in Log!ByAccount \ {"insights"} : Log!Accounts[op].polls = FALSE
    BY <1>3
  <1>5. \A op : Log!Polls(op) <=> op = "insights"
    BY <1>2, <1>4 DEF Log!Polls
  <1>. QED  BY <1>2, <1>4, <1>5

LEMMA PoliciesAre ==
  ASSUME conf \in Deployments
  PROVE  /\ \A op : Log!IsPolicy(Log!Policy(op))
         /\ Log!IsPolicy(conf.loki) /\ Log!IsPolicy(conf.tempo)
         /\ conf.accounts \in Names
         /\ conf.permitted \subseteq Log!LogFamilies
  BY LogConstants DEF Log!IsDeployment, Log!Policy, Names

LEMMA ResolvedIs ==
  ASSUME NEW policy, Log!IsPolicy(policy), NEW named \in Names
  PROVE  /\ Log!Resolve(policy, named).header \in Names
         /\ named # <<>> => Log!Resolve(policy, named).header = named
         /\ Log!Resolve(policy, named).ok <=> Permitted(policy, Log!Resolve(policy, named).header)
         /\ Log!Resolve(policy, named).ok \in BOOLEAN
  <1>. DEFINE header == IF named # <<>> THEN named
                        ELSE IF policy.default # Log!Blank THEN <<policy.default>> ELSE <<>>
              fits == policy.allowed # {} =>
                        header # <<>> /\ Log!Range(header) \subseteq policy.allowed
  <1>1. header \in Names
    <2>1. <<policy.default>> \in Seq(STRING) /\ <<>> \in Seq(STRING)
      BY DEF Log!IsPolicy
    <2>. QED  BY <2>1 DEF Names
  <1>2. fits \in BOOLEAN /\ (fits <=> Permitted(policy, header))
    BY DEF Permitted
  <1>3. Log!Resolve(policy, named) = [header |-> header, ok |-> fits]
    BY DEF Log!Resolve
  <1>4. named # <<>> => header = named
    OBVIOUS
  <1>. HIDE DEF header, fits
  <1>. QED  BY <1>1, <1>2, <1>3, <1>4

(* Where a call is sent.                                                      *)
LEMMA OneRequestIs ==
  ASSUME NEW policy, Log!IsPolicy(policy), NEW named \in Names,
         Log!OneRequest(policy, named).ok
  PROVE  /\ Log!OneRequest(policy, named).places \in Seq(Names)
         /\ Len(Log!OneRequest(policy, named).places) = 1
         /\ Permitted(policy, Log!OneRequest(policy, named).places[1])
  <1>. DEFINE header == Log!Resolve(policy, named).header
              fits == Log!Resolve(policy, named).ok
              places == <<header>>
  <1>1. header \in Names /\ (fits <=> Permitted(policy, header)) /\ fits \in BOOLEAN
    BY ResolvedIs
  <1>2. Log!OneRequest(policy, named) = [ok |-> fits, places |-> places]
    BY DEF Log!OneRequest
  <1>. HIDE DEF fits, places
  <1>3. fits /\ Log!OneRequest(policy, named).places = places
    BY <1>1, <1>2
  <1>. HIDE DEF header
  <1>4. places \in Seq(Names) /\ Len(places) = 1 /\ places[1] = header
    BY <1>1 DEF places
  <1>. QED  BY <1>1, <1>3, <1>4

LEMMA EachIs ==
  ASSUME NEW policy, Log!IsPolicy(policy), NEW named \in Names, Log!Each(policy, named).ok
  PROVE  LET places == Log!Each(policy, named).places IN
         /\ places \in Seq(Names)
         /\ \A i \in 1 .. Len(places) : Permitted(policy, places[i])
  <1>1. CASE named = <<>> /\ policy.allowed # {}
    <2>. DEFINE all == Log!SetToSeq(policy.allowed)
                places == [i \in DOMAIN all |-> <<all[i]>>]
    <2>1. all \in Seq(policy.allowed) /\ policy.allowed \subseteq STRING
      BY SetListed DEF Log!IsPolicy
    <2>2. Log!Each(policy, named) = [ok |-> TRUE, places |-> places]
      BY <1>1 DEF Log!Each
    <2>. HIDE DEF all
    <2>3. DOMAIN all = 1 .. Len(all) /\ Len(all) \in Nat
          /\ \A i \in 1 .. Len(all) : all[i] \in policy.allowed
      BY <2>1
    <2>4. \A i \in 1 .. Len(all) :
            /\ <<all[i]>> \in Names /\ <<all[i]>> # <<>>
            /\ Log!Range(<<all[i]>>) \subseteq policy.allowed
      BY <2>1, <2>3 DEF Log!Range, Names
    <2>5. /\ places \in Seq(Names) /\ Len(places) = Len(all)
          /\ \A i \in 1 .. Len(places) : places[i] = <<all[i]>>
      BY <2>3, <2>4
    <2>. HIDE DEF places
    <2>6. \A i \in 1 .. Len(places) : Permitted(policy, places[i])
      BY <2>4, <2>5 DEF Permitted
    <2>. QED  BY <2>2, <2>5, <2>6
  <1>2. CASE ~(named = <<>> /\ policy.allowed # {})
    <2>. DEFINE resolved == Log!Resolve(policy, named)
                header == resolved.header
                places == IF header = <<>> THEN << <<>> >>
                          ELSE [i \in DOMAIN header |-> Log!Heading(header[i])]
    <2>1. /\ header \in Names /\ (resolved.ok <=> Permitted(policy, header))
      BY ResolvedIs
    <2>2. Log!Each(policy, named) = [ok |-> resolved.ok, places |-> places]
      BY <1>2 DEF Log!Each
    <2>. HIDE DEF header, resolved
    <2>3. Permitted(policy, header)
      BY <2>1, <2>2
    <2>4. CASE header = <<>>
      <3>1. policy.allowed = {}
        BY <2>3, <2>4 DEF Permitted
      <3>2. places = << <<>> >> /\ <<>> \in Names
        BY <2>4 DEF Names
      <3>. HIDE DEF places
      <3>3. places \in Seq(Names)
        BY <3>2
      <3>. QED  BY <2>2, <3>1, <3>3 DEF Permitted
    <2>5. CASE header # <<>>
      <3>1. places = [i \in DOMAIN header |-> Log!Heading(header[i])]
        BY <2>5
      <3>2. DOMAIN header = 1 .. Len(header) /\ Len(header) \in Nat
            /\ \A i \in 1 .. Len(header) : header[i] \in STRING
        BY <2>1 DEF Names
      <3>3. \A i \in 1 .. Len(header) : Log!Heading(header[i]) \in Names
        <4>1. <<>> \in Names /\ \A i \in 1 .. Len(header) : <<header[i]>> \in Names
          BY <3>2 DEF Names
        <4>. QED  BY <4>1 DEF Log!Heading
      <3>. HIDE DEF places
      <3>4. /\ places \in Seq(Names) /\ Len(places) = Len(header)
            /\ \A i \in 1 .. Len(places) : places[i] = Log!Heading(header[i])
        BY <3>1, <3>2, <3>3
      <3>5. ASSUME policy.allowed # {}, NEW i \in 1 .. Len(header)
            PROVE  Log!Heading(header[i]) # <<>>
                   /\ Log!Range(Log!Heading(header[i])) \subseteq policy.allowed
        <4>1. header[i] \in policy.allowed /\ header[i] # Log!Blank
          BY <2>3, <3>2, <3>5 DEF Permitted, Log!Range, Log!IsPolicy
        <4>2. Log!Heading(header[i]) = <<header[i]>>
          BY <4>1 DEF Log!Heading
        <4>3. Log!Range(<<header[i]>>) = {header[i]}
          BY DEF Log!Range
        <4>. QED  BY <4>1, <4>2, <4>3
      <3>6. \A i \in 1 .. Len(places) : Permitted(policy, places[i])
        BY <3>4, <3>5 DEF Permitted
      <3>. QED  BY <2>2, <3>4, <3>6
    <2>. QED  BY <2>4, <2>5
  <1>. QED  BY <1>1, <1>2

LEMMA AccountsAre ==
  ASSUME conf \in Deployments, NEW named \in Names, Log!AccountPlaces(named).ok
  PROVE  Log!AccountPlaces(named).places \in Seq(Names)
  <1>1. conf.accounts \in Names /\ <<>> \in Names
    BY PoliciesAre DEF Names
  <1>2. ASSUME NEW all \in Names PROVE [i \in DOMAIN all |-> <<all[i]>>] \in Seq(Names)
    <2>1. DOMAIN all = 1 .. Len(all) /\ Len(all) \in Nat
          /\ \A i \in 1 .. Len(all) : <<all[i]>> \in Seq(STRING)
      BY <1>2 DEF Names
    <2>. QED  BY <2>1 DEF Names
  <1>3. Log!AccountPlaces(named).places \in
          {<<>>, << <<>> >>, [i \in DOMAIN conf.accounts |-> <<conf.accounts[i]>>],
           [i \in DOMAIN named |-> <<named[i]>>]}
    BY DEF Log!AccountPlaces, Log!resolveCloudWatchAccounts
  <1>4. <<>> \in Seq(Names) /\ << <<>> >> \in Seq(Names)
    BY <1>1
  <1>. QED  BY <1>1, <1>2, <1>3, <1>4

LEMMA WhereIs ==
  ASSUME conf \in Deployments, NEW op \in Ops, NEW named \in Names, Log!Where(op, named).ok
  PROVE  LET places == Log!Where(op, named).places IN
         /\ places \in Seq(Names)
         /\ op \in {"loki", "trace", "traces"} =>
              Len(places) = 1 /\ Permitted(Log!Policy(op), places[1])
         /\ op = "labels" => \A i \in 1 .. Len(places) : Permitted(conf.loki, places[i])
  <1>1. Log!IsPolicy(conf.loki) /\ Log!IsPolicy(conf.tempo)
    BY PoliciesAre
  <1>2. CASE op \in Log!ByAccount
    BY <1>2, OpsAre, AccountsAre DEF Log!Where
  <1>3. CASE op = "loki"
    <2>1. Log!Where(op, named) = Log!OneRequest(conf.loki, named)
          /\ Log!Policy(op) = conf.loki
      BY <1>3, OpsAre DEF Log!Where, Log!Query, Log!Policy
    <2>. QED  BY <1>1, <1>3, <2>1, OneRequestIs
  <1>4. CASE op = "labels"
    <2>1. Log!Where(op, named) = Log!Each(conf.loki, named)
      BY <1>4, OpsAre DEF Log!Where, Log!lokiLabelLookup
    <2>. QED  BY <1>1, <1>4, <2>1, EachIs
  <1>5. CASE op \in {"trace", "traces"}
    <2>1. Log!Where(op, named) = Log!OneRequest(conf.tempo, named)
          /\ Log!Policy(op) = conf.tempo
      BY <1>5, OpsAre
         DEF Log!Where, Log!executeTempoGetTrace, Log!executeTempoSearchTraces, Log!Policy
    <2>. QED  BY <1>1, <1>5, <2>1, OneRequestIs
  <1>. QED  BY <1>2, <1>3, <1>4, <1>5 DEF Ops

-----------------------------------------------------------------------------
(* Searches: the steps.                                                      *)

UnderWay ==
  [at : {"ask", "poll", "pause"}, op : Ops, places : Seq(Names), answers : Seq(Answers),
   sent : Names, cancelled : BOOLEAN, waited : Nat, since : Nat]

LEMMA SearchIs ==
  ASSUME LogInv
  PROVE  /\ conf \in Deployments /\ search \in LogCall
         /\ search.at \in {"idle", "ask", "poll", "pause", "done"}
         /\ search.at \in {"ask", "poll", "pause"} =>
              /\ search \in UnderWay /\ AskedRightly(search)
              /\ Len(search.answers) \in Nat /\ Len(search.places) \in Nat
  <1>1. search.at \in {"ask", "poll", "pause"} => search \in UnderWay
    BY DEF LogInv, LogCall, UnderWay
  <1>. QED  BY <1>1 DEF LogInv, LogCall, UnderWay

LEMMA StaysUnderWay ==
  ASSUME LogInv, NEW c \in UnderWay, search' = c, UNCHANGED conf, AskedRightly(c)
  PROVE  LogInv'
  <1>1. AskedRightly(search)'
    BY DEF AskedRightly, PlacesPermitted, SentForPlace, TimesKept, SentTo, Permitted,
       Log!Policy, Log!Resolve, Log!Polls
  <1>2. search' \in LogCall /\ search'.at # "done"
    BY DEF LogCall, UnderWay
  <1>. QED  BY <1>1, <1>2 DEF LogInv

LEMMA SearchStep ==
  ASSUME LogInv, NEW s \in Searches, Log!Search(s.op, s.named)
  PROVE  LogInv'
  <1>. DEFINE where == Log!Where(s.op, s.named)
  <1>1. conf \in Deployments /\ s.op \in Ops /\ s.named \in Names /\ UNCHANGED conf
    BY SearchIs, LogConstants DEF Log!Search
  <1>2. CASE where.ok /\ search' = [at |-> "ask", op |-> s.op, places |-> where.places,
                                    answers |-> <<>>, sent |-> <<>>, cancelled |-> FALSE,
                                    waited |-> 0, since |-> 0]
    <2>1. /\ where.places \in Seq(Names)
          /\ s.op \in {"loki", "trace", "traces"} =>
               Len(where.places) = 1 /\ Permitted(Log!Policy(s.op), where.places[1])
          /\ s.op = "labels" =>
               \A i \in 1 .. Len(where.places) : Permitted(conf.loki, where.places[i])
      BY <1>1, <1>2, WhereIs
    <2>. DEFINE places == where.places
                c == [at |-> "ask", op |-> s.op, places |-> places, answers |-> <<>>,
                      sent |-> <<>>, cancelled |-> FALSE, waited |-> 0, since |-> 0]
    <2>2. search' = c
      BY <1>2
    <2>. HIDE DEF places
    <2>3. <<>> \in Seq(Answers) /\ <<>> \in Names
      BY DEF Names
    <2>4. /\ c \in UnderWay /\ c.at = "ask" /\ c.op = s.op /\ c.places = places
          /\ c.answers = <<>>
      BY <1>1, <2>1, <2>3 DEF UnderWay, places
    <2>. HIDE DEF c
    <2>5. AskedRightly(c)
      BY <2>1, <2>4 DEF AskedRightly, PlacesPermitted, SentForPlace, TimesKept, places
    <2>. QED  BY <1>1, <2>2, <2>4, <2>5, StaysUnderWay
  <1>3. CASE search' = Log!Failed(s.op)
    <2>1. /\ search' \in LogCall /\ search'.at = "done" /\ search'.ok = FALSE
          /\ search'.answers = <<>> /\ search'.places = <<>>
      BY <1>1, <1>3 DEF Log!Failed, LogCall
    <2>. QED  BY <1>1, <2>1 DEF LogInv, Log!EmptyAnswersLeadOn
  <1>. QED  BY <1>2, <1>3 DEF Log!Search

(* A place has its answer, and the next one is its turn.                      *)
LEMMA AnsweredIs ==
  ASSUME LogInv, NEW answer \in Answers, search.at \in {"poll", "pause"}, UNCHANGED conf,
         NEW cancelled \in BOOLEAN,
         search' = [search EXCEPT !.at = "ask", !.answers = Append(@, answer),
                                  !.cancelled = cancelled, !.waited = 0, !.since = 0]
  PROVE  LogInv'
  <1>1. search \in UnderWay /\ AskedRightly(search)
    BY SearchIs
  <1>2. /\ Append(search.answers, answer) \in Seq(Answers)
        /\ Len(Append(search.answers, answer)) = Len(search.answers) + 1
    BY <1>1, RangeAppended DEF UnderWay
  <1>. DEFINE answers == Append(search.answers, answer)
              c == [search EXCEPT !.at = "ask", !.answers = answers,
                                  !.cancelled = cancelled, !.waited = 0, !.since = 0]
  <1>3. search' = c
    OBVIOUS
  <1>. HIDE DEF answers
  <1>4. /\ c \in UnderWay /\ c.at = "ask" /\ c.op = search.op /\ c.places = search.places
        /\ c.answers = answers
    BY <1>1, <1>2 DEF UnderWay, answers
  <1>. HIDE DEF c
  <1>5. search.op = "insights" /\ search.op \in Log!ByAccount
        /\ Len(search.answers) + 1 <= Len(search.places)
    BY <1>1, OpsAre DEF AskedRightly, TimesKept, UnderWay
  <1>6. AskedRightly(c)
    BY <1>1, <1>2, <1>4, <1>5
       DEF AskedRightly, PlacesPermitted, SentForPlace, TimesKept, answers
  <1>. QED  BY <1>3, <1>4, <1>6, StaysUnderWay

(* A request that is sent is permitted, and is sent for its place.            *)
LEMMA AskStep ==
  ASSUME LogInv, NEW answer \in Answers, Log!Ask(answer)
  PROVE  LogInv'
  <1>. DEFINE answers == Append(search.answers, answer)
              place == Log!Place
              sent == IF Log!Sends THEN Log!Header ELSE search.sent
              c == [search EXCEPT !.answers = answers, !.sent = sent]
  <1>1. /\ search.at = "ask" /\ Len(search.answers) < Len(search.places) /\ UNCHANGED conf
        /\ search' = c
    BY DEF Log!Ask, Log!More
  <1>2. /\ search \in UnderWay /\ AskedRightly(search) /\ conf \in Deployments
        /\ Len(search.answers) \in Nat /\ Len(search.places) \in Nat
    BY <1>1, SearchIs
  <1>3. /\ answers \in Seq(Answers) /\ Len(answers) = Len(search.answers) + 1
    BY <1>2, RangeAppended DEF UnderWay
  <1>4. /\ place = search.places[Len(search.answers) + 1] /\ place \in Names
        /\ Len(search.answers) + 1 \in 1 .. Len(search.places)
    BY <1>1, <1>2 DEF Log!Place, UnderWay
  <1>. HIDE DEF place
  <1>5. search.op = "labels" => Log!Resolve(conf.loki, place).ok
    <2>1. SUFFICES ASSUME search.op = "labels" PROVE Log!Resolve(conf.loki, place).ok
      OBVIOUS
    <2>2. Permitted(conf.loki, place)
      BY <1>2, <1>4, <2>1 DEF AskedRightly, PlacesPermitted
    <2>3. Log!IsPolicy(conf.loki)
      BY <1>2, PoliciesAre
    <2>4. CASE place # <<>>
      BY <1>4, <2>2, <2>3, <2>4, ResolvedIs
    <2>5. CASE place = <<>>
      <3>1. conf.loki.allowed = {}
        BY <2>2, <2>5 DEF Permitted
      <3>. QED  BY <1>4, <2>3, <3>1, ResolvedIs DEF Permitted
    <2>. QED  BY <2>4, <2>5
  <1>6. sent = SentTo(search.op, place) /\ sent \in Names
    <2>1. Log!Sends
      BY <1>5 DEF Log!Sends, place
    <2>2. sent = SentTo(search.op, place)
      BY <2>1 DEF Log!Header, SentTo, place
    <2>3. SentTo(search.op, place) \in Names
      BY <1>2, <1>4, PoliciesAre, ResolvedIs DEF SentTo
    <2>. QED  BY <2>2, <2>3
  <1>. HIDE DEF answers, sent
  <1>7. /\ c \in UnderWay /\ c.at = "ask" /\ c.op = search.op /\ c.places = search.places
        /\ c.answers = answers /\ c.sent = sent
    BY <1>1, <1>2, <1>3, <1>6 DEF UnderWay
  <1>. HIDE DEF c
  <1>8. AskedRightly(c)
    BY <1>1, <1>2, <1>3, <1>4, <1>6, <1>7
       DEF AskedRightly, PlacesPermitted, SentForPlace, TimesKept
  <1>. QED  BY <1>1, <1>7, <1>8, StaysUnderWay

(* A query that goes on: only where it is and its times change.               *)
InTime(at, waited, elapsed) ==
  /\ at = "poll" => elapsed <= CallTime /\ waited <= MaxWait + elapsed
  /\ at = "pause" => elapsed <= Interval /\ waited <= MaxWait + CallTime + elapsed

LEMMA GoesOn ==
  ASSUME LogInv, search.at \in {"ask", "poll", "pause"}, search.op = "insights",
         Len(search.answers) < Len(search.places), UNCHANGED conf,
         NEW at \in {"poll", "pause"}, NEW sent \in Names, NEW waited \in Nat, NEW elapsed \in Nat,
         search' = [search EXCEPT !.at = at, !.sent = sent, !.waited = waited, !.since = elapsed],
         InTime(at, waited, elapsed)
  PROVE  LogInv'
  <1>. DEFINE c == [search EXCEPT !.at = at, !.sent = sent, !.waited = waited, !.since = elapsed]
  <1>1. search \in UnderWay /\ AskedRightly(search)
    BY SearchIs
  <1>2. /\ c \in UnderWay /\ c.at = at /\ c.op = search.op /\ c.places = search.places
        /\ c.answers = search.answers /\ c.waited = waited /\ c.since = elapsed
    BY <1>1 DEF UnderWay
  <1>3. search' = c
    OBVIOUS
  <1>. HIDE DEF c
  <1>4. AskedRightly(c)
    BY <1>1, <1>2, OpsAre DEF AskedRightly, PlacesPermitted, SentForPlace, TimesKept, InTime
  <1>. QED  BY <1>2, <1>3, <1>4, StaysUnderWay

LEMMA Polled ==
  ASSUME LogInv, search.at \in {"poll", "pause"}
  PROVE  /\ search \in UnderWay /\ search.op = "insights"
         /\ Len(search.answers) < Len(search.places)
         /\ search.waited \in Nat /\ search.since \in Nat /\ search.sent \in Names
         /\ search.cancelled \in BOOLEAN
         /\ InTime(search.at, search.waited, search.since)
  BY SearchIs, OpsAre DEF AskedRightly, TimesKept, UnderWay, InTime

(* A request is sent once more while there is time, and there is one pause    *)
(* after it.                                                                  *)
LEMMA Times ==
  ASSUME NEW waited \in Nat, NEW elapsed \in Nat
  PROVE  /\ waited <= MaxWait => InTime("poll", waited, 0)
         /\ InTime("poll", waited, elapsed) => InTime("pause", waited, 0)
         /\ InTime("poll", waited, elapsed) /\ elapsed < CallTime =>
              InTime("poll", waited + 1, elapsed + 1)
         /\ InTime("pause", waited, elapsed) /\ elapsed < Interval =>
              InTime("pause", waited + 1, elapsed + 1)
  BY LogConstants DEF InTime

LEMMA StartQueryStep ==
  ASSUME LogInv, Log!StartQuery
  PROVE  LogInv'
  <1>1. /\ search.at = "ask" /\ Len(search.answers) < Len(search.places) /\ UNCHANGED conf
        /\ search.op = "insights"
        /\ search' = [search EXCEPT !.at = "poll", !.sent = Log!Header, !.waited = 0, !.since = 0]
    BY OpsAre DEF Log!StartQuery, Log!More
  <1>2. Log!Header \in Names
    <2>1. search \in UnderWay
      BY <1>1, SearchIs
    <2>2. Len(search.answers) + 1 \in 1 .. Len(search.places)
      BY <1>1, <2>1 DEF UnderWay
    <2>. QED  BY <1>1, <2>1, <2>2 DEF Log!Header, Log!Place, UnderWay
  <1>3. InTime("poll", 0, 0) /\ 0 \in Nat /\ "poll" \in {"poll", "pause"}
    BY LogConstants, Times
  <1>. QED  BY <1>1, <1>2, <1>3, GoesOn

LEMMA AnsweredStep ==
  ASSUME LogInv, NEW answer \in Answers, search.at \in {"poll", "pause"}, UNCHANGED conf,
         Log!Answered(answer)
  PROVE  LogInv'
  <1>1. search \in UnderWay /\ search.cancelled \in BOOLEAN
    BY Polled
  <1>2. search' = [search EXCEPT !.at = "ask", !.answers = Append(@, answer),
                                 !.cancelled = search.cancelled, !.waited = 0, !.since = 0]
    BY <1>1 DEF Log!Answered, UnderWay
  <1>. QED  BY <1>1, <1>2, AnsweredIs

LEMMA PollAgainStep ==
  ASSUME LogInv, search.at \in {"poll", "pause"}, UNCHANGED conf, Log!PollAgain
  PROVE  LogInv'
  <1>1. CASE search.waited < MaxWait /\ search' = [search EXCEPT !.at = "poll", !.since = 0]
    <2>1. search' = [search EXCEPT !.at = "poll", !.sent = search.sent,
                                   !.waited = search.waited, !.since = 0]
      BY <1>1, Polled DEF UnderWay
    <2>2. /\ search.op = "insights" /\ Len(search.answers) < Len(search.places)
          /\ search.waited \in Nat /\ search.sent \in Names
      BY Polled
    <2>3. InTime("poll", search.waited, 0) /\ 0 \in Nat /\ "poll" \in {"poll", "pause"}
      BY <1>1, <2>2, LogConstants, Times
    <2>. QED  BY <2>1, <2>2, <2>3, GoesOn
  <1>2. CASE Log!Answered("error")
    BY <1>2, AnsweredStep DEF Answers
  <1>. QED  BY <1>1, <1>2 DEF Log!PollAgain

LEMMA PollStep ==
  ASSUME LogInv, NEW status \in {"rows", "empty", "failed", "error", "running", "other"},
         Log!Poll(status)
  PROVE  LogInv'
  <1>1. search.at = "poll" /\ UNCHANGED conf
    BY DEF Log!Poll
  <1>2. CASE Log!Answered(status) /\ status \in {"rows", "empty"}
    BY <1>1, <1>2, AnsweredStep DEF Answers
  <1>3. CASE Log!Answered("error")
    BY <1>1, <1>3, AnsweredStep DEF Answers
  <1>4. CASE search' = [search EXCEPT !.at = "pause", !.since = 0]
    <2>1. search' = [search EXCEPT !.at = "pause", !.sent = search.sent,
                                   !.waited = search.waited, !.since = 0]
      BY <1>1, <1>4, Polled DEF UnderWay
    <2>2. /\ search.op = "insights" /\ Len(search.answers) < Len(search.places)
          /\ search.waited \in Nat /\ search.since \in Nat /\ search.sent \in Names
          /\ InTime("poll", search.waited, search.since)
      BY <1>1, Polled
    <2>3. InTime("pause", search.waited, 0) /\ 0 \in Nat /\ "pause" \in {"poll", "pause"}
      BY <2>2, Times
    <2>. QED  BY <1>1, <2>1, <2>2, <2>3, GoesOn
  <1>5. CASE Log!PollAgain
    BY <1>1, <1>5, PollAgainStep
  <1>. QED  BY <1>2, <1>3, <1>4, <1>5 DEF Log!Poll

LEMMA EndPauseStep ==
  ASSUME LogInv, Log!EndPause
  PROVE  LogInv'
  BY PollAgainStep DEF Log!EndPause

LEMMA CancelStep ==
  ASSUME LogInv, Log!Cancel
  PROVE  LogInv'
  <1>1. search.at \in {"ask", "poll", "pause"} /\ UNCHANGED conf
    BY DEF Log!Cancel, Log!Waiting
  <1>2. CASE search.at = "ask" /\ search' = [search EXCEPT !.cancelled = TRUE]
    <2>. DEFINE c == [search EXCEPT !.cancelled = TRUE]
    <2>1. search \in UnderWay /\ AskedRightly(search)
      BY <1>2, SearchIs
    <2>2. /\ c \in UnderWay /\ c.at = "ask" /\ c.op = search.op /\ c.places = search.places
          /\ c.answers = search.answers /\ c.sent = search.sent
      BY <1>2, <2>1 DEF UnderWay
    <2>3. search' = c
      BY <1>2
    <2>. HIDE DEF c
    <2>4. AskedRightly(c)
      BY <1>2, <2>1, <2>2 DEF AskedRightly, PlacesPermitted, SentForPlace, TimesKept
    <2>. QED  BY <1>1, <2>2, <2>3, <2>4, StaysUnderWay
  <1>3. CASE /\ search.at \in {"poll", "pause"}
             /\ search' = [search EXCEPT !.cancelled = TRUE, !.at = "ask",
                             !.answers = Append(@, "error"), !.waited = 0, !.since = 0]
    <2>1. search' = [search EXCEPT !.at = "ask", !.answers = Append(@, "error"),
                                   !.cancelled = TRUE, !.waited = 0, !.since = 0]
      BY <1>3, Polled DEF UnderWay
    <2>. QED  BY <1>1, <1>3, <2>1, AnsweredIs DEF Answers
  <1>. QED  BY <1>1, <1>2, <1>3 DEF Log!Cancel

LEMMA LogTickStep ==
  ASSUME LogInv, Log!Tick
  PROVE  LogInv'
  <1>1. /\ \/ search.at = "poll" /\ search.since < CallTime
           \/ search.at = "pause" /\ search.since < Interval
        /\ search' = [search EXCEPT !.waited = @ + 1, !.since = @ + 1] /\ UNCHANGED conf
    BY DEF Log!Tick
  <1>2. search' = [search EXCEPT !.at = search.at, !.sent = search.sent,
                                 !.waited = search.waited + 1, !.since = search.since + 1]
    BY <1>1, Polled DEF UnderWay
  <1>3. /\ search.op = "insights" /\ Len(search.answers) < Len(search.places)
        /\ search.waited \in Nat /\ search.since \in Nat /\ search.sent \in Names
        /\ InTime(search.at, search.waited, search.since)
    BY <1>1, Polled
  <1>4. InTime(search.at, search.waited + 1, search.since + 1)
    <2>1. CASE search.at = "poll" /\ search.since < CallTime
      BY <1>3, <2>1, Times
    <2>2. CASE search.at = "pause" /\ search.since < Interval
      BY <1>3, <2>2, Times
    <2>. QED  BY <1>1, <2>1, <2>2
  <1>5. /\ search.at \in {"poll", "pause"} /\ search.waited + 1 \in Nat
        /\ search.since + 1 \in Nat
    BY <1>1, <1>3
  <1>. QED  BY <1>1, <1>2, <1>3, <1>4, <1>5, GoesOn

(* What is not found is named: the places of a call and what it leads to are  *)
(* all there is to search.                                                    *)
LEMMA ReplyStep ==
  ASSUME LogInv, Log!Reply
  PROVE  LogInv'
  <1>. DEFINE fits == Log!ok
              c == [at |-> "done", op |-> search.op, ok |-> fits, places |-> search.places,
                    answers |-> search.answers, leads |-> Log!Leads,
                    others |-> Log!emptyLogSearchHint]
  <1>1. /\ search.at = "ask" /\ Len(search.answers) = Len(search.places) /\ UNCHANGED conf
        /\ search' = c
    BY DEF Log!Reply
  <1>2. /\ search \in UnderWay /\ AskedRightly(search) /\ conf \in Deployments
    BY <1>1, SearchIs
  <1>3. /\ Log!IsPolicy(conf.loki) /\ Log!IsPolicy(conf.tempo) /\ conf.accounts \in Names
        /\ conf.permitted \subseteq Log!LogFamilies
    BY <1>2, PoliciesAre
  <1>4. fits \in BOOLEAN
    BY DEF Log!ok, Log!AllFailed
  <1>5. Log!Leads \in SUBSET STRING
    <2>1. Log!Range(conf.accounts) \subseteq STRING
      BY <1>3 DEF Log!Range, Names
    <2>2. Log!Leads \in {Log!cloudWatchQueryLeads, {}, Log!lokiQueryLeads, Log!tempoLeads}
      BY DEF Log!Leads
    <2>. QED  BY <1>3, <2>1, <2>2
           DEF Log!IsPolicy, Log!cloudWatchQueryLeads, Log!lokiQueryLeads, Log!tempoLeads,
               Log!unqueriedCloudWatchAccounts, Log!Unsearched
  <1>6. Log!emptyLogSearchHint \in SUBSET Log!LogFamilies
    BY <1>3 DEF Log!emptyLogSearchHint, Log!otherLogSources
  <1>7. ASSUME fits, ~Log!Found
        PROVE  /\ search.op = "insights" =>
                    /\ Log!Leads = Log!cloudWatchQueryLeads
                    /\ Log!emptyLogSearchHint = conf.permitted \ {"cloudwatch"}
               /\ search.op = "loki" => Log!Leads = Log!lokiQueryLeads
               /\ search.op \in {"loki", "labels"} =>
                    Log!emptyLogSearchHint = conf.permitted \ {"loki"}
               /\ search.op = "traces" => Log!Leads = Log!tempoLeads
    BY <1>7, OpsAre DEF Log!Leads, Log!emptyLogSearchHint, Log!otherLogSources
  <1>8. search.op \in {"loki", "traces"} => search.places[1] \in Log!Range(search.places)
    BY <1>2 DEF AskedRightly, PlacesPermitted, Log!Range, UnderWay
  <1>9. ASSUME fits, "rows" \notin Log!Range(search.answers)
        PROVE  /\ search.op = "insights" =>
                    /\ Log!Range(conf.accounts) \subseteq
                         Log!Leads \cup UNION {Log!Range(p) : p \in Log!Range(search.places)}
                    /\ conf.permitted \subseteq Log!emptyLogSearchHint \cup {"cloudwatch"}
               /\ search.op = "loki" =>
                    conf.loki.allowed \subseteq
                      Log!Leads \cup UNION {Log!Range(p) : p \in Log!Range(search.places)}
               /\ search.op \in {"loki", "labels"} =>
                    conf.permitted \subseteq Log!emptyLogSearchHint \cup {"loki"}
               /\ search.op = "traces" =>
                    conf.tempo.allowed \subseteq
                      Log!Leads \cup UNION {Log!Range(p) : p \in Log!Range(search.places)}
    <2>1. ~Log!Found
      BY <1>9 DEF Log!Found
    <2>. QED  BY <1>7, <1>8, <1>9, <2>1
           DEF Log!cloudWatchQueryLeads, Log!unqueriedCloudWatchAccounts,
               Log!lokiQueryLeads, Log!tempoLeads, Log!Unsearched
  <1>. HIDE DEF fits
  <1>10. /\ c \in LogCall /\ c.at = "done" /\ c.ok = fits /\ c.op = search.op
         /\ c.places = search.places /\ c.answers = search.answers
         /\ c.leads = Log!Leads /\ c.others = Log!emptyLogSearchHint
    BY <1>2, <1>4, <1>5, <1>6 DEF LogCall, UnderWay
  <1>. HIDE DEF c
  <1>11. Log!EmptyAnswersLeadOn'
    BY <1>1, <1>9, <1>10 DEF Log!EmptyAnswersLeadOn, Log!SearchedOrNamed
  <1>12. Len(c.answers) <= Len(c.places)
    BY <1>1, <1>2, <1>10 DEF UnderWay
  <1>. QED  BY <1>1, <1>2, <1>10, <1>11, <1>12 DEF LogInv
LEMMA LogStart ==
  ASSUME Log!Init
  PROVE  LogInv
  <1>1. conf \in Deployments /\ search = [at |-> "idle"]
    BY DEF Log!Init
  <1>. QED  BY <1>1 DEF LogInv, LogCall

LEMMA LogStep ==
  ASSUME LogInv, [Log!Next]_(Log!vars)
  PROVE  LogInv'
  <1>1. CASE UNCHANGED Log!vars
    <2>1. UNCHANGED <<conf, search>>
      BY <1>1 DEF Log!vars
    <2>. QED  BY <2>1
           DEF LogInv, LogCall, AskedRightly, PlacesPermitted, SentForPlace, SentTo,
               TimesKept, Permitted, Log!Policy, Log!Resolve, Log!Polls,
               Log!EmptyAnswersLeadOn, Log!SearchedOrNamed
  <1>2. CASE \E s \in Searches : Log!Search(s.op, s.named)
    BY <1>2, SearchStep
  <1>3. CASE \E answer \in {"rows", "empty", "error"} : Log!Ask(answer)
    BY <1>3, AskStep DEF Answers
  <1>4. CASE \E status \in {"rows", "empty", "failed", "error", "running", "other"} :
               Log!Poll(status)
    BY <1>4, PollStep
  <1>5. CASE Log!StartQuery
    BY <1>5, StartQueryStep
  <1>6. CASE Log!EndPause
    BY <1>6, EndPauseStep
  <1>7. CASE Log!Cancel
    BY <1>7, CancelStep
  <1>8. CASE Log!Tick
    BY <1>8, LogTickStep
  <1>9. CASE Log!Reply
    BY <1>9, ReplyStep
  <1>. QED  BY <1>1, <1>2, <1>3, <1>4, <1>5, <1>6, <1>7, <1>8, <1>9 DEF Log!Next

-----------------------------------------------------------------------------
(* Searches: the theorems.                                                   *)

(* A step of the server is a step of this part or leaves it alone.            *)
LEMMA LogMoves == [Next]_vars => [Log!Next]_(Log!vars)
  BY DEF Next, vars, logVars, Log!vars

(* The invariant holds of every behaviour of the server.                      *)
THEOREM LogInvHolds == Spec => []LogInv
  <1>1. Init => LogInv
    BY LogStart DEF Init
  <1>2. LogInv /\ [Next]_vars => LogInv'
    BY LogStep, LogMoves
  <1>. QED  BY <1>1, <1>2, PTL DEF Spec

(* Whatever tenants a call names, whatever the default and whatever way the   *)
(* call takes to them, with an allowlist nothing is sent without a tenant or  *)
(* for one that is not on the list, and an answer is that of the place it is  *)
(* reported for (tenant.go:136, loki.go:308-333).                             *)
THEOREM TenantsAreAllowed == Spec => []OnlyAllowedTenants
  <1>1. ASSUME LogInv PROVE OnlyAllowedTenants
    <2>. DEFINE place == search.places[Len(search.answers)]
                policy == Log!Policy(search.op)
    <2>1. SUFFICES ASSUME search.at \in {"ask", "poll", "pause"},
                          search.op \notin Log!ByAccount, search.answers # <<>>
                   PROVE  /\ policy.allowed # {} =>
                               /\ search.sent # <<>>
                               /\ Log!Range(search.sent) \subseteq policy.allowed
                          /\ place # <<>> => search.sent = place
      BY DEF OnlyAllowedTenants, Log!OnlyAllowedTenants, Log!Waiting
    <2>2. /\ search \in UnderWay /\ AskedRightly(search) /\ conf \in Deployments
          /\ Len(search.answers) \in Nat /\ Len(search.places) \in Nat
      BY <1>1, <2>1, SearchIs
    <2>3. Len(search.answers) \in 1 .. Len(search.places)
      BY <2>1, <2>2, EmptySeq DEF AskedRightly, UnderWay
    <2>4. place \in Names /\ search.sent = SentTo(search.op, place)
      BY <2>1, <2>2, <2>3 DEF UnderWay, AskedRightly, SentForPlace
    <2>5. Permitted(policy, place)
      <3>1. search.op \in {"loki", "labels", "trace", "traces"}
        BY <2>1, <2>2 DEF UnderWay, Ops
      <3>2. CASE search.op = "labels"
        BY <2>2, <2>3, <3>2 DEF AskedRightly, PlacesPermitted, Log!Policy
      <3>3. CASE search.op \in {"loki", "trace", "traces"}
        <4>1. Len(search.places) = 1 /\ Permitted(policy, search.places[1])
          BY <2>2, <3>3 DEF AskedRightly, PlacesPermitted
        <4>2. Len(search.answers) = 1
          BY <2>3, <4>1
        <4>. QED  BY <4>1, <4>2
      <3>. QED  BY <3>1, <3>2, <3>3
    <2>. HIDE DEF place, policy
    <2>6. place # <<>> => search.sent = place
      BY <2>2, <2>4, PoliciesAre, ResolvedIs DEF SentTo
    <2>. QED  BY <2>5, <2>6 DEF Permitted
  <1>. QED  BY <1>1, LogInvHolds, PTL

(* However many places a call asks, in whatever order they answer, fail or    *)
(* run out of time, an answer that found nothing comes when every place has   *)
(* one of its own, and names the accounts, the tenants and the log backends   *)
(* that were not asked (cloudwatch.go:536, loki.go:238, logsources.go:108).   *)
THEOREM AbsenceIsNotClaimed == Spec => []EmptyAnswersLeadOn
  <1>1. LogInv => EmptyAnswersLeadOn
    BY DEF LogInv, EmptyAnswersLeadOn, Log!EmptyAnswersLeadOn
  <1>. QED  BY <1>1, LogInvHolds, PTL

(* The types of a search's state: a query is waited for no longer than its    *)
(* deadline, one request and one pause.                                       *)
THEOREM LogTypesHold == Spec => []Log!TypeOK
  <1>1. ASSUME LogInv PROVE Log!TypeOK
    <2>1. search.at # "idle" => /\ search.answers \in Seq(Answers)
                                /\ Len(search.answers) <= Len(search.places)
      BY <1>1 DEF LogInv, LogCall, AskedRightly
    <2>2. search.at # "idle" => Log!Range(search.answers) \subseteq {"rows", "empty", "error"}
      BY <2>1 DEF Log!Range, Answers
    <2>3. search.at \in {"poll", "pause"} =>
            /\ search.waited \in 0 .. (MaxWait + CallTime + Interval)
            /\ search.since \in 0 .. (CallTime + Interval)
      BY <1>1, Polled, LogConstants DEF InTime
    <2>. QED  BY <1>1, <2>1, <2>2, <2>3, SearchIs DEF LogInv, Log!TypeOK
  <1>. QED  BY <1>1, LogInvHolds, PTL

-----------------------------------------------------------------------------
(* Investigations: the inductive invariant.                                  *)

There == DOMAIN library
Visibly(document, p, n) == document = NoPolicy \/ Skills!Evaluate(document, p, n)

SkillTools == {"match", "get", "list"}
SkillCall(there) ==
  [at : {"lookup", "names", "again", "done"}, tool : SkillTools \cup {"mention", "help"},
   by : Principals, asked : Questions \cup Investigations \cup {""},
   name : there \cup Investigations \cup {""}, ok : BOOLEAN,
   names : SUBSET there, left : SUBSET there]

(* What is in reach is still to be asked about or was found; what a call to   *)
(* find one skill did not find was not in reach all along.                    *)
Found(c, seen, matches) ==
  /\ c.at = "lookup" =>
       /\ c.tool \in {"match", "get"} /\ c.names = {}
       /\ c.tool = "get" => c.name = c.asked
       /\ c.tool = "match" => c.name \in matches
  /\ c.at = "names" =>
       /\ c.tool \in SkillTools /\ seen \subseteq c.left \cup c.names
       /\ c.tool = "get" => c.asked \notin seen
       /\ c.tool = "match" => matches = {} \/ ~(matches \subseteq seen)
  /\ c.at = "again" => c.tool = "list" /\ seen \subseteq c.left \cup c.names
  /\ c.at = "done" =>
       /\ c.tool = "list" => seen \subseteq c.names
       /\ c.tool = "get" => (c.asked \in seen => c.ok)
       /\ c.tool = "match" => (matches # {} /\ matches \subseteq seen => c.ok)
       /\ c.tool \in {"match", "get"} /\ ~c.ok => seen \subseteq c.names

(* What was barred or granted ever since the call is so under the document    *)
(* there is now.                                                              *)
Followed(c, document, seen, unseen, there, matches) ==
  /\ c \in SkillCall(there)
  /\ \A n \in unseen : ~Visibly(document, c.by, n)
  /\ \A n \in seen : Visibly(document, c.by, n)
  /\ c.tool \in SkillTools => c.names \cap unseen = {}
  /\ Found(c, seen, matches)

SkillsInv ==
  /\ granted \cup barred \subseteq There
  /\ \/ asked = [at |-> "idle", left |-> {}]
     \/ Followed(asked, doc, granted, barred, There, Skills!Match(asked.asked))

-----------------------------------------------------------------------------
(* Investigations: the steps.                                                *)

LEMMA MatchesAreThere == \A q : Skills!Match(q) \subseteq There
  BY DEF Skills!Match, Skills!FindMatchingSkill, There

LEMMA MatchesStay ==
  ASSUME UNCHANGED library, NEW q, asked'.asked = q
  PROVE  Skills!Match(asked.asked)' = Skills!Match(q)
  BY DEF Skills!Match, Skills!FindMatchingSkill, Skills!MatchWithSpecificity, Skills!Hits,
         Skills!General

LEMMA ReachStays ==
  ASSUME NEW d, doc' = d, NEW p, asked'.by = p, NEW n
  PROVE  (Visibly(doc, asked.by, n))' <=> Visibly(d, p, n)
  BY DEF Visibly, Skills!Evaluate, Skills!Assess, Skills!GrantingRoles, Skills!MatchedRoles,
         Skills!PrincipalMatchesUser, Skills!SourceAllowed, Skills!Nobody

LEMMA Following ==
  ASSUME NEW c, NEW d, NEW seen, NEW unseen, UNCHANGED library, asked' = c, doc' = d,
         granted' = seen, barred' = unseen, seen \cup unseen \subseteq There,
         Followed(c, d, seen, unseen, There, Skills!Match(c.asked))
  PROVE  SkillsInv'
  <1>. DEFINE matches == Skills!Match(c.asked)
  <1>1. Skills!Match(asked.asked)' = matches /\ There' = There
    BY MatchesStay DEF There
  <1>2. \A n : (Visibly(doc, asked.by, n))' <=> Visibly(d, c.by, n)
    BY ReachStays
  <1>. HIDE DEF matches
  <1>. QED  BY <1>1, <1>2 DEF SkillsInv, Followed, Found, SkillCall, matches

(* A call begins: what it may know of is what the document says now.          *)
LEMMA BeginStep ==
  ASSUME SkillsInv, NEW c \in SkillCall(There), Skills!Begin(c),
         c.tool \in SkillTools => c.names = {},
         c.at = "lookup" =>
           /\ c.tool \in {"match", "get"} /\ c.names = {}
           /\ c.tool = "get" => c.name = c.asked
           /\ c.tool = "match" => c.name \in Skills!Match(c.asked),
         c.at = "names" =>
           /\ c.tool \in {"match", "list"} /\ c.left = There
           /\ c.tool = "match" => Skills!Match(c.asked) = {},
         c.at = "done" => c.tool \notin SkillTools,
         c.at # "again"
  PROVE  SkillsInv'
  <1>. DEFINE seen == {n \in There : Visibly(doc, c.by, n)}
              unseen == There \ seen
  <1>1. /\ asked' = c /\ granted' = seen /\ barred' = unseen /\ UNCHANGED library
        /\ doc' = doc
    BY DEF Skills!Begin, Skills!Visible, Visibly, There
  <1>2. Found(c, seen, Skills!Match(c.asked))
    BY DEF Found, SkillTools
  <1>3. Followed(c, doc, seen, unseen, There, Skills!Match(c.asked))
    BY <1>2 DEF Followed
  <1>4. seen \cup unseen \subseteq There
    OBVIOUS
  <1>. HIDE DEF seen, unseen
  <1>. QED  BY <1>1, <1>3, <1>4, Following

LEMMA CallSteps ==
  ASSUME SkillsInv, NEW p \in Principals
  PROVE  /\ \A q \in Questions : Skills!MatchInvestigation(p, q) => SkillsInv'
         /\ \A q \in Questions : Skills!StartInvestigation(p, q) => SkillsInv'
         /\ \A n \in Investigations : Skills!GetInvestigation(p, n) => SkillsInv'
         /\ Skills!ListInvestigations(p) => SkillsInv'
         /\ Skills!SendHelpMessage(p) => SkillsInv'
  <1>1. ASSUME NEW tool \in {"match", "get"}, NEW q \in Questions \cup Investigations,
               NEW n \in There \cup Investigations, Skills!Begin(Skills!Find(p, tool, q, n)),
               tool = "get" => n = q, tool = "match" => n \in Skills!Match(q)
        PROVE  SkillsInv'
    <2>. DEFINE c == Skills!Find(p, tool, q, n)
    <2>1. /\ c \in SkillCall(There) /\ c.at = "lookup" /\ c.tool = tool /\ c.asked = q
          /\ c.name = n /\ c.names = {}
      BY <1>1 DEF Skills!Find, SkillCall, SkillTools
    <2>. HIDE DEF c
    <2>2. Skills!Begin(c)
      BY <1>1 DEF c
    <2>. QED  BY <1>1, <2>1, <2>2, BeginStep
  <1>2. ASSUME NEW tool \in {"match", "list"}, NEW q \in Questions \cup {""},
               Skills!Begin(Skills!GoThrough(p, tool, q)), tool = "match" => Skills!Match(q) = {}
        PROVE  SkillsInv'
    <2>. DEFINE c == Skills!GoThrough(p, tool, q)
    <2>1. /\ c \in SkillCall(There) /\ c.at = "names" /\ c.tool = tool /\ c.asked = q
          /\ c.left = There /\ c.names = {}
      BY <1>2 DEF Skills!GoThrough, SkillCall, SkillTools, There
    <2>. HIDE DEF c
    <2>2. Skills!Begin(c)
      BY <1>2 DEF c
    <2>. QED  BY <1>2, <2>1, <2>2, BeginStep
  <1>3. ASSUME NEW tool \in {"mention", "help"}, NEW q \in Questions \cup {""},
               NEW names \in SUBSET There, Skills!Begin(Skills!Say(p, tool, q, names))
        PROVE  SkillsInv'
    <2>. DEFINE said == names # {}
                c == Skills!Say(p, tool, q, names)
    <2>1. said \in BOOLEAN
      OBVIOUS
    <2>2. c = [at |-> "done", tool |-> tool, by |-> p, asked |-> q, name |-> "",
               ok |-> said, names |-> names, left |-> {}]
      BY DEF Skills!Say
    <2>. HIDE DEF c, said
    <2>3. c \in SkillCall(There) /\ c.at = "done" /\ c.tool \notin SkillTools
      BY <1>3, <2>1, <2>2 DEF SkillCall, SkillTools
    <2>4. Skills!Begin(c)
      BY <1>3 DEF c
    <2>. QED  BY <2>3, <2>4, BeginStep
  <1>4. ASSUME NEW q \in Questions, Skills!MatchInvestigation(p, q) PROVE SkillsInv'
    <2>1. CASE Skills!Match(q) = {} /\ Skills!Begin(Skills!GoThrough(p, "match", q))
      BY <1>2, <2>1
    <2>2. CASE \E n \in Skills!Match(q) : Skills!Begin(Skills!Find(p, "match", q, n))
      <3>1. PICK n \in Skills!Match(q) : Skills!Begin(Skills!Find(p, "match", q, n))
        BY <2>2
      <3>2. n \in There
        BY MatchesAreThere
      <3>. QED  BY <1>1, <3>1, <3>2
    <2>. QED  BY <1>4, <2>1, <2>2 DEF Skills!MatchInvestigation
  <1>5. ASSUME NEW q \in Questions, Skills!StartInvestigation(p, q) PROVE SkillsInv'
    <2>1. CASE Skills!Begin(Skills!Say(p, "mention", q, {}))
      <3>1. {} \in SUBSET There /\ q \in Questions \cup {""}
        OBVIOUS
      <3>. QED  BY <1>3, <2>1, <3>1
    <2>2. CASE \E n \in Skills!Match(q) : Skills!Begin(Skills!Say(p, "mention", q, {n}))
      <3>1. PICK n \in Skills!Match(q) : Skills!Begin(Skills!Say(p, "mention", q, {n}))
        BY <2>2
      <3>2. {n} \in SUBSET There
        BY MatchesAreThere
      <3>. QED  BY <1>3, <3>1, <3>2
    <2>. QED  BY <1>5, <2>1, <2>2 DEF Skills!StartInvestigation
  <1>6. ASSUME NEW n \in Investigations, Skills!GetInvestigation(p, n) PROVE SkillsInv'
    BY <1>1, <1>6 DEF Skills!GetInvestigation
  <1>7. ASSUME Skills!ListInvestigations(p) PROVE SkillsInv'
    BY <1>2, <1>7 DEF Skills!ListInvestigations
  <1>8. ASSUME Skills!SendHelpMessage(p) PROVE SkillsInv'
    <2>1. Skills!Begin(Skills!Say(p, "help", "", There))
      BY <1>8 DEF Skills!SendHelpMessage, There
    <2>. QED  BY <1>3, <2>1
  <1>. QED  BY <1>4, <1>5, <1>6, <1>7, <1>8

(* The policy is edited: what was barred or granted ever since is so still    *)
(* under the new document, or no longer counts.                               *)
LEMMA EditPolicyStep ==
  ASSUME SkillsInv, NEW document \in Documents, Skills!EditPolicy(document)
  PROVE  SkillsInv'
  <1>1. doc' = document /\ UNCHANGED <<library, asked>>
    BY DEF Skills!EditPolicy
  <1>2. CASE asked = [at |-> "idle", left |-> {}]
    <2>1. UNCHANGED <<barred, granted>>
      BY <1>2 DEF Skills!EditPolicy
    <2>. QED  BY <1>1, <1>2, <2>1 DEF SkillsInv, There
  <1>3. CASE Followed(asked, doc, granted, barred, There, Skills!Match(asked.asked))
    <2>. DEFINE seen == {n \in granted : Visibly(document, asked.by, n)}
                unseen == {n \in barred : ~Visibly(document, asked.by, n)}
                matches == Skills!Match(asked.asked)
    <2>1. asked.at # "idle"
      BY <1>3 DEF Followed, SkillCall
    <2>2. granted' = seen /\ barred' = unseen
      BY <2>1 DEF Skills!EditPolicy, Skills!Visible, Visibly
    <2>3. seen \subseteq granted /\ unseen \subseteq barred
      OBVIOUS
    <2>4. /\ \A n \in unseen : ~Visibly(document, asked.by, n)
          /\ \A n \in seen : Visibly(document, asked.by, n)
      OBVIOUS
    <2>. HIDE DEF seen, unseen, matches
    <2>5. /\ asked \in SkillCall(There) /\ Found(asked, granted, matches)
          /\ asked.tool \in SkillTools => asked.names \cap barred = {}
      BY <1>3 DEF Followed, matches
    <2>6. Found(asked, seen, matches)
      BY <2>3, <2>5 DEF Found
    <2>7. asked.tool \in SkillTools => asked.names \cap unseen = {}
      BY <2>3, <2>5
    <2>8. Followed(asked, document, seen, unseen, There, matches)
      BY <2>4, <2>5, <2>6, <2>7 DEF Followed
    <2>9. seen \cup unseen \subseteq There
      BY <2>3 DEF SkillsInv
    <2>10. PICK c : c = asked
      OBVIOUS
    <2>. QED  BY <1>1, <2>2, <2>8, <2>9, <2>10, Following DEF matches
  <1>. QED  BY <1>2, <1>3 DEF SkillsInv

(* A step of the call itself: the policy and the history stay.                *)
LEMMA Goes ==
  ASSUME SkillsInv, asked.at # "idle", NEW c \in SkillCall(There), asked' = c,
         UNCHANGED <<library, doc, barred, granted>>,
         c.by = asked.by, c.asked = asked.asked, c.tool = asked.tool,
         c.tool \in SkillTools => c.names \cap barred = {},
         Found(c, granted, Skills!Match(asked.asked))
  PROVE  SkillsInv'
  <1>1. Followed(asked, doc, granted, barred, There, Skills!Match(asked.asked))
    BY DEF SkillsInv
  <1>2. Skills!Match(c.asked) = Skills!Match(asked.asked)
    OBVIOUS
  <1>3. Followed(c, doc, granted, barred, There, Skills!Match(c.asked))
    BY <1>1, <1>2 DEF Followed
  <1>4. granted \cup barred \subseteq There
    BY DEF SkillsInv
  <1>. QED  BY <1>3, <1>4, Following

LEMMA CallIs ==
  ASSUME SkillsInv, asked.at # "idle"
  PROVE  /\ asked \in SkillCall(There) /\ Found(asked, granted, Skills!Match(asked.asked))
         /\ asked.tool \in SkillTools => asked.names \cap barred = {}
         /\ \A n \in There : Skills!lookupVisible(n) => n \notin barred
         /\ \A n : ~Skills!lookupVisible(n) => n \notin granted
  BY DEF SkillsInv, Followed, Visibly, There, Skills!lookupVisible,
         Skills!allowsInvestigation

LEMMA LookupStep ==
  ASSUME SkillsInv, Skills!Lookup
  PROVE  SkillsInv'
  <1>1. asked.at = "lookup" /\ UNCHANGED <<library, doc, barred, granted>>
    BY DEF Skills!Lookup
  <1>. DEFINE matches == Skills!Match(asked.asked)
  <1>2. /\ asked \in SkillCall(There) /\ Found(asked, granted, matches)
        /\ Skills!lookupVisible(asked.name) =>
             asked.name \in There /\ asked.name \notin barred
        /\ ~Skills!lookupVisible(asked.name) => asked.name \notin granted
    BY <1>1, CallIs DEF Skills!lookupVisible, There
  <1>3. granted \subseteq There
    BY DEF SkillsInv
  <1>. HIDE DEF matches
  <1>4. CASE /\ Skills!lookupVisible(asked.name)
             /\ asked' = [asked EXCEPT !.at = "done", !.ok = TRUE, !.names = {asked.name}]
    <2>. DEFINE c == [asked EXCEPT !.at = "done", !.ok = TRUE, !.names = {asked.name}]
    <2>1. /\ c \in SkillCall(There) /\ c.at = "done" /\ c.ok = TRUE /\ c.names = {asked.name}
          /\ c.by = asked.by /\ c.asked = asked.asked /\ c.tool = asked.tool
      BY <1>2, <1>4 DEF SkillCall
    <2>2. asked' = c
      BY <1>4
    <2>. HIDE DEF c
    <2>3. c.tool \in {"match", "get"}
      BY <1>1, <1>2, <2>1 DEF Found
    <2>4. Found(c, granted, matches)
      BY <2>1, <2>3 DEF Found
    <2>5. c.names \cap barred = {}
      BY <1>2, <1>4, <2>1
    <2>. QED  BY <1>1, <2>1, <2>2, <2>4, <2>5, Goes DEF matches
  <1>5. CASE /\ ~Skills!lookupVisible(asked.name)
             /\ asked' = [asked EXCEPT !.at = "names", !.left = DOMAIN library]
    <2>. DEFINE c == [asked EXCEPT !.at = "names", !.left = There]
    <2>1. /\ c \in SkillCall(There) /\ c.at = "names" /\ c.left = There
          /\ c.names = asked.names
          /\ c.by = asked.by /\ c.asked = asked.asked /\ c.tool = asked.tool
      BY <1>2 DEF SkillCall
    <2>2. asked' = c
      BY <1>5 DEF There
    <2>. HIDE DEF c
    <2>3. Found(c, granted, matches)
      BY <1>1, <1>2, <1>3, <1>5, <2>1 DEF Found, SkillTools
    <2>4. c.names \cap barred = {}
      BY <1>1, <1>2, <2>1 DEF Found
    <2>. QED  BY <1>1, <2>1, <2>2, <2>3, <2>4, Goes DEF matches
  <1>. QED  BY <1>4, <1>5 DEF Skills!Lookup

LEMMA AskNextStep ==
  ASSUME SkillsInv, NEW place \in {"names", "again"}, Skills!AskNext(place)
  PROVE  SkillsInv'
  <1>. DEFINE matches == Skills!Match(asked.asked)
  <1>1. PICK n \in asked.left :
          /\ asked.at = place /\ UNCHANGED <<library, doc, barred, granted>>
          /\ asked' = [asked EXCEPT !.left = @ \ {n},
                          !.names = IF Skills!lookupVisible(n) THEN @ \cup {n} ELSE @]
    BY DEF Skills!AskNext
  <1>. DEFINE names == IF Skills!lookupVisible(n) THEN asked.names \cup {n} ELSE asked.names
              c == [asked EXCEPT !.left = asked.left \ {n}, !.names = names]
  <1>2. /\ asked \in SkillCall(There) /\ Found(asked, granted, matches)
        /\ asked.tool \in SkillTools => asked.names \cap barred = {}
        /\ n \in There
        /\ Skills!lookupVisible(n) => n \notin barred
        /\ ~Skills!lookupVisible(n) => n \notin granted
    BY <1>1, CallIs DEF SkillCall
  <1>3. /\ names \in SUBSET There /\ asked.names \subseteq names
        /\ n \in granted => n \in names
        /\ asked.tool \in SkillTools => names \cap barred = {}
    BY <1>2 DEF SkillCall
  <1>4. asked' = c
    BY <1>1, <1>2 DEF SkillCall
  <1>. HIDE DEF matches, names
  <1>5. /\ c \in SkillCall(There) /\ c.at = place /\ c.left = asked.left \ {n}
        /\ c.names = names /\ c.ok = asked.ok
        /\ c.by = asked.by /\ c.asked = asked.asked /\ c.tool = asked.tool
    BY <1>1, <1>2, <1>3 DEF SkillCall
  <1>. HIDE DEF c
  <1>6. Found(c, granted, matches)
    BY <1>1, <1>2, <1>3, <1>5 DEF Found
  <1>. QED  BY <1>1, <1>3, <1>4, <1>5, <1>6, Goes DEF matches

LEMMA ListAgainStep ==
  ASSUME SkillsInv, Skills!ListAgain
  PROVE  SkillsInv'
  <1>. DEFINE matches == Skills!Match(asked.asked)
              c == [asked EXCEPT !.at = "again", !.left = asked.names, !.names = {}]
  <1>1. /\ asked.at = "names" /\ asked.left = {} /\ asked.tool = "list" /\ asked' = c
        /\ UNCHANGED <<library, doc, barred, granted>>
    BY DEF Skills!ListAgain
  <1>2. asked \in SkillCall(There) /\ Found(asked, granted, matches)
    BY <1>1, CallIs
  <1>3. /\ c \in SkillCall(There) /\ c.at = "again" /\ c.left = asked.names /\ c.names = {}
        /\ c.by = asked.by /\ c.asked = asked.asked /\ c.tool = asked.tool
    BY <1>2 DEF SkillCall
  <1>. HIDE DEF c, matches
  <1>4. Found(c, granted, matches)
    BY <1>1, <1>2, <1>3 DEF Found
  <1>. QED  BY <1>1, <1>3, <1>4, Goes DEF matches

LEMMA AnswerStep ==
  ASSUME SkillsInv, Skills!Answer
  PROVE  SkillsInv'
  <1>. DEFINE matches == Skills!Match(asked.asked)
              listed == (asked.tool = "list")
              c == [asked EXCEPT !.at = "done", !.ok = listed]
  <1>1. /\ asked.at \in {"names", "again"} /\ asked.left = {}
        /\ asked.tool = "list" => asked.at = "again"
        /\ asked' = c /\ UNCHANGED <<library, doc, barred, granted>>
    BY DEF Skills!Answer
  <1>2. /\ asked \in SkillCall(There) /\ Found(asked, granted, matches)
        /\ asked.tool \in SkillTools => asked.names \cap barred = {}
    BY <1>1, CallIs
  <1>3. listed \in BOOLEAN
    OBVIOUS
  <1>. HIDE DEF matches, listed
  <1>4. /\ c \in SkillCall(There) /\ c.at = "done" /\ c.ok = listed /\ c.names = asked.names
        /\ c.by = asked.by /\ c.asked = asked.asked /\ c.tool = asked.tool
    BY <1>2, <1>3 DEF SkillCall
  <1>. HIDE DEF c
  <1>5. Found(c, granted, matches)
    BY <1>1, <1>2, <1>4 DEF Found, SkillTools
  <1>. QED  BY <1>1, <1>2, <1>4, <1>5, Goes DEF matches

LEMMA SkillsStep ==
  ASSUME SkillsInv, [Skills!Next]_(Skills!vars)
  PROVE  SkillsInv'
  <1>1. CASE UNCHANGED Skills!vars
    <2>1. UNCHANGED <<library, doc, asked, granted, barred>>
      BY <1>1 DEF Skills!vars
    <2>2. CASE asked = [at |-> "idle", left |-> {}]
      BY <2>1, <2>2 DEF SkillsInv, There
    <2>3. CASE Followed(asked, doc, granted, barred, There, Skills!Match(asked.asked))
      BY <2>1, <2>3, Following DEF SkillsInv
    <2>. QED  BY <2>2, <2>3 DEF SkillsInv
  <1>2. CASE \E p \in Principals :
               \/ \E q \in Questions : \/ Skills!MatchInvestigation(p, q)
                                       \/ Skills!StartInvestigation(p, q)
               \/ \E n \in Investigations : Skills!GetInvestigation(p, n)
               \/ Skills!ListInvestigations(p) \/ Skills!SendHelpMessage(p)
    BY <1>2, CallSteps
  <1>3. CASE \E document \in Documents : Skills!EditPolicy(document)
    BY <1>3, EditPolicyStep
  <1>4. CASE Skills!Lookup
    BY <1>4, LookupStep
  <1>5. CASE Skills!AskNext("names") \/ Skills!AskNext("again")
    BY <1>5, AskNextStep
  <1>6. CASE Skills!ListAgain
    BY <1>6, ListAgainStep
  <1>7. CASE Skills!Answer
    BY <1>7, AnswerStep
  <1>. QED  BY <1>1, <1>2, <1>3, <1>4, <1>5, <1>6, <1>7 DEF Skills!Next

-----------------------------------------------------------------------------
(* Investigations: the theorems.                                             *)

(* A step of the server is a step of this part or leaves it alone.            *)
LEMMA SkillsMove == [Next]_vars => [Skills!Next]_(Skills!vars)
  BY DEF Next, vars, skillVars, Skills!vars

(* The invariant holds of every behaviour of the server.                      *)
THEOREM SkillsInvHolds == Spec => []SkillsInv
  <1>1. Init => SkillsInv
    BY DEF Init, Skills!Init, SkillsInv
  <1>2. SkillsInv /\ [Next]_vars => SkillsInv'
    BY SkillsStep, SkillsMove
  <1>. QED  BY <1>1, <1>2, PTL DEF Spec

(* However the policy is edited while a tool asks it skill by skill, and      *)
(* whichever of two skills that tie a question matches, no answer names a     *)
(* skill that was out of the caller's reach from the call on, and none that   *)
(* was in its reach is kept from it (investigation_authz.go:42-110).          *)
THEOREM SkillsKeptAsPermitted == Spec => []SkillsAsPermitted
  <1>1. ASSUME SkillsInv PROVE SkillsAsPermitted
    <2>1. CASE asked.at # "done"
      BY <2>1 DEF SkillsAsPermitted, Skills!SkillsAsPermitted, Skills!HiddenStaysHidden,
                  Skills!PermittedIsServed, Skills!Answered
    <2>2. CASE asked.at = "done"
      <3>. DEFINE matches == Skills!Match(asked.asked)
      <3>1. /\ Found(asked, granted, matches)
            /\ asked.tool \in SkillTools => asked.names \cap barred = {}
        BY <1>1, <2>2, CallIs
      <3>2. Skills!HiddenStaysHidden
        BY <3>1 DEF Skills!HiddenStaysHidden, Skills!Answered, SkillTools
      <3>3. Skills!PermittedIsServed
        BY <2>2, <3>1 DEF Skills!PermittedIsServed, Skills!Answered, Found
      <3>. QED  BY <3>2, <3>3 DEF SkillsAsPermitted, Skills!SkillsAsPermitted
    <2>. QED  BY <2>1, <2>2
  <1>. QED  BY <1>1, SkillsInvHolds, PTL

-----------------------------------------------------------------------------
(* Investigations: what a front-end is given of the context documents.        *)

(* What is left of the budget, and what was taken, after the first m names.   *)
Rendered(lib, names, budget, m, f) ==
  f = [i \in 0..m |-> IF i = 0 THEN [remaining |-> budget, names |-> <<>>]
                      ELSE Skills!Render(lib, budget, f[i - 1], names[i])]

LEMMA RenderedNext ==
  ASSUME NEW lib, NEW names, NEW budget, NEW m \in Nat, NEW f,
         Rendered(lib, names, budget, m, f)
  PROVE  \E g : Rendered(lib, names, budget, m + 1, g)
  <1>. DEFINE start == [remaining |-> budget, names |-> <<>>]
              Then(d, i) == Skills!Render(lib, budget, d, names[i])
              g == [i \in 0..(m + 1) |-> IF i <= m THEN f[i] ELSE Then(f[m], i)]
  <1>1. f = [i \in 0..m |-> IF i = 0 THEN start ELSE Then(f[i - 1], i)]
    BY DEF Rendered
  <1>. HIDE DEF start, Then
  <1>2. ASSUME NEW i \in 0..(m + 1)
        PROVE  g[i] = IF i = 0 THEN start ELSE Then(g[i - 1], i)
    <2>1. CASE i = 0
      BY <1>1, <2>1
    <2>2. CASE i \in 1..m
      <3>1. i - 1 \in 0..m /\ i \in 0..m /\ i - 1 \in 0..(m + 1) /\ i # 0 /\ i <= m
            /\ i - 1 <= m
        BY <2>2
      <3>2. g[i] = f[i] /\ g[i - 1] = f[i - 1]
        BY <3>1
      <3>3. f[i] = Then(f[i - 1], i)
        BY <1>1, <3>1
      <3>. QED  BY <3>1, <3>2, <3>3
    <2>3. CASE i = m + 1
      <3>1. i - 1 = m /\ m \in 0..(m + 1) /\ i # 0 /\ ~(i <= m) /\ m <= m
        BY <2>3
      <3>2. g[m] = f[m] /\ g[i] = Then(f[m], i)
        BY <3>1
      <3>. QED  BY <3>1, <3>2
    <2>. QED  BY <2>1, <2>2, <2>3
  <1>3. g = [i \in 0..(m + 1) |-> IF i = 0 THEN start ELSE Then(g[i - 1], i)]
    <2>1. g = [i \in 0..(m + 1) |-> g[i]]
      OBVIOUS
    <2>. HIDE DEF g
    <2>. QED  BY <1>2, <2>1
  <1>. QED  BY <1>3 DEF Rendered, start, Then

(* The recursive function there is of every context: no shortest one has none. *)
LEMMA RenderedExists ==
  ASSUME NEW lib, NEW names, NEW budget, NEW n \in Nat
  PROVE  \E f : Rendered(lib, names, budget, n, f)
  <1>. DEFINE Lacking == {m \in Nat : ~\E f : Rendered(lib, names, budget, m, f)}
  <1>. SUFFICES ASSUME n \in Lacking PROVE FALSE
    OBVIOUS
  <1>1. PICK m \in Lacking : \A y \in Lacking : m <= y
    <2>1. Lacking \in SUBSET Nat /\ Lacking # {}
      OBVIOUS
    <2>. HIDE DEF Lacking
    <2>. QED  BY <2>1, LeastExists
  <1>2. m # 0
    <2>1. Rendered(lib, names, budget, 0,
                   [i \in 0..0 |-> [remaining |-> budget, names |-> <<>>]])
      BY DEF Rendered
    <2>. QED  BY <2>1
  <1>3. m - 1 \in Nat /\ (m - 1) + 1 = m /\ m - 1 \notin Lacking
    BY <1>1, <1>2
  <1>4. PICK f : Rendered(lib, names, budget, m - 1, f)
    BY <1>3
  <1>5. \E g : Rendered(lib, names, budget, (m - 1) + 1, g)
    BY <1>3, <1>4, RenderedNext
  <1>. QED  BY <1>3, <1>5

LEMMA RenderIs ==
  ASSUME NEW lib, NEW names \in Seq(STRING), NEW budget
  PROVE  \E f : /\ Rendered(lib, names, budget, Len(names), f)
                /\ Skills!RenderContext(lib, names, budget) = f[Len(names)].names
  <1>. DEFINE after == CHOOSE f : Rendered(lib, names, budget, Len(names), f)
  <1>1. Rendered(lib, names, budget, Len(names), after)
    BY RenderedExists
  <1>2. Skills!RenderContext(lib, names, budget) = after[Len(names)].names
    BY DEF Skills!RenderContext, Rendered
  <1>. QED  BY <1>1, <1>2

(* What was taken are skills there are, of those that were named; without a   *)
(* budget, all of them.                                                       *)
Taken(lib, names, budget, m, taken) ==
  /\ taken \in Seq(STRING)
  /\ \A x \in STRING : x \in Skills!Range(taken) =>
                         x \in DOMAIN lib /\ \E j \in 1..m : names[j] = x
  /\ budget = 0 => \A j \in 1..m : names[j] \in DOMAIN lib => names[j] \in Skills!Range(taken)

LEMMA TakenNext ==
  ASSUME NEW lib, NEW names \in Seq(STRING), NEW budget \in Nat, NEW m \in 1..Len(names),
         NEW done, Taken(lib, names, budget, m - 1, done.names)
  PROVE  Taken(lib, names, budget, m, Skills!Render(lib, budget, done, names[m]).names)
  <1>. PICK x : x = names[m]
    OBVIOUS
  <1>. PICK was : was = done.names
    OBVIOUS
  <1>1. x \in STRING /\ was \in Seq(STRING) /\ m - 1 \in Nat /\ 1..m = 1..(m - 1) \cup {m}
    BY DEF Taken
  <1>2. /\ \A y \in STRING : y \in Skills!Range(was) =>
                               y \in DOMAIN lib /\ \E j \in 1..(m - 1) : names[j] = y
        /\ budget = 0 => \A j \in 1..(m - 1) : names[j] \in DOMAIN lib =>
                                                 names[j] \in Skills!Range(was)
    BY DEF Taken
  <1>3. CASE x \notin DOMAIN lib \/ (budget > 0 /\ lib[x].size > done.remaining)
    <2>1. Skills!Render(lib, budget, done, names[m]).names = was
      BY <1>3 DEF Skills!Render
    <2>2. budget = 0 => x \notin DOMAIN lib
      BY <1>3
    <2>. QED  BY <1>1, <1>2, <2>1, <2>2 DEF Taken
  <1>4. CASE ~(x \notin DOMAIN lib \/ (budget > 0 /\ lib[x].size > done.remaining))
    <2>. PICK now : now = Append(was, x)
      OBVIOUS
    <2>1. Skills!Render(lib, budget, done, names[m]).names = now
      BY <1>4 DEF Skills!Render
    <2>2. now \in Seq(STRING) /\ Skills!Range(now) = Skills!Range(was) \cup {x}
      <3>1. /\ now \in Seq(STRING) /\ DOMAIN now = 1..(Len(was) + 1) /\ Len(was) \in Nat
            /\ DOMAIN was = 1..Len(was) /\ now[Len(was) + 1] = x
            /\ \A i \in 1..Len(was) : now[i] = was[i]
        BY <1>1
      <3>2. 1..(Len(was) + 1) = 1..Len(was) \cup {Len(was) + 1}
        BY <3>1
      <3>3. /\ \A i \in 1..Len(was) : now[i] \in Skills!Range(was)
            /\ Skills!Range(was) \subseteq {now[i] : i \in 1..Len(was)}
        BY <3>1 DEF Skills!Range
      <3>. QED  BY <3>1, <3>2, <3>3 DEF Skills!Range
    <2>. QED  BY <1>1, <1>2, <1>4, <2>1, <2>2 DEF Taken
  <1>. QED  BY <1>3, <1>4

LEMMA ContextIs ==
  ASSUME NEW lib, NEW names \in Seq(STRING), NEW budget \in Nat
  PROVE  Taken(lib, names, budget, Len(names), Skills!RenderContext(lib, names, budget))
  <1>. PICK n \in Nat : n = Len(names)
    OBVIOUS
  <1>1. PICK f : /\ Rendered(lib, names, budget, n, f)
                 /\ Skills!RenderContext(lib, names, budget) = f[n].names
    BY RenderIs
  <1>. DEFINE Wrong == {m \in 0..n : ~Taken(lib, names, budget, m, f[m].names)}
  <1>. SUFFICES ASSUME n \in Wrong PROVE FALSE
    BY <1>1
  <1>2. PICK m \in Wrong : \A y \in Wrong : m <= y
    <2>1. Wrong \in SUBSET Nat /\ Wrong # {}
      OBVIOUS
    <2>. HIDE DEF Wrong
    <2>. QED  BY <2>1, LeastExists
  <1>3. m # 0
    <2>1. 0 \in 0..n /\ f[0] = [remaining |-> budget, names |-> <<>>]
      BY <1>1 DEF Rendered
    <2>2. <<>> \in Seq(STRING) /\ Skills!Range(<<>>) = {}
      BY DEF Skills!Range
    <2>3. Taken(lib, names, budget, 0, f[0].names)
      BY <2>1, <2>2 DEF Taken
    <2>. QED  BY <2>3
  <1>4. m \in 1..n /\ m - 1 \in 0..n /\ m - 1 \notin Wrong
    BY <1>2, <1>3
  <1>5. Taken(lib, names, budget, m - 1, f[m - 1].names)
    BY <1>4
  <1>6. f[m] = Skills!Render(lib, budget, f[m - 1], names[m])
    BY <1>1, <1>4 DEF Rendered
  <1>7. Taken(lib, names, budget, m, f[m].names)
    BY <1>4, <1>5, <1>6, TakenNext
  <1>. QED  BY <1>7

-----------------------------------------------------------------------------
(* Investigations: the types.                                                *)

SkillsTypes ==
  /\ \A s \in Skills!Range(library) : s.triggers \subseteq Skills!Trigger
  /\ Skills!Range(given.mcp) \subseteq Skills!Range(given.slack)
  /\ policyEdits \in 0..MaxEdits /\ doc \in Documents \cup {NoPolicy}
  /\ barred \cap granted = {}

LEMMA SkillsTypesStart == Skills!Init => SkillsTypes
  <1>. SUFFICES ASSUME Skills!Init PROVE SkillsTypes
    OBVIOUS
  <1>1. MaxEdits \in Nat /\ Context \in Seq(STRING) /\ Budget \in Nat /\ Skills!ConstantsOK
    BY PartsAssumption DEF Skills!ConstantsOK
  <1>2. \A s \in Skills!Range(library) : s.triggers \subseteq Skills!Trigger
    <2>1. PICK dir \in SkillDirectories : library = Skills!NewSkillLibrary(dir)
      BY DEF Skills!Init
    <2>2. \A i \in DOMAIN dir : dir[i].triggers \subseteq Skills!Trigger
      BY <1>1 DEF Skills!ConstantsOK, Skills!Range
    <2>3. CASE library = <<>>
      BY <2>3 DEF Skills!Range
    <2>4. CASE library # <<>>
      <3>1. \A s \in Skills!Range(library) :
              \E i \in DOMAIN dir : s = Skills!loadEntry(dir[i])
        BY <2>1, <2>4 DEF Skills!NewSkillLibrary, Skills!Range
      <3>2. \A i \in DOMAIN dir : Skills!loadEntry(dir[i]).triggers \subseteq Skills!Trigger
        BY <2>2 DEF Skills!loadEntry
      <3>. QED  BY <3>1, <3>2
    <2>. QED  BY <2>3, <2>4
  <1>3. Skills!Range(given.mcp) \subseteq Skills!Range(given.slack)
    <2>. PICK all, some : /\ all = Skills!RenderContext(library, Context, 0)
                          /\ some = Skills!RenderContext(library, Context, Budget)
      OBVIOUS
    <2>1. given.slack = all /\ given.mcp = some
      BY DEF Skills!Init
    <2>2. /\ Taken(library, Context, 0, Len(Context), all)
          /\ Taken(library, Context, Budget, Len(Context), some)
      BY <1>1, ContextIs
    <2>3. Skills!Range(some) \subseteq STRING
      <3>1. some \in Seq(STRING)
        BY <2>2 DEF Taken
      <3>. QED  BY <3>1 DEF Skills!Range
    <2>. QED  BY <2>1, <2>2, <2>3 DEF Taken
  <1>. QED  BY <1>1, <1>2, <1>3 DEF Skills!Init, SkillsTypes

LEMMA SkillsTypesStay ==
  ASSUME SkillsTypes, [Skills!Next]_(Skills!vars)
  PROVE  SkillsTypes'
  <1>1. ASSUME NEW document \in Documents, Skills!EditPolicy(document) PROVE SkillsTypes'
    <2>1. MaxEdits \in Nat
      BY PartsAssumption DEF Skills!ConstantsOK
    <2>2. barred' \subseteq barred /\ granted' \subseteq granted
      BY <1>1 DEF Skills!EditPolicy, Skills!Visible
    <2>3. /\ UNCHANGED <<library, given>> /\ doc' = document
          /\ policyEdits' = policyEdits + 1 /\ policyEdits < MaxEdits
      BY <1>1 DEF Skills!EditPolicy
    <2>. QED  BY <2>1, <2>2, <2>3 DEF SkillsTypes
  <1>2. ASSUME NEW c, Skills!Begin(c) PROVE SkillsTypes'
    BY <1>2 DEF Skills!Begin, SkillsTypes
  <1>3. ASSUME UNCHANGED <<library, given, doc, policyEdits, barred, granted>>
        PROVE  SkillsTypes'
    BY <1>3 DEF SkillsTypes
  <1>4. ASSUME NEW p \in Principals,
               \/ \E q \in Questions : \/ Skills!MatchInvestigation(p, q)
                                       \/ Skills!StartInvestigation(p, q)
               \/ \E n \in Investigations : Skills!GetInvestigation(p, n)
               \/ Skills!ListInvestigations(p) \/ Skills!SendHelpMessage(p)
        PROVE  SkillsTypes'
    BY <1>2, <1>4 DEF Skills!MatchInvestigation, Skills!StartInvestigation,
         Skills!GetInvestigation, Skills!ListInvestigations, Skills!SendHelpMessage
  <1>5. ASSUME \/ Skills!Lookup \/ Skills!AskNext("names") \/ Skills!AskNext("again")
               \/ Skills!ListAgain \/ Skills!Answer \/ UNCHANGED Skills!vars
        PROVE  SkillsTypes'
    BY <1>3, <1>5 DEF Skills!Lookup, Skills!AskNext, Skills!ListAgain, Skills!Answer,
         Skills!vars
  <1>. QED  BY <1>1, <1>4, <1>5 DEF Skills!Next

LEMMA CallPlaces ==
  ASSUME SkillsInv
  PROVE  asked.at \in {"idle", "lookup", "names", "again", "done"}
  <1>1. CASE asked = [at |-> "idle", left |-> {}]
    BY <1>1
  <1>2. CASE asked \in SkillCall(There)
    BY <1>2 DEF SkillCall
  <1>. QED  BY <1>1, <1>2 DEF SkillsInv, Followed

(* The state of the investigations has its types: whatever the budget of the  *)
(* MCP instructions leaves out, they have no context document that Slack's    *)
(* prompts do not have (knowledge.go:69-115).                                 *)
THEOREM SkillsTypesHold == Spec => []Skills!TypeOK
  <1>1. Init => SkillsTypes
    BY SkillsTypesStart DEF Init
  <1>2. SkillsTypes /\ [Next]_vars => SkillsTypes'
    BY SkillsTypesStay, SkillsMove
  <1>3. ASSUME SkillsTypes, SkillsInv PROVE Skills!TypeOK
    <2>. QED  BY <1>3, CallPlaces DEF SkillsTypes, SkillsInv, There, Skills!TypeOK
  <1>. QED  BY <1>1, <1>2, <1>3, SkillsInvHolds, PTL DEF Spec

-----------------------------------------------------------------------------
(* Named endpoints: the inductive invariant.                                 *)

EndpointNames == STRING \cup {Named!Default}

NamedCall ==
  [at : {"idle"}] \cup [at : {"done"}, ok : BOOLEAN] \cup
  [at : {"auth", "fetch", "issued", "pool", "send", "sent"}, family : Named!Families,
   name : EndpointNames, named : STRING, url : STRING, waited : Nat, valid : Nat,
   lifetime : Nat]

(* Tokens outlive the request for them, and the buffer is no shorter.         *)
TokensOutlive == (\A t \in Lifetimes : t > EndpointTimeout) /\ Buffer >= EndpointTimeout

(* A call goes to what was set for what it names.                             *)
SetForIt(c) ==
  \E s \in Named!Range(env[c.family]) : Named!Means(s, c.named) /\ s.url = c.url

(* What is left of a token that was issued is its lifetime less the time its  *)
(* request has taken so far.                                                  *)
TokenOfCall(c) ==
  c.at = "issued" => /\ c.lifetime \in Lifetimes /\ c.valid <= c.lifetime
                     /\ c.lifetime <= c.valid + c.waited

(* Who goes on to send finds a token in the headers that is accepted then.    *)
TokenThere(c, lefts) ==
  TokensOutlive /\ Named!ensureAuth(c.family, c.name) =>
    /\ c.at = "send" => lefts[c.name] > 0
    /\ c.at = "sent" => c.valid > 0

CallFits(c, lefts) ==
  /\ SetForIt(c) /\ TokenOfCall(c) /\ TokenThere(c, lefts) /\ c.waited <= EndpointTimeout
  /\ c.at \in {"auth", "fetch", "issued"} => c.family = "graphql"
  /\ c.at = "pool" => c.family = "database"
  /\ c.family = "graphql" => c.name \in DOMAIN clients.graphql

(* A token counts as valid for no longer than it is accepted.                 *)
TokensAge(lefts, freshs) ==
  \A n \in DOMAIN clients.graphql :
    /\ Buffer >= EndpointTimeout => freshs[n] <= lefts[n]
    /\ lefts[n] <= Named!Longest /\ freshs[n] <= Named!Longest

MadeWithout(down) == clients = Named!NewServer(env, down)

NamedInv ==
  /\ env \in Environments /\ \E down \in SUBSET EndpointNames : MadeWithout(down)
  /\ left \in [DOMAIN clients.graphql -> Nat] /\ fresh \in [DOMAIN clients.graphql -> Nat]
  /\ lock \in [DOMAIN clients.graphql -> Workers \cup {Named!Free}]
  /\ TokensAge(left, fresh)
  /\ calls \in [Workers -> NamedCall]
  /\ \A c \in Workers : calls[c].at \notin {"idle", "done"} => CallFits(calls[c], left)

-----------------------------------------------------------------------------
(* Named endpoints: what the constants and the operators say.                *)

LEMMA NamedConstants ==
  /\ \A e \in Environments : Named!IsEnvironment(e)
  /\ \A r \in Requested : r[1] \in Named!Families /\ r[2] \in STRING
  /\ Buffer \in Nat /\ EndpointTimeout \in Nat
  /\ \A t \in Lifetimes : t \in Nat /\ t <= Named!Longest
  /\ Named!Longest \in Nat
  <1>1. \E t \in Lifetimes : \A s \in Lifetimes : s <= t
    BY PartsAssumption DEF Named!ConstantsOK
  <1>2. Named!Longest \in Lifetimes /\ \A s \in Lifetimes : s <= Named!Longest
    BY <1>1 DEF Named!Longest
  <1>. QED  BY <1>2, PartsAssumption DEF Named!ConstantsOK

(* Who a name finds: of two settings that differ in case alone the last one.  *)
Calls(s, n) == s.name = n \/ (n = Named!Default /\ s.name = "")

LEMMA UrlIs ==
  ASSUME NEW settings \in Seq(Named!Setting), NEW n \in Named!NamesIn(settings)
  PROVE  \E s \in Named!Range(settings) :
           s.name = n /\ s.url = Named!Url(settings, n) /\ s \in Named!Setting
  <1>. DEFINE S == Named!SetAt(settings, n)
  <1>1. DOMAIN settings = 1 .. Len(settings) /\ Len(settings) \in Nat
    OBVIOUS
  <1>2. S \in SUBSET (1 .. Len(settings)) /\ S # {}
    BY <1>1 DEF Named!SetAt, Named!NamesIn
  <1>3. Named!Max(S) = Max(S)
    BY DEF Named!Max, Max
  <1>. HIDE DEF S
  <1>4. Max(S) \in S
    BY <1>1, <1>2, GreatestExists
  <1>5. PICK i \in 1 .. Len(settings) : i = Max(S) /\ i \in S
    BY <1>2, <1>4
  <1>6. settings[i].name = n /\ Named!Url(settings, n) = settings[i].url
    BY <1>3, <1>5 DEF S, Named!SetAt, Named!Url
  <1>7. settings[i] \in Named!Range(settings) /\ settings[i] \in Named!Setting
    BY <1>1 DEF Named!Range
  <1>. QED  BY <1>6, <1>7

LEMMA ClientsAre ==
  ASSUME env \in Environments, NEW down, MadeWithout(down), NEW f \in Named!Families,
         NEW n \in DOMAIN clients[f]
  PROVE  \E s \in Named!Range(env[f]) :
           Calls(s, n) /\ s.url = clients[f][n] /\ s \in Named!Setting
  <1>1. \A g \in Named!Families : env[g] \in Seq(Named!Setting)
    BY NamedConstants DEF Named!IsEnvironment
  <1>2. ASSUME NEW settings \in Seq(Named!Setting), NEW g,
               NEW m \in DOMAIN g,
               \/ m = Named!Default /\ "" \in Named!NamesIn(settings)
                  /\ g[m] = Named!Url(settings, "")
               \/ m \in Named!NamesIn(settings) /\ g[m] = Named!Url(settings, m)
        PROVE  \E s \in Named!Range(settings) :
                 Calls(s, m) /\ s.url = g[m] /\ s \in Named!Setting
    BY <1>2, UrlIs DEF Calls
  <1>3. CASE f = "prometheus"
    <2>1. clients[f] = Named!LoadPrometheusClients(env[f])
      BY <1>3 DEF MadeWithout, Named!NewServer
    <2>2. \/ n = Named!Default /\ "" \in Named!NamesIn(env[f])
             /\ clients[f][n] = Named!Url(env[f], "")
          \/ n \in Named!NamesIn(env[f]) /\ clients[f][n] = Named!Url(env[f], n)
      BY <2>1 DEF Named!LoadPrometheusClients, Named!++, Named!DefaultOf, Named!Others,
                  Named!scanPrometheusEnvVars
    <2>. QED  BY <1>1, <1>2, <2>2
  <1>4. CASE f = "graphql"
    <2>1. clients[f] = Named!LoadGraphQLClients(env[f])
      BY <1>4 DEF MadeWithout, Named!NewServer
    <2>2. \/ n = Named!Default /\ "" \in Named!NamesIn(env[f])
             /\ clients[f][n] = Named!Url(env[f], "")
          \/ n \in Named!NamesIn(env[f]) /\ clients[f][n] = Named!Url(env[f], n)
      BY <2>1 DEF Named!LoadGraphQLClients, Named!++, Named!DefaultOf, Named!Others,
                  Named!collectGraphQLURLs
    <2>. QED  BY <1>1, <1>2, <2>2
  <1>5. CASE f = "tempo"
    <2>1. clients[f] = Named!LoadTempoClients(env[f])
      BY <1>5 DEF MadeWithout, Named!NewServer
    <2>2. \/ n = Named!Default /\ "" \in Named!NamesIn(env[f])
             /\ clients[f][n] = Named!Url(env[f], "")
          \/ n \in Named!NamesIn(env[f]) /\ clients[f][n] = Named!Url(env[f], n)
      BY <2>1 DEF Named!LoadTempoClients, Named!++, Named!DefaultOf
    <2>. QED  BY <1>1, <1>2, <2>2
  <1>6. CASE f = "database"
    <2>1. clients[f] = Named!LoadDatabaseClients(env[f], down)
      BY <1>6 DEF MadeWithout, Named!NewServer
    <2>2. \/ n = Named!Default /\ "" \in Named!NamesIn(env[f])
             /\ clients[f][n] = Named!Url(env[f], "")
          \/ n \in Named!NamesIn(env[f]) /\ clients[f][n] = Named!Url(env[f], n)
      <3>. DEFINE all == Named!++(Named!DefaultOf(env[f]),
                                  Named!Others(Named!scanDatabaseEnvVars(env[f])))
      <3>1. n \in DOMAIN all /\ clients[f][n] = all[n]
        BY <2>1 DEF Named!LoadDatabaseClients
      <3>. QED  BY <3>1 DEF Named!++, Named!DefaultOf, Named!Others,
                            Named!scanDatabaseEnvVars
    <2>. QED  BY <1>1, <1>2, <2>2
  <1>. QED  BY <1>3, <1>4, <1>5, <1>6 DEF Named!Families

-----------------------------------------------------------------------------
(* Named endpoints: the steps.                                               *)

UnderWayAt == {"auth", "fetch", "issued", "pool", "send", "sent"}

LEMMA NamedCallsAre ==
  ASSUME NamedInv, NEW c \in Workers
  PROVE  /\ calls[c] \in NamedCall /\ calls[c].at \in UnderWayAt \cup {"idle", "done"}
         /\ calls[c].at \in UnderWayAt =>
              /\ CallFits(calls[c], left)
              /\ calls[c].family \in Named!Families /\ calls[c].name \in EndpointNames
              /\ calls[c].named \in STRING /\ calls[c].url \in STRING
              /\ calls[c].waited \in Nat /\ calls[c].valid \in Nat
              /\ calls[c].lifetime \in Nat
  BY DEF NamedInv, NamedCall, UnderWayAt

(* A call that does not wait for the token endpoint or holds on to the lock   *)
(* finds its token as it was, if those of the others only got better.         *)
LEMMA FitsStill ==
  ASSUME UNCHANGED <<env, clients>>, NEW c, NEW lefts, NEW others, CallFits(c, lefts),
         TokensOutlive /\ Named!ensureAuth(c.family, c.name) =>
           (lefts[c.name] > 0 => others[c.name] > 0),
         left' = others, NEW w, calls[w]' = c
  PROVE  CallFits(calls[w], left)'
  BY DEF CallFits, SetForIt, TokenOfCall, TokenThere, Named!Means, Named!ensureAuth,
         Named!Default, Named!Range

(* One call moves, and with it perhaps the token of its endpoint.             *)
LEMMA NamedMoves ==
  ASSUME NamedInv, NEW c \in Workers, NEW k \in NamedCall, UNCHANGED <<env, clients>>,
         calls' = [calls EXCEPT ![c] = k],
         left' \in [DOMAIN clients.graphql -> Nat], fresh' \in [DOMAIN clients.graphql -> Nat],
         lock' \in [DOMAIN clients.graphql -> Workers \cup {Named!Free}],
         TokensAge(left', fresh'),
         \A n \in DOMAIN clients.graphql : TokensOutlive /\ left[n] > 0 => left'[n] > 0,
         k.at \notin {"idle", "done"} => CallFits(k, left')
  PROVE  NamedInv'
  <1>1. calls' \in [Workers -> NamedCall]
    BY DEF NamedInv
  <1>2. /\ env' \in Environments
        /\ \E down \in SUBSET EndpointNames : MadeWithout(down)'
    <2>1. PICK down \in SUBSET EndpointNames : MadeWithout(down)
      BY DEF NamedInv
    <2>2. MadeWithout(down)'
      BY <2>1 DEF MadeWithout
    <2>. QED  BY <2>2 DEF NamedInv
  <1>3. (DOMAIN clients.graphql)' = DOMAIN clients.graphql
    OBVIOUS
  <1>4. TokensAge(left, fresh)'
    BY <1>3 DEF TokensAge, Named!Longest
  <1>5. ASSUME NEW w \in Workers, calls'[w].at \notin {"idle", "done"}
        PROVE  CallFits(calls[w], left)'
    <2>. PICK others : others = left'
      OBVIOUS
    <2>1. CASE w = c
      <3>1. calls'[w] = k
        BY <2>1 DEF NamedInv
      <3>2. CallFits(k, others)
        BY <1>5, <3>1
      <3>. QED  BY <3>1, <3>2, FitsStill
    <2>2. CASE w # c
      <3>1. calls'[w] = calls[w]
        BY <2>2 DEF NamedInv
      <3>. PICK d : d = calls[w]
        OBVIOUS
      <3>2. CallFits(d, left)
        BY <1>5, <3>1 DEF NamedInv
      <3>3. TokensOutlive /\ Named!ensureAuth(d.family, d.name) =>
              (left[d.name] > 0 => others[d.name] > 0)
        BY <3>2 DEF CallFits, Named!ensureAuth
      <3>. QED  BY <3>1, <3>2, <3>3, FitsStill
    <2>. QED  BY <2>1, <2>2
  <1>. QED  BY <1>1, <1>2, <1>3, <1>4, <1>5 DEF NamedInv

(* A call ends or goes on while no token changes.                             *)
LEMMA NamedGoesOn ==
  ASSUME NamedInv, NEW c \in Workers, NEW k \in NamedCall, UNCHANGED <<env, clients>>,
         calls' = [calls EXCEPT ![c] = k], UNCHANGED <<left, fresh>>,
         lock' \in [DOMAIN clients.graphql -> Workers \cup {Named!Free}],
         k.at \notin {"idle", "done"} => CallFits(k, left)
  PROVE  NamedInv'
  <1>1. /\ left' \in [DOMAIN clients.graphql -> Nat]
        /\ fresh' \in [DOMAIN clients.graphql -> Nat]
        /\ \A n \in DOMAIN clients.graphql : TokensOutlive /\ left[n] > 0 => left'[n] > 0
    BY DEF NamedInv
  <1>2. TokensAge(left', fresh') /\ (k.at \notin {"idle", "done"} => CallFits(k, left'))
    BY DEF NamedInv
  <1>. QED  BY <1>1, <1>2, NamedMoves

LEMMA NamedEnds ==
  ASSUME NamedInv, NEW c \in Workers, NEW ok \in BOOLEAN, Named!End(c, ok),
         UNCHANGED <<env, clients, left, fresh>>,
         lock' \in [DOMAIN clients.graphql -> Workers \cup {Named!Free}]
  PROVE  NamedInv'
  <1>. DEFINE k == [at |-> "done", ok |-> ok]
  <1>1. k \in NamedCall /\ k.at = "done"
    BY DEF NamedCall
  <1>2. calls' = [calls EXCEPT ![c] = k]
    BY DEF Named!End
  <1>. HIDE DEF k
  <1>. QED  BY <1>1, <1>2, NamedGoesOn

(* A call can go on, at another place and with another token perhaps.         *)
CanGoOn(c, at, waited, valid, lifetime) ==
  \E k \in NamedCall :
    /\ k.at = at /\ k.family = calls[c].family /\ k.name = calls[c].name
    /\ k.waited = waited /\ k.valid = valid /\ k.lifetime = lifetime
    /\ SetForIt(k) /\ (k.family = "graphql" => k.name \in DOMAIN clients.graphql)
    /\ [calls[c] EXCEPT !.at = at, !.waited = waited, !.valid = valid,
                        !.lifetime = lifetime] = k

LEMMA CallsCanGoOn ==
  ASSUME NamedInv, NEW c \in Workers, calls[c].at \in UnderWayAt, NEW at \in UnderWayAt,
         NEW waited \in Nat, NEW valid \in Nat, NEW lifetime \in Nat
  PROVE  CanGoOn(c, at, waited, valid, lifetime)
  <1>. DEFINE Records == [at : UnderWayAt, family : Named!Families, name : EndpointNames,
                          named : STRING, url : STRING, waited : Nat, valid : Nat,
                          lifetime : Nat]
  <1>1. CallFits(calls[c], left) /\ calls[c] \in Records
    BY NamedCallsAre DEF NamedCall, UnderWayAt
  <1>. DEFINE k == [calls[c] EXCEPT !.at = at, !.waited = waited, !.valid = valid,
                                    !.lifetime = lifetime]
  <1>2. /\ k \in Records /\ k.at = at /\ k.family = calls[c].family
        /\ k.name = calls[c].name /\ k.named = calls[c].named /\ k.url = calls[c].url
        /\ k.waited = waited /\ k.valid = valid /\ k.lifetime = lifetime
    BY <1>1
  <1>3. [calls[c] EXCEPT !.at = at, !.waited = waited, !.valid = valid, !.lifetime = lifetime]
          = k
    OBVIOUS
  <1>. HIDE DEF k
  <1>4. k \in NamedCall
    BY <1>2 DEF NamedCall, UnderWayAt
  <1>5. SetForIt(k) /\ (k.family = "graphql" => k.name \in DOMAIN clients.graphql)
    BY <1>1, <1>2 DEF CallFits, SetForIt
  <1>. QED  BY <1>2, <1>3, <1>4, <1>5 DEF CanGoOn

LEMMA NamedCallStep ==
  ASSUME NamedInv, NEW c \in Workers, NEW r \in Requested, Named!Call(c, r[1], r[2])
  PROVE  NamedInv'
  <1>. DEFINE family == r[1]
              named == r[2]
              name == Named!Target(named)
              at == CASE family = "database" -> "pool"
                      [] Named!ensureAuth(family, name) -> "auth"
                      [] OTHER -> "send"
              k == [at |-> at, family |-> family, name |-> name, named |-> named,
                    url |-> clients[family][name], waited |-> 0, valid |-> 0, lifetime |-> 0]
  <1>1. /\ family \in Named!Families /\ named \in STRING /\ name \in EndpointNames
        /\ UNCHANGED <<env, clients, left, fresh, lock>>
    BY NamedConstants DEF Named!Call, Named!Target, EndpointNames, Named!server, Named!tokens
  <1>2. lock' \in [DOMAIN clients.graphql -> Workers \cup {Named!Free}]
    BY <1>1 DEF NamedInv
  <1>3. CASE Named!End(c, FALSE)
    BY <1>1, <1>2, <1>3, NamedEnds
  <1>4. CASE name \in DOMAIN clients[family] /\ calls' = [calls EXCEPT ![c] = k]
    <2>1. PICK s \in Named!Range(env[family]) :
            /\ Calls(s, name) /\ s.url = clients[family][name] /\ s \in Named!Setting
      <3>1. PICK down \in SUBSET EndpointNames : MadeWithout(down)
        BY DEF NamedInv
      <3>. QED  BY <1>1, <1>4, <3>1, ClientsAre DEF NamedInv
    <2>2. /\ at \in {"pool", "auth", "send"}
          /\ at = "auth" => Named!ensureAuth(family, name)
          /\ at = "send" => ~Named!ensureAuth(family, name)
          /\ at = "pool" => family = "database"
      BY DEF Named!ensureAuth
    <2>3. clients[family][name] \in STRING
      BY <2>1 DEF Named!Setting
    <2>. DEFINE url == clients[family][name]
    <2>. HIDE DEF at, name, named, family, url
    <2>4. /\ k \in NamedCall /\ k.at = at /\ k.family = family /\ k.name = name
          /\ k.named = named /\ k.url = url /\ k.waited = 0
      BY <1>1, <2>2, <2>3 DEF NamedCall, url
    <2>. HIDE DEF k
    <2>5. Named!Means(s, named)
      BY <2>1 DEF Calls, Named!Means, Named!Target, Named!Default, name
    <2>6. SetForIt(k)
      BY <2>1, <2>4, <2>5 DEF SetForIt, url
    <2>7. CallFits(k, left)
      BY <1>4, <2>2, <2>4, <2>6, NamedConstants
         DEF CallFits, TokenOfCall, TokenThere, Named!ensureAuth
    <2>. QED  BY <1>1, <1>2, <1>4, <2>4, <2>7, NamedGoesOn
  <1>. QED  BY <1>3, <1>4 DEF Named!Call

LEMMA NamedGo ==
  ASSUME NamedInv, NEW c \in Workers, calls[c].at \in UnderWayAt, NEW at \in UnderWayAt,
         Named!Go(c, at)
  PROVE  \E k \in NamedCall :
           /\ calls' = [calls EXCEPT ![c] = k]
           /\ k.at = at /\ k.waited = 0 /\ k.name = calls[c].name
           /\ SetForIt(k) /\ (k.family = "graphql" => k.name \in DOMAIN clients.graphql)
           /\ k.family = calls[c].family
  <1>1. calls[c] \in NamedCall /\ calls[c].valid \in Nat /\ calls[c].lifetime \in Nat
    BY NamedCallsAre
  <1>2. CanGoOn(c, at, 0, calls[c].valid, calls[c].lifetime)
    BY <1>1, CallsCanGoOn
  <1>3. PICK k \in NamedCall :
          /\ k.at = at /\ k.family = calls[c].family /\ k.name = calls[c].name
          /\ k.waited = 0
          /\ SetForIt(k) /\ (k.family = "graphql" => k.name \in DOMAIN clients.graphql)
          /\ [calls[c] EXCEPT !.at = at, !.waited = 0, !.valid = calls[c].valid,
                              !.lifetime = calls[c].lifetime] = k
    BY <1>2 DEF CanGoOn
  <1>4. calls' = [calls EXCEPT ![c] = [calls[c] EXCEPT !.at = at, !.waited = 0]]
    BY DEF Named!Go, NamedInv
  <1>5. [calls[c] EXCEPT !.at = at, !.waited = 0]
          = [calls[c] EXCEPT !.at = at, !.waited = 0, !.valid = calls[c].valid,
                             !.lifetime = calls[c].lifetime]
    BY <1>1 DEF NamedCall, UnderWayAt
  <1>. QED  BY <1>3, <1>4, <1>5

LEMMA LookAtTokenStep ==
  ASSUME NamedInv, NEW c \in Workers, Named!LookAtToken(c)
  PROVE  NamedInv'
  <1>1. /\ calls[c].at = "auth" /\ UNCHANGED <<env, clients, left, fresh>>
        /\ "send" \in UnderWayAt /\ "fetch" \in UnderWayAt
    BY DEF Named!LookAtToken, Named!At, Named!server, UnderWayAt
  <1>2. calls[c].at \in UnderWayAt
    BY <1>1 DEF UnderWayAt
  <1>3. /\ CallFits(calls[c], left) /\ calls[c] \in NamedCall
        /\ calls[c].valid \in Nat /\ calls[c].lifetime \in Nat
    BY <1>2, NamedCallsAre
  <1>4. calls[c].family = "graphql" /\ calls[c].name \in DOMAIN clients.graphql
    BY <1>1, <1>3 DEF CallFits
  <1>5. ASSUME NEW at \in UnderWayAt, Named!Go(c, at)
        PROVE  \E k \in NamedCall :
                 /\ calls' = [calls EXCEPT ![c] = k]
                 /\ k.at = at /\ k.waited = 0 /\ k.name = calls[c].name
                 /\ SetForIt(k) /\ (k.family = "graphql" => k.name \in DOMAIN clients.graphql)
                 /\ k.family = "graphql"
    BY <1>2, <1>4, <1>5, NamedGo
  <1>6. CASE fresh[calls[c].name] > 0 /\ Named!Go(c, "send") /\ UNCHANGED lock
    <2>1. TokensOutlive => left[calls[c].name] > 0
      <3>1. left[calls[c].name] \in Nat /\ fresh[calls[c].name] \in Nat
        BY <1>4 DEF NamedInv
      <3>. QED  BY <1>4, <1>6, <3>1 DEF NamedInv, TokensAge, TokensOutlive
    <2>2. PICK k \in NamedCall :
            /\ calls' = [calls EXCEPT ![c] = k] /\ k.at = "send" /\ k.waited = 0
            /\ k.name = calls[c].name
            /\ SetForIt(k) /\ (k.family = "graphql" => k.name \in DOMAIN clients.graphql)
      BY <1>1, <1>5, <1>6
    <2>3. CallFits(k, left)
      BY <2>1, <2>2, NamedConstants DEF CallFits, TokenOfCall, TokenThere
    <2>4. lock' \in [DOMAIN clients.graphql -> Workers \cup {Named!Free}]
      BY <1>6 DEF NamedInv
    <2>. QED  BY <1>1, <2>2, <2>3, <2>4, NamedGoesOn
  <1>7. CASE Named!Go(c, "fetch") /\ lock' = [lock EXCEPT ![calls[c].name] = c]
    <2>1. PICK k \in NamedCall :
            /\ calls' = [calls EXCEPT ![c] = k] /\ k.at = "fetch" /\ k.waited = 0
            /\ k.family = "graphql"
            /\ SetForIt(k) /\ (k.family = "graphql" => k.name \in DOMAIN clients.graphql)
      BY <1>1, <1>5, <1>7
    <2>2. CallFits(k, left)
      BY <2>1, NamedConstants DEF CallFits, TokenOfCall, TokenThere
    <2>3. lock' \in [DOMAIN clients.graphql -> Workers \cup {Named!Free}]
      BY <1>7 DEF NamedInv
    <2>. QED  BY <1>1, <2>1, <2>2, <2>3, NamedGoesOn
  <1>. QED  BY <1>6, <1>7 DEF Named!LookAtToken

LEMMA IssueTokenStep ==
  ASSUME NamedInv, NEW c \in Workers, NEW lifetime \in Lifetimes,
         Named!IssueToken(c, lifetime)
  PROVE  NamedInv'
  <1>1. /\ calls[c].at = "fetch" /\ UNCHANGED <<env, clients, left, fresh, lock>>
        /\ "issued" \in UnderWayAt /\ calls[c].at \in UnderWayAt
    BY DEF Named!IssueToken, Named!At, Named!server, Named!tokens, UnderWayAt
  <1>2. /\ CallFits(calls[c], left) /\ calls[c] \in NamedCall /\ calls[c].waited \in Nat
        /\ lifetime \in Nat
    BY <1>1, NamedCallsAre, NamedConstants
  <1>3. CanGoOn(c, "issued", calls[c].waited, lifetime, lifetime)
    BY <1>1, <1>2, CallsCanGoOn
  <1>4. PICK k \in NamedCall :
          /\ k.at = "issued" /\ k.family = calls[c].family /\ k.waited = calls[c].waited
          /\ k.valid = lifetime /\ k.lifetime = lifetime
          /\ SetForIt(k) /\ (k.family = "graphql" => k.name \in DOMAIN clients.graphql)
          /\ [calls[c] EXCEPT !.at = "issued", !.waited = calls[c].waited,
                              !.valid = lifetime, !.lifetime = lifetime] = k
    BY <1>3 DEF CanGoOn
  <1>5. calls' = [calls EXCEPT ![c] = k]
    <2>1. calls' = [calls EXCEPT ![c] = [calls[c] EXCEPT !.at = "issued", !.valid = lifetime,
                                                        !.lifetime = lifetime]]
      BY DEF Named!IssueToken, NamedInv
    <2>2. [calls[c] EXCEPT !.at = "issued", !.valid = lifetime, !.lifetime = lifetime]
            = [calls[c] EXCEPT !.at = "issued", !.waited = calls[c].waited,
                               !.valid = lifetime, !.lifetime = lifetime]
      BY <1>1, <1>2 DEF NamedCall
    <2>. QED  BY <1>4, <2>1, <2>2
  <1>6. CallFits(k, left)
    BY <1>1, <1>2, <1>4 DEF CallFits, TokenOfCall, TokenThere
  <1>7. lock' \in [DOMAIN clients.graphql -> Workers \cup {Named!Free}]
    BY <1>1 DEF NamedInv
  <1>. QED  BY <1>1, <1>4, <1>5, <1>6, <1>7, NamedGoesOn

LEMMA FetchStep ==
  ASSUME NamedInv, NEW c \in Workers, Named!fetchOAuth2Token(c)
  PROVE  NamedInv'
  <1>. DEFINE n == calls[c].name
              counted == IF calls[c].lifetime > Buffer
                         THEN calls[c].lifetime - Buffer ELSE 0
  <1>1. /\ calls[c].at = "issued" /\ UNCHANGED <<env, clients>> /\ Named!Go(c, "send")
        /\ fresh' = [fresh EXCEPT ![n] = counted]
        /\ left' = [left EXCEPT ![n] = calls[c].valid]
        /\ lock' = [lock EXCEPT ![n] = Named!Free]
    BY DEF Named!fetchOAuth2Token, Named!At, Named!server
  <1>2. calls[c].at \in UnderWayAt /\ "send" \in UnderWayAt
    BY <1>1 DEF UnderWayAt
  <1>3. /\ CallFits(calls[c], left) /\ calls[c].valid \in Nat /\ calls[c].waited \in Nat
        /\ calls[c].lifetime \in Nat
    BY <1>2, NamedCallsAre
  <1>4. /\ calls[c].lifetime \in Lifetimes /\ calls[c].valid <= calls[c].lifetime
        /\ calls[c].lifetime <= calls[c].valid + calls[c].waited
        /\ calls[c].waited <= EndpointTimeout /\ n \in DOMAIN clients.graphql
    BY <1>1, <1>3 DEF CallFits, TokenOfCall
  <1>5. /\ counted \in Nat /\ counted <= Named!Longest /\ calls[c].valid <= Named!Longest
        /\ Buffer >= EndpointTimeout => counted <= calls[c].valid
        /\ TokensOutlive => calls[c].valid > 0
    BY <1>3, <1>4, NamedConstants DEF TokensOutlive
  <1>6. PICK k \in NamedCall :
          /\ calls' = [calls EXCEPT ![c] = k]
          /\ k.at = "send" /\ k.waited = 0 /\ k.name = n
          /\ SetForIt(k) /\ (k.family = "graphql" => k.name \in DOMAIN clients.graphql)
    BY <1>1, <1>2, NamedGo
  <1>. PICK valid \in Nat, count \in Nat : valid = calls[c].valid /\ count = counted
    BY <1>3, <1>5
  <1>. HIDE DEF counted
  <1>7. /\ left' \in [DOMAIN clients.graphql -> Nat]
        /\ fresh' \in [DOMAIN clients.graphql -> Nat]
        /\ lock' \in [DOMAIN clients.graphql -> Workers \cup {Named!Free}]
    BY <1>1, <1>3, <1>5 DEF NamedInv
  <1>8. /\ TokensAge(left', fresh')
        /\ \A m \in DOMAIN clients.graphql : TokensOutlive /\ left[m] > 0 => left'[m] > 0
    <2>1. ASSUME NEW m \in DOMAIN clients.graphql
          PROVE  \/ left'[m] = left[m] /\ fresh'[m] = fresh[m]
                 \/ left'[m] = calls[c].valid /\ fresh'[m] = counted
      BY <1>1 DEF NamedInv
    <2>. QED  BY <1>5, <2>1 DEF NamedInv, TokensAge
  <1>9. CallFits(k, left')
    <2>1. left'[n] = calls[c].valid
      BY <1>1, <1>4 DEF NamedInv
    <2>. QED  BY <1>5, <1>6, <2>1, NamedConstants DEF CallFits, TokenOfCall, TokenThere
  <1>. QED  BY <1>1, <1>6, <1>7, <1>8, <1>9, NamedMoves

LEMMA NamedEndSteps ==
  ASSUME NamedInv, NEW c \in Workers,
         Named!TokenFails(c) \/ Named!Answer(c) \/ Named!Expires(c)
  PROVE  NamedInv'
  <1>1. CASE Named!TokenFails(c)
    <2>1. /\ Named!End(c, FALSE) /\ UNCHANGED <<env, clients, left, fresh>>
          /\ lock' = [lock EXCEPT ![calls[c].name] = Named!Free]
      BY <1>1 DEF Named!TokenFails, Named!server
    <2>2. lock' \in [DOMAIN clients.graphql -> Workers \cup {Named!Free}]
      BY <2>1 DEF NamedInv
    <2>. QED  BY <2>1, <2>2, NamedEnds
  <1>2. CASE Named!Answer(c) \/ Named!Expires(c)
    <2>1. PICK ok \in BOOLEAN : Named!End(c, ok)
      BY <1>2 DEF Named!Answer, Named!Expires
    <2>2. UNCHANGED <<env, clients, left, fresh, lock>>
      BY <1>2 DEF Named!Answer, Named!Expires, Named!server, Named!tokens
    <2>3. lock' \in [DOMAIN clients.graphql -> Workers \cup {Named!Free}]
      BY <2>2 DEF NamedInv
    <2>. QED  BY <2>1, <2>2, <2>3, NamedEnds
  <1>. QED  BY <1>1, <1>2

LEMMA NamedSendStep ==
  ASSUME NamedInv, NEW c \in Workers, Named!Connect(c) \/ Named!Send(c)
  PROVE  NamedInv'
  <1>1. /\ UNCHANGED <<env, clients, left, fresh, lock>> /\ "sent" \in UnderWayAt
        /\ calls[c].at \in {"pool", "send"} /\ calls[c].at \in UnderWayAt
    BY DEF Named!Connect, Named!Send, Named!At, Named!server, Named!tokens, UnderWayAt
  <1>2. /\ CallFits(calls[c], left) /\ calls[c] \in NamedCall /\ calls[c].waited \in Nat
        /\ calls[c].valid \in Nat /\ calls[c].lifetime \in Nat
    BY <1>1, NamedCallsAre
  <1>3. lock' \in [DOMAIN clients.graphql -> Workers \cup {Named!Free}]
    BY <1>1 DEF NamedInv
  <1>4. CASE Named!Connect(c)
    <2>1. CanGoOn(c, "sent", calls[c].waited, calls[c].valid, calls[c].lifetime)
      BY <1>1, <1>2, CallsCanGoOn
    <2>2. PICK k \in NamedCall :
            /\ k.at = "sent" /\ k.family = calls[c].family /\ k.waited = calls[c].waited
            /\ SetForIt(k) /\ (k.family = "graphql" => k.name \in DOMAIN clients.graphql)
            /\ [calls[c] EXCEPT !.at = "sent", !.waited = calls[c].waited,
                                !.valid = calls[c].valid, !.lifetime = calls[c].lifetime] = k
      BY <2>1 DEF CanGoOn
    <2>3. calls' = [calls EXCEPT ![c] = k]
      <3>1. calls' = [calls EXCEPT ![c] = [calls[c] EXCEPT !.at = "sent"]]
        BY <1>4 DEF Named!Connect, NamedInv
      <3>2. [calls[c] EXCEPT !.at = "sent"]
              = [calls[c] EXCEPT !.at = "sent", !.waited = calls[c].waited,
                                 !.valid = calls[c].valid, !.lifetime = calls[c].lifetime]
        BY <1>1, <1>2 DEF NamedCall
      <3>. QED  BY <2>2, <3>1, <3>2
    <2>4. calls[c].family = "database"
      BY <1>1, <1>2, <1>4 DEF Named!Connect, Named!At, CallFits
    <2>5. CallFits(k, left)
      BY <1>2, <2>2, <2>4 DEF CallFits, TokenOfCall, TokenThere, Named!ensureAuth
    <2>. QED  BY <1>1, <1>3, <2>2, <2>3, <2>5, NamedGoesOn
  <1>5. CASE Named!Send(c)
    <2>. DEFINE auth == Named!ensureAuth(calls[c].family, calls[c].name)
                token == IF auth THEN left[calls[c].name] ELSE 0
    <2>1. calls[c].at = "send"
      BY <1>5 DEF Named!Send, Named!At
    <2>2. auth => calls[c].family = "graphql"
      BY DEF Named!ensureAuth
    <2>3. token \in Nat /\ (TokensOutlive /\ auth => token > 0)
      BY <1>2, <2>1, <2>2 DEF CallFits, TokenThere, NamedInv
    <2>4. calls' = [calls EXCEPT ![c] = [calls[c] EXCEPT !.at = "sent", !.waited = 0,
                                                         !.valid = token]]
      BY <1>5 DEF Named!Send, NamedInv
    <2>. HIDE DEF token
    <2>5. CanGoOn(c, "sent", 0, token, calls[c].lifetime)
      BY <1>1, <1>2, <2>3, CallsCanGoOn
    <2>6. PICK k \in NamedCall :
            /\ k.at = "sent" /\ k.family = calls[c].family /\ k.name = calls[c].name
            /\ k.waited = 0 /\ k.valid = token
            /\ SetForIt(k) /\ (k.family = "graphql" => k.name \in DOMAIN clients.graphql)
            /\ [calls[c] EXCEPT !.at = "sent", !.waited = 0, !.valid = token,
                                !.lifetime = calls[c].lifetime] = k
      BY <2>5 DEF CanGoOn
    <2>7. [calls[c] EXCEPT !.at = "sent", !.waited = 0, !.valid = token]
            = [calls[c] EXCEPT !.at = "sent", !.waited = 0, !.valid = token,
                               !.lifetime = calls[c].lifetime]
      BY <1>1, <1>2 DEF NamedCall
    <2>8. calls' = [calls EXCEPT ![c] = k]
      BY <2>4, <2>6, <2>7
    <2>9. CallFits(k, left)
      BY <2>3, <2>6, NamedConstants DEF CallFits, TokenOfCall, TokenThere
    <2>. QED  BY <1>1, <1>3, <2>6, <2>8, <2>9, NamedGoesOn
  <1>. QED  BY <1>4, <1>5

LEMMA NamedCrashStep ==
  ASSUME NamedInv, Named!Crash
  PROVE  NamedInv'
  <1>1. PICK down : /\ down \in SUBSET Named!DatabaseNames(env)
                    /\ clients' = Named!NewServer(env, down)
    BY DEF Named!Crash
  <1>2. Named!DatabaseNames(env) \subseteq EndpointNames
    <2>1. env.database \in Seq(Named!Setting)
      BY NamedConstants DEF NamedInv, Named!IsEnvironment, Named!Families
    <2>2. Named!Range(env.database) \subseteq Named!Setting
      BY <2>1 DEF Named!Range
    <2>. QED  BY <2>2 DEF Named!DatabaseNames, EndpointNames, Named!Setting
  <1>3. env' = env /\ MadeWithout(down)' /\ down \in SUBSET EndpointNames
    BY <1>1, <1>2 DEF Named!Crash, MadeWithout
  <1>4. (DOMAIN clients.graphql)' = DOMAIN clients.graphql
    <2>1. PICK before \in SUBSET EndpointNames : MadeWithout(before)
      BY DEF NamedInv
    <2>2. clients.graphql = Named!LoadGraphQLClients(env.graphql)
      BY <2>1 DEF MadeWithout, Named!NewServer
    <2>3. clients'.graphql = Named!LoadGraphQLClients(env.graphql)
      BY <1>1 DEF Named!NewServer
    <2>. QED  BY <2>2, <2>3
  <1>5. /\ left' = [n \in DOMAIN clients.graphql |-> 0]
        /\ fresh' = [n \in DOMAIN clients.graphql |-> 0]
        /\ lock' = [n \in DOMAIN clients.graphql |-> Named!Free]
    BY DEF Named!Crash, NamedInv
  <1>6. TokensAge(left, fresh)'
    <2>. PICK zeros : zeros = [n \in DOMAIN clients.graphql |-> 0]
      OBVIOUS
    <2>1. \A n \in DOMAIN clients.graphql : zeros[n] = 0
      OBVIOUS
    <2>2. left' = zeros /\ fresh' = zeros
      BY <1>5
    <2>3. \A n \in DOMAIN clients.graphql : left'[n] = 0 /\ fresh'[n] = 0
      BY <2>1, <2>2
    <2>. QED  BY <1>4, <2>3, NamedConstants DEF TokensAge, Named!Longest
  <1>7. ASSUME NEW c \in Workers
        PROVE  calls'[c] \in NamedCall /\ calls'[c].at \in {"idle", "done"}
    <2>1. calls'[c] = IF Named!At(c, "idle") THEN calls[c] ELSE [at |-> "done", ok |-> FALSE]
      BY <1>7 DEF Named!Crash
    <2>. QED  BY <2>1 DEF Named!At, NamedInv, NamedCall
  <1>8. calls' \in [Workers -> NamedCall]
    <2>1. calls' = [c \in Workers |-> calls'[c]]
      BY DEF Named!Crash
    <2>. QED  BY <1>7, <2>1
  <1>. QED  BY <1>3, <1>4, <1>5, <1>6, <1>7, <1>8 DEF NamedInv

LEMMA LessIs ==
  ASSUME NEW n \in Nat
  PROVE  /\ Named!Less(n) \in Nat /\ Named!Less(n) <= n /\ n <= Named!Less(n) + 1
         /\ \A m \in Nat : m <= n => Named!Less(m) <= Named!Less(n)
  BY DEF Named!Less

(* A call that waits while time passes.                                       *)
LEMMA CallAges ==
  ASSUME NamedInv, NEW c \in Workers, Named!Tick
  PROVE  /\ calls'[c] \in NamedCall
         /\ calls'[c].at \notin {"idle", "done"} => CallFits(calls[c], left)'
  <1>1. UNCHANGED <<env, clients>> /\ calls[c] \in NamedCall
    BY DEF Named!Tick, Named!server, NamedInv
  <1>. DEFINE aged == [calls[c] EXCEPT !.waited = calls[c].waited + 1,
                         !.valid = IF Named!At(c, "issued") THEN Named!Less(calls[c].valid)
                                   ELSE calls[c].valid]
  <1>2. calls'[c] = IF ~Named!Abroad(c) THEN calls[c] ELSE aged
    BY DEF Named!Tick
  <1>3. CASE ~Named!Abroad(c)
    <2>1. calls'[c] = calls[c] /\ calls[c].at \in {"idle", "done", "auth"}
      BY <1>2, <1>3 DEF Named!Tick, Named!At, Named!Held
    <2>2. ASSUME calls[c].at = "auth" PROVE CallFits(calls[c], left)'
      <3>1. CallFits(calls[c], left)
        BY <2>2 DEF NamedInv
      <3>. PICK k : k = calls[c]
        OBVIOUS
      <3>. PICK others : others = left'
        OBVIOUS
      <3>2. CallFits(k, others)
        BY <2>2, <3>1 DEF CallFits, TokenThere, TokenOfCall, SetForIt
      <3>. QED  BY <1>1, <2>1, <3>2, FitsStill
    <2>. QED  BY <1>1, <2>1, <2>2
  <1>4. CASE Named!Abroad(c)
    <2>1. /\ calls[c].at \in {"fetch", "issued", "sent", "pool"}
          /\ calls[c].waited < EndpointTimeout
      BY <1>4 DEF Named!Abroad, Named!Tick, Named!At, Named!Held
    <2>2. /\ calls[c].at \in UnderWayAt /\ CallFits(calls[c], left)
          /\ calls[c].waited \in Nat /\ calls[c].valid \in Nat /\ calls[c].lifetime \in Nat
      BY <2>1, NamedCallsAre DEF UnderWayAt
    <2>3. PICK valid \in Nat :
            valid = IF Named!At(c, "issued") THEN Named!Less(calls[c].valid)
                    ELSE calls[c].valid
      BY <2>2, LessIs
    <2>4. PICK waited \in Nat : waited = calls[c].waited + 1
      BY <2>2
    <2>5. PICK k \in NamedCall :
            /\ k.at = calls[c].at /\ k.family = calls[c].family /\ k.name = calls[c].name
            /\ k.waited = waited /\ k.valid = valid /\ k.lifetime = calls[c].lifetime
            /\ SetForIt(k) /\ (k.family = "graphql" => k.name \in DOMAIN clients.graphql)
            /\ [calls[c] EXCEPT !.at = calls[c].at, !.waited = waited, !.valid = valid,
                                !.lifetime = calls[c].lifetime] = k
      <3>1. CanGoOn(c, calls[c].at, waited, valid, calls[c].lifetime)
        BY <2>2, CallsCanGoOn
      <3>. QED  BY <3>1 DEF CanGoOn
    <2>6. calls'[c] = k
      <3>1. calls'[c] = [calls[c] EXCEPT !.waited = waited, !.valid = valid]
        BY <1>2, <1>4, <2>3, <2>4
      <3>2. [calls[c] EXCEPT !.waited = waited, !.valid = valid]
              = [calls[c] EXCEPT !.at = calls[c].at, !.waited = waited, !.valid = valid,
                                 !.lifetime = calls[c].lifetime]
        BY <1>1, <2>2 DEF NamedCall
      <3>. QED  BY <2>5, <3>1, <3>2
    <2>7. TokenOfCall(k)
      <3>1. ASSUME k.at = "issued" PROVE k.valid = Named!Less(calls[c].valid)
        BY <2>3, <2>5, <3>1 DEF Named!At
      <3>2. /\ Named!Less(calls[c].valid) \in Nat
            /\ Named!Less(calls[c].valid) <= calls[c].valid
            /\ calls[c].valid <= Named!Less(calls[c].valid) + 1
        BY <2>2, LessIs
      <3>. QED  BY <2>2, <2>4, <2>5, <3>1, <3>2, NamedConstants DEF CallFits, TokenOfCall
    <2>8. k.at = "sent" => k.valid = calls[c].valid
      BY <2>3, <2>5 DEF Named!At
    <2>. PICK others : others = left'
      OBVIOUS
    <2>9. CallFits(k, others)
      BY <2>1, <2>2, <2>4, <2>5, <2>7, <2>8, NamedConstants
         DEF CallFits, TokenThere
    <2>. QED  BY <1>1, <2>6, <2>9, FitsStill
  <1>. QED  BY <1>3, <1>4

LEMMA NamedTickStep ==
  ASSUME NamedInv, Named!Tick
  PROVE  NamedInv'
  <1>1. UNCHANGED <<env, clients, lock>>
    BY DEF Named!Tick, Named!server
  <1>2. \A n \in DOMAIN clients.graphql :
          left'[n] = Named!Less(left[n]) /\ fresh'[n] = Named!Less(fresh[n])
    BY DEF Named!Tick, NamedInv
  <1>3. /\ left' \in [DOMAIN clients.graphql -> Nat]
        /\ fresh' \in [DOMAIN clients.graphql -> Nat]
    <2>1. /\ left' = [n \in DOMAIN clients.graphql |-> Named!Less(left[n])]
          /\ fresh' = [n \in DOMAIN clients.graphql |-> Named!Less(fresh[n])]
      BY DEF Named!Tick, NamedInv
    <2>2. \A n \in DOMAIN clients.graphql :
            Named!Less(left[n]) \in Nat /\ Named!Less(fresh[n]) \in Nat
      BY LessIs DEF NamedInv
    <2>. QED  BY <2>1, <2>2
  <1>4. TokensAge(left, fresh)'
    <2>1. ASSUME NEW n \in DOMAIN clients.graphql
          PROVE  /\ Buffer >= EndpointTimeout => fresh'[n] <= left'[n]
                 /\ left'[n] <= Named!Longest /\ fresh'[n] <= Named!Longest
      <3>. PICK l \in Nat, f \in Nat : l = left[n] /\ f = fresh[n]
        BY DEF NamedInv
      <3>1. /\ Buffer >= EndpointTimeout => f <= l
            /\ l <= Named!Longest /\ f <= Named!Longest
        BY DEF NamedInv, TokensAge
      <3>. QED  BY <1>2, <3>1, LessIs, NamedConstants
    <2>. QED  BY <1>1, <2>1 DEF TokensAge, Named!Longest
  <1>5. /\ env' \in Environments
        /\ \E down \in SUBSET EndpointNames : MadeWithout(down)'
    <2>1. PICK down \in SUBSET EndpointNames : MadeWithout(down)
      BY DEF NamedInv
    <2>2. MadeWithout(down)'
      BY <1>1, <2>1 DEF MadeWithout
    <2>. QED  BY <1>1, <2>2 DEF NamedInv
  <1>6. calls' \in [Workers -> NamedCall]
    <2>1. calls' = [c \in Workers |-> calls'[c]]
      BY DEF Named!Tick
    <2>. QED  BY <2>1, CallAges
  <1>7. \A c \in Workers : calls'[c].at \notin {"idle", "done"} => CallFits(calls[c], left)'
    BY CallAges
  <1>8. lock' \in [DOMAIN clients.graphql -> Workers \cup {Named!Free}]
    BY <1>1 DEF NamedInv
  <1>. QED  BY <1>1, <1>3, <1>4, <1>5, <1>6, <1>7, <1>8 DEF NamedInv

LEMMA NamedStart ==
  ASSUME Named!Init
  PROVE  NamedInv
  <1>1. PICK down : down \in SUBSET Named!DatabaseNames(env) /\ MadeWithout(down)
    BY DEF Named!Init, MadeWithout
  <1>2. env \in Environments
    BY DEF Named!Init
  <1>3. Named!DatabaseNames(env) \subseteq EndpointNames
    <2>1. env.database \in Seq(Named!Setting)
      BY <1>2, NamedConstants DEF Named!IsEnvironment, Named!Families
    <2>2. Named!Range(env.database) \subseteq Named!Setting
      BY <2>1 DEF Named!Range
    <2>. QED  BY <2>2 DEF Named!DatabaseNames, EndpointNames, Named!Setting
  <1>4. /\ left = [n \in DOMAIN clients.graphql |-> 0]
        /\ fresh = [n \in DOMAIN clients.graphql |-> 0]
        /\ lock = [n \in DOMAIN clients.graphql |-> Named!Free]
    BY DEF Named!Init
  <1>5. TokensAge(left, fresh)
    <2>1. \A n \in DOMAIN clients.graphql : left[n] = 0 /\ fresh[n] = 0
      BY <1>4
    <2>. QED  BY <2>1, NamedConstants DEF TokensAge
  <1>6. calls \in [Workers -> NamedCall] /\ \A c \in Workers : calls[c].at = "idle"
    BY DEF Named!Init, NamedCall
  <1>. QED  BY <1>1, <1>2, <1>3, <1>4, <1>5, <1>6 DEF NamedInv

LEMMA NamedStands ==
  ASSUME NamedInv, UNCHANGED Named!vars
  PROVE  NamedInv'
  <1>1. UNCHANGED <<env, clients, left, fresh, lock, calls>>
    BY DEF Named!vars, Named!server, Named!tokens
  <1>2. \A down : MadeWithout(down)' <=> MadeWithout(down)
    BY <1>1 DEF MadeWithout
  <1>3. TokensAge(left, fresh)'
    BY <1>1 DEF NamedInv, TokensAge, Named!Longest
  <1>4. ASSUME NEW c \in Workers, calls'[c].at \notin {"idle", "done"}
        PROVE  CallFits(calls[c], left)'
    <2>. PICK k : k = calls[c]
      OBVIOUS
    <2>. PICK others : others = left
      OBVIOUS
    <2>1. CallFits(k, others) /\ calls'[c] = k /\ left' = others
      BY <1>1, <1>4 DEF NamedInv
    <2>. QED  BY <1>1, <2>1, FitsStill
  <1>. QED  BY <1>1, <1>2, <1>3, <1>4 DEF NamedInv

LEMMA NamedStep ==
  ASSUME NamedInv, [Named!Next]_(Named!vars)
  PROVE  NamedInv'
  <1>1. CASE \E c \in Workers, r \in Requested : Named!Call(c, r[1], r[2])
    BY <1>1, NamedCallStep
  <1>2. CASE \E c \in Workers :
               Named!LookAtToken(c) \/ Named!Connect(c) \/ Named!Send(c) \/ Named!Expires(c)
    BY <1>2, LookAtTokenStep, NamedSendStep, NamedEndSteps
  <1>3. CASE \E c \in Workers, t \in Lifetimes : Named!IssueToken(c, t)
    BY <1>3, IssueTokenStep
  <1>4. CASE \E c \in Workers :
               Named!fetchOAuth2Token(c) \/ Named!TokenFails(c) \/ Named!Answer(c)
    BY <1>4, FetchStep, NamedEndSteps
  <1>5. CASE Named!Crash
    BY <1>5, NamedCrashStep
  <1>6. CASE Named!Tick
    BY <1>6, NamedTickStep
  <1>7. CASE UNCHANGED Named!vars
    BY <1>7, NamedStands
  <1>. QED  BY <1>1, <1>2, <1>3, <1>4, <1>5, <1>6, <1>7 DEF Named!Next

LEMMA NamedMove == [Next]_vars => [Named!Next]_(Named!vars)
  BY DEF Next, vars, namedVars, Named!vars, Named!server, Named!tokens

(* The invariant holds of every behaviour of the server.                      *)
THEOREM NamedInvHolds == Spec => []NamedInv
  <1>1. Init => NamedInv
    BY NamedStart DEF Init
  <1>2. NamedInv /\ [Next]_vars => NamedInv'
    BY NamedStep, NamedMove
  <1>. QED  BY <1>1, <1>2, PTL DEF Spec

(* A request goes to a URL that was set for the endpoint it names, and with a *)
(* token that is still accepted, where tokens outlive the request for them    *)
(* and the buffer is no shorter, although calls read the headers without the  *)
(* lock while others refresh them (graphql_oauth2.go:43-122).                 *)
THEOREM RequestsAsConfigured == Spec => []SentAsConfigured
  <1>1. ASSUME NamedInv PROVE SentAsConfigured
    <2>1. ASSUME NEW c \in Workers, Named!At(c, "sent")
          PROVE  /\ SetForIt(calls[c])
                 /\ TokensOutlive /\ Named!ensureAuth(calls[c].family, calls[c].name) =>
                      calls[c].valid > 0
      <3>1. calls[c].at = "sent"
        BY <2>1 DEF Named!At
      <3>2. CallFits(calls[c], left)
        BY <1>1, <3>1 DEF NamedInv
      <3>. QED  BY <3>1, <3>2 DEF CallFits, TokenThere
    <2>. QED  BY <2>1 DEF SentAsConfigured, Named!SentAsConfigured, SetForIt, TokensOutlive
  <1>. QED  BY <1>1, NamedInvHolds, PTL

(* The state of the endpoints has its types: no token counts, or is counted   *)
(* as valid, for longer than the longest that is issued.                      *)
THEOREM NamedTypesHold == Spec => []Named!TypeOK
  <1>1. ASSUME NamedInv PROVE Named!TypeOK
    <2>1. \A f \in Named!Families : DOMAIN clients[f] \subseteq STRING \cup {Named!Default}
      <3>1. PICK down \in SUBSET EndpointNames : MadeWithout(down)
        BY <1>1 DEF NamedInv
      <3>2. env \in Environments
        BY <1>1 DEF NamedInv
      <3>3. ASSUME NEW f \in Named!Families, NEW n \in DOMAIN clients[f]
            PROVE  n \in STRING \cup {Named!Default}
        <4>1. PICK s \in Named!Range(env[f]) : Calls(s, n) /\ s \in Named!Setting
          BY <3>1, <3>2, ClientsAre
        <4>. QED  BY <4>1 DEF Calls, Named!Setting
      <3>. QED  BY <3>3
    <2>2. \A n \in DOMAIN clients.graphql :
            /\ left[n] \in 0..Named!Longest /\ fresh[n] \in 0..Named!Longest
            /\ lock[n] \in Workers \cup {Named!Free}
      BY <1>1, NamedConstants DEF NamedInv, TokensAge
    <2>3. \A c \in Workers :
            calls[c].at \in {"idle", "auth", "fetch", "issued", "pool", "send", "sent", "done"}
      BY <1>1, NamedCallsAre DEF UnderWayAt
    <2>. QED  BY <1>1, <2>1, <2>2, <2>3 DEF NamedInv, Named!TypeOK
  <1>. QED  BY <1>1, NamedInvHolds, PTL

-----------------------------------------------------------------------------
(* Paged reads: the inductive invariant. What was found is always the first   *)
(* of the items AWS has.                                                      *)

FirstItems(n) == [i \in 1..n |-> i]
Sent(ends, page) == IF page = 0 THEN 0 ELSE ends[page]

Kind(op) == Paged!Reads[op]

(* How many of the items are found after so many pages.                       *)
FoundOf(op, limit, ends, page) ==
  IF Kind(op).cut = "page" /\ page > 0 /\ limit < Sent(ends, page) THEN limit
  ELSE Sent(ends, page)

Listing(r) ==
  /\ r = [at |-> "list", op |-> r.op, limit |-> r.limit, source |-> r.source,
          page |-> r.page, found |-> r.found, results |-> r.results, failed |-> r.failed]
  /\ r.op \in DOMAIN Paged!Reads /\ r.limit \in Limits /\ r.source \in Repositories
  /\ r.op \in Paged!PositiveOnly => r.limit > 0
  /\ r.results \in Seq(Seq(Nat)) /\ Len(r.results) + 1 \in DOMAIN r.source
  /\ r.page \in 0..Len(r.source[Len(r.results) + 1])
  /\ Kind(r.op).until = "limit" /\ r.page > 0 => r.limit > 0
  /\ r.found = FirstItems(FoundOf(r.op, r.limit, r.source[Len(r.results) + 1], r.page))
  /\ r.op # "images" => r.results = <<>> /\ r.failed = {} /\ Len(r.source) = 1
  /\ r.failed \subseteq 1..Len(r.results)
  /\ \A q \in DOMAIN r.results :
       r.results[q] = IF q \in r.failed THEN <<>> ELSE Paged!AllItems(r.source[q])

(* What the answer gives of one repository.                                   *)
GivenAs(r, answer, all) ==
  /\ Paged!IsPrefix(answer, all)
  /\ \/ answer = all
     \/ Kind(r.op).until = "first"
     \/ Kind(r.op).until = "limit" /\ Len(answer) >= r.limit
     \/ r.truncated
  /\ Kind(r.op).until = "limit" => answer = <<>> \/ Len(answer) <= r.limit
  /\ Kind(r.op).told /\ answer # all => r.truncated

Told(r) ==
  r.ok => \A q \in DOMAIN r.results :
            IF q \in r.failed THEN r.results[q] = <<>>
            ELSE GivenAs(r, r.results[q], Paged!AllItems(r.source[q]))

(* How far the batches that were asked for reach.                             *)
Upto(k, n) == IF k * Batch < n THEN k * Batch ELSE n

(* How often n is among the first m of the names.                             *)
NamedIn(names, m, n) == Cardinality({i \in 1..m : names[i] = n})

(* Every name that was asked for so far came back, as often as it was.        *)
Describing(r) ==
  /\ r = [at |-> r.at, names |-> r.names, batches |-> r.batches, asked |-> r.asked,
          described |-> r.described, failures |-> r.failures]
  /\ r.names \in Paged!NameLists /\ r.batches = Paged!chunkStrings(r.names, Batch)
  /\ r.asked \in 0..Len(r.batches)
  /\ r.described \in [Described -> Nat] /\ r.failures \in [Described -> Nat]
  /\ \A n \in Described :
       r.described[n] + r.failures[n]
         = NamedIn(r.names, Upto(r.asked, Len(r.names)), n)
  /\ r.at = "described" => r.asked = Len(r.batches)

PagedInv ==
  \/ read = [at |-> "idle"] \/ read.at = "failed"
  \/ read.at = "list" /\ Listing(read)
  \/ read.at = "done" /\ Told(read)
  \/ read.at \in {"describe", "described"} /\ Describing(read)

-----------------------------------------------------------------------------
(* Paged reads: what the loops and the pages are.                             *)

LEMMA KindsAre ==
  ASSUME NEW op \in DOMAIN Paged!Reads
  PROVE  /\ Kind(op).told \in BOOLEAN
         /\ \/ Kind(op).until = "limit" /\ Kind(op).cut = "page" /\ ~Kind(op).told
            \/ Kind(op).until = "limit" /\ Kind(op).cut = "end" /\ op # "log_groups"
            \/ Kind(op).until = "cap" /\ Kind(op).cut = "never"
            \/ Kind(op).until = "end" /\ Kind(op).cut = "never" /\ ~Kind(op).told
            \/ Kind(op).until = "first" /\ Kind(op).cut = "never" /\ ~Kind(op).told
         /\ op = "images" => Kind(op).until = "end"
         /\ Kind(op).cut = "end" => Kind(op).told
         /\ Kind(op).until = "cap" => Kind(op).told
         /\ op # "log_groups" => op \in Paged!PositiveOnly
  <1>1. DOMAIN Paged!Reads =
          {"log_groups", "metrics", "alarms", "alarm_history", "tasks", "clusters", "services",
           "metric_data", "repositories", "images", "log_events", "findings", "roles",
           "policies", "network", "dns"}
    BY DEF Paged!Reads
  <1>2. op # "log_groups" => op \in Paged!PositiveOnly
    BY DEF Paged!PositiveOnly
  <1>3. /\ Kind("log_groups") = Paged!listLogGroups /\ Kind("metrics") = Paged!listMetrics
        /\ Kind("alarms") = Paged!describeAlarms
        /\ Kind("alarm_history") = Paged!describeAlarmHistory
        /\ Kind("tasks") = Paged!ListTasks /\ Kind("clusters") = Paged!ListClusters
        /\ Kind("services") = Paged!ListServices
        /\ Kind("metric_data") = Paged!getMetricData
        /\ Kind("repositories") = Paged!listAllRepositories
        /\ Kind("images") = Paged!scanRepository
        /\ Kind("log_events") = Paged!getLogEvents /\ Kind("findings") = Paged!getScanFindings
        /\ Kind("roles") = Paged!IAMListRoles /\ Kind("policies") = Paged!IAMGetRole
        /\ Kind("network") = Paged!EC2Describe /\ Kind("dns") = Paged!Route53List
    BY DEF Kind, Paged!Reads
  <1>4. CASE op \in {"log_groups", "metrics", "alarms", "alarm_history"}
    <2>1. Kind(op) = Paged!Loop("limit", "page", FALSE)
      BY <1>3, <1>4 DEF Paged!listLogGroups, Paged!listMetrics, Paged!describeAlarms,
                        Paged!describeAlarmHistory
    <2>2. Kind(op).until = "limit" /\ Kind(op).cut = "page"
      BY <2>1 DEF Paged!Loop
    <2>3. Kind(op).told = FALSE
      BY <2>1 DEF Paged!Loop
    <2>. QED  BY <1>2, <1>4, <2>2, <2>3
  <1>5. CASE op = "tasks"
    <2>1. Kind(op) = Paged!Loop("limit", "end", TRUE)
      BY <1>3, <1>5 DEF Paged!ListTasks
    <2>2. Kind(op).until = "limit" /\ Kind(op).cut = "end"
      BY <2>1 DEF Paged!Loop
    <2>3. Kind(op).told = TRUE
      BY <2>1 DEF Paged!Loop
    <2>. QED  BY <1>2, <1>5, <2>2, <2>3
  <1>6. CASE op \in {"clusters", "services"}
    <2>1. Kind(op) = Paged!Loop("cap", "never", TRUE)
      BY <1>3, <1>6 DEF Paged!ListClusters, Paged!ListServices
    <2>2. Kind(op).until = "cap" /\ Kind(op).cut = "never"
      BY <2>1 DEF Paged!Loop
    <2>3. Kind(op).told = TRUE
      BY <2>1 DEF Paged!Loop
    <2>. QED  BY <1>2, <1>6, <2>2, <2>3
  <1>7. CASE op \in {"metric_data", "repositories", "images"}
    <2>1. Kind(op) = Paged!Loop("end", "never", FALSE)
      BY <1>3, <1>7 DEF Paged!getMetricData, Paged!listAllRepositories, Paged!scanRepository
    <2>2. Kind(op).until = "end" /\ Kind(op).cut = "never"
      BY <2>1 DEF Paged!Loop
    <2>3. Kind(op).told = FALSE
      BY <2>1 DEF Paged!Loop
    <2>. QED  BY <1>2, <1>7, <2>2, <2>3
  <1>8. CASE op \in {"log_events", "findings", "roles", "policies", "network", "dns"}
    <2>1. Kind(op) = Paged!Loop("first", "never", FALSE)
      BY <1>3, <1>8 DEF Paged!getLogEvents, Paged!getScanFindings, Paged!IAMListRoles,
                        Paged!IAMGetRole, Paged!EC2Describe, Paged!Route53List
    <2>2. Kind(op).until = "first" /\ Kind(op).cut = "never"
      BY <2>1 DEF Paged!Loop
    <2>3. Kind(op).told = FALSE
      BY <2>1 DEF Paged!Loop
    <2>. QED  BY <1>2, <1>8, <2>2, <2>3
  <1>. QED  BY <1>1, <1>4, <1>5, <1>6, <1>7, <1>8

LEMMA PagedConstants ==
  /\ \A s \in Repositories : s \in Seq(Seq(Nat)) /\ s # <<>>
  /\ \A s \in Repositories : \A q \in DOMAIN s : Paged!IsPages(s[q])
  /\ \A l \in Limits : l \in Int
  /\ PageCap \in Nat \ {0} /\ Batch \in Nat \ {0}
  BY PartsAssumption DEF Paged!ConstantsOK

(* The ends of pages rise, and the last one is where the items end.           *)
LEMMA PagesAre ==
  ASSUME NEW ends, Paged!IsPages(ends)
  PROVE  /\ ends \in Seq(Nat) /\ Len(ends) \in Nat /\ Len(ends) > 0
         /\ \A p \in 0..Len(ends) : Sent(ends, p) \in Nat
         /\ \A p \in 1..Len(ends) : Sent(ends, p - 1) <= Sent(ends, p)
         /\ Paged!AllItems(ends) = FirstItems(Sent(ends, Len(ends)))
         /\ \A p \in 0..Len(ends) : Sent(ends, p) <= Sent(ends, Len(ends))
  BY DEF Paged!IsPages, Sent, Paged!AllItems, FirstItems

LEMMA FirstIs ==
  ASSUME NEW n \in Nat
  PROVE  FirstItems(n) \in Seq(Nat) /\ Len(FirstItems(n)) = n /\ FirstItems(0) = <<>>
  BY DEF FirstItems

(* The items of a page follow those of the pages before it.                   *)
LEMMA ItemsFollow ==
  ASSUME NEW ends, Paged!IsPages(ends), NEW p \in 1..Len(ends)
  PROVE  FirstItems(Sent(ends, p - 1)) \o Paged!Items(ends, p) = FirstItems(Sent(ends, p))
  <1>. PICK m \in Nat, n \in Nat : m = Sent(ends, p - 1) /\ n = Sent(ends, p) /\ m <= n
    BY PagesAre
  <1>1. Paged!Items(ends, p) = [i \in 1..(n - m) |-> m + i]
    <2>1. Paged!Before(ends, p) = m
      BY DEF Sent, Paged!Before, Paged!IsPages
    <2>2. ends[p] = n
      BY DEF Sent, Paged!IsPages
    <2>. QED  BY <2>1, <2>2 DEF Paged!Items
  <1>. PICK k \in Nat : k = n - m
    OBVIOUS
  <1>. DEFINE s == FirstItems(m)
              t == [i \in 1..k |-> m + i]
  <1>2. s \in Seq(Nat) /\ Len(s) = m
    BY FirstIs
  <1>3. \A i \in 1..m : s[i] = i
    BY DEF FirstItems
  <1>4. t \in Seq(Nat) /\ Len(t) = k
    OBVIOUS
  <1>5. \A i \in 1..k : t[i] = m + i
    OBVIOUS
  <1>6. FirstItems(n) \in Seq(Nat) /\ Len(FirstItems(n)) = n
    BY FirstIs
  <1>7. \A i \in 1..n : FirstItems(n)[i] = i
    BY DEF FirstItems
  <1>. HIDE DEF s, t
  <1>8. /\ s \o t \in Seq(Nat) /\ Len(s \o t) = Len(s) + Len(t)
        /\ \A i \in 1 .. Len(s) + Len(t) :
             (s \o t)[i] = IF i <= Len(s) THEN s[i] ELSE t[i - Len(s)]
    BY <1>2, <1>4, ConcatProperties, Zenon
  <1>. DEFINE u == s \o t
  <1>. HIDE DEF u
  <1>9. u \in Seq(Nat) /\ Len(u) = n /\ \A i \in 1..n : u[i] = i
    <2>1. /\ u \in Seq(Nat) /\ Len(u) = Len(s) + Len(t)
          /\ \A i \in 1 .. Len(s) + Len(t) : u[i] = IF i <= Len(s) THEN s[i] ELSE t[i - Len(s)]
      BY <1>8 DEF u
    <2>2. Len(s) + Len(t) = n
      BY <1>2, <1>4
    <2>3. ASSUME NEW i \in 1..n PROVE u[i] = i
      <3>1. u[i] = IF i <= m THEN s[i] ELSE t[i - m]
        BY <1>2, <2>1, <2>2
      <3>. QED  BY <1>3, <1>5, <3>1
    <2>. QED  BY <2>1, <2>2, <2>3
  <1>10. u = FirstItems(n)
    BY <1>6, <1>7, <1>9, SeqEqual
  <1>. QED  BY <1>1, <1>10 DEF s, t, u

(* What is cut off leaves the first items.                                    *)
LEMMA CutIs ==
  ASSUME NEW n \in Nat, NEW l \in Nat, l <= n
  PROVE  /\ SubSeq(FirstItems(n), 1, l) = FirstItems(l)
         /\ Paged!IsPrefix(FirstItems(l), FirstItems(n))
  <1>1. /\ FirstItems(n) \in Seq(Nat) /\ Len(FirstItems(n)) = n /\ FirstItems(l) \in Seq(Nat)
        /\ Len(FirstItems(l)) = l
    BY FirstIs
  <1>2. SubSeq(FirstItems(n), 1, l) = FirstItems(l)
    BY DEF FirstItems
  <1>3. SubSeq(FirstItems(l), 1, l) = FirstItems(l)
    BY DEF FirstItems
  <1>. QED  BY <1>1, <1>2, <1>3 DEF Paged!IsPrefix

-----------------------------------------------------------------------------
(* Paged reads: the steps of a list.                                          *)

LEMMA ListingIs ==
  ASSUME NEW r, Listing(r), NEW pages, pages = r.source[Len(r.results) + 1],
         NEW n, n = FoundOf(r.op, r.limit, pages, r.page)
  PROVE  /\ r.op \in DOMAIN Paged!Reads /\ r.limit \in Int /\ Paged!IsPages(pages)
         /\ Len(pages) \in Nat /\ Len(pages) > 0 /\ r.page \in 0..Len(pages)
         /\ \A p \in 0..Len(pages) : Sent(pages, p) \in Nat
         /\ n \in Nat /\ n <= Sent(pages, r.page)
         /\ r.found = FirstItems(n) /\ Len(r.found) = n
         /\ n < Sent(pages, r.page) => Kind(r.op).until = "limit" /\ n = r.limit
         /\ r.op \in Paged!PositiveOnly => r.limit > 0
         /\ Kind(r.op).until = "limit" /\ r.page > 0 => r.limit > 0
  <1>1. /\ r.op \in DOMAIN Paged!Reads /\ r.limit \in Int /\ Paged!IsPages(pages)
        /\ r.page \in 0..Len(pages) /\ r.found = FirstItems(n)
        /\ r.op \in Paged!PositiveOnly => r.limit > 0
        /\ Kind(r.op).until = "limit" /\ r.page > 0 => r.limit > 0
    BY PagedConstants DEF Listing
  <1>2. /\ Len(pages) \in Nat /\ Len(pages) > 0
        /\ \A p \in 0..Len(pages) : Sent(pages, p) \in Nat
    BY <1>1, PagesAre
  <1>3. Kind(r.op).cut = "page" => Kind(r.op).until = "limit"
    BY <1>1, KindsAre
  <1>4. /\ n \in Nat /\ n <= Sent(pages, r.page)
        /\ n < Sent(pages, r.page) => Kind(r.op).until = "limit" /\ n = r.limit
    BY <1>1, <1>2, <1>3 DEF FoundOf
  <1>. QED  BY <1>1, <1>2, <1>4, FirstIs

LEMMA ListStep ==
  ASSUME PagedInv, NEW op \in DOMAIN Paged!Reads, NEW limit \in Limits,
         NEW source \in Repositories, Paged!List(op, limit, source)
  PROVE  PagedInv'
  <1>. DEFINE r == [at |-> "list", op |-> op, limit |-> limit, source |-> source, page |-> 0,
                    found |-> <<>>, results |-> <<>>, failed |-> {}]
  <1>1. read' = r /\ (op \in Paged!PositiveOnly => limit > 0)
        /\ (op # "images" => Len(source) <= 1)
    BY DEF Paged!List
  <1>2. /\ r.op = op /\ r.limit = limit /\ r.source = source /\ r.page = 0 /\ r.found = <<>>
        /\ r.results = <<>> /\ r.failed = {} /\ r.at = "list"
        /\ r = [at |-> "list", op |-> r.op, limit |-> r.limit, source |-> r.source,
                page |-> r.page, found |-> r.found, results |-> r.results,
                failed |-> r.failed]
    OBVIOUS
  <1>. HIDE DEF r
  <1>3. /\ source \in Seq(Seq(Nat)) /\ source # <<>> /\ Paged!IsPages(source[1])
        /\ 1 \in DOMAIN source /\ Len(source) >= 1
    BY PagedConstants
  <1>4. FoundOf(op, limit, source[1], 0) = 0 /\ 0 \in 0..Len(source[1])
    BY <1>3, PagesAre DEF FoundOf, Sent
  <1>5. /\ <<>> \in Seq(Seq(Nat)) /\ Len(<<>>) = 0 /\ FirstItems(0) = <<>>
        /\ {} \subseteq 1..0
    BY FirstIs
  <1>6. Len(r.results) + 1 = 1
    BY <1>2, <1>5
  <1>7. /\ r.results \in Seq(Seq(Nat)) /\ Len(r.results) + 1 \in DOMAIN r.source
        /\ r.page \in 0..Len(r.source[Len(r.results) + 1])
        /\ r.found = FirstItems(FoundOf(r.op, r.limit, r.source[Len(r.results) + 1], r.page))
    BY <1>2, <1>3, <1>4, <1>5, <1>6
  <1>8. r.op # "images" => Len(r.source) = 1
    <2>. PICK n \in Nat : n = Len(source)
      BY <1>3
    <2>1. op # "images" => n = 1
      BY <1>1, <1>3
    <2>. QED  BY <1>2, <2>1
  <1>9. Listing(r)
    BY <1>1, <1>2, <1>7, <1>8 DEF Listing
  <1>. QED  BY <1>1, <1>2, <1>9 DEF PagedInv

(* A read only asks for a page there is, and only while nothing was cut off.  *)
LEMMA GoesIs ==
  ASSUME Listing(read), Paged!Goes, NEW pages, pages = read.source[Len(read.results) + 1]
  PROVE  /\ read.page + 1 \in 1..Len(pages)
         /\ read.found = FirstItems(Sent(pages, read.page))
         /\ Kind(read.op).until = "limit" => read.limit > 0
  <1>. PICK n : n = FoundOf(read.op, read.limit, pages, read.page)
    OBVIOUS
  <1>1. /\ read.op \in DOMAIN Paged!Reads /\ read.limit \in Int
        /\ Len(pages) \in Nat /\ Len(pages) > 0 /\ read.page \in 0..Len(pages)
        /\ Sent(pages, read.page) \in Nat /\ n \in Nat /\ n <= Sent(pages, read.page)
        /\ read.found = FirstItems(n) /\ Len(read.found) = n
        /\ n < Sent(pages, read.page) => Kind(read.op).until = "limit" /\ n = read.limit
    BY ListingIs
  <1>2. /\ Kind(read.op).until = "limit" => read.page < Len(pages) /\ n < read.limit
        /\ Kind(read.op).until = "cap" => read.page < Len(pages)
        /\ Kind(read.op).until = "end" => read.page < Len(pages)
        /\ Kind(read.op).until = "first" => read.page = 0
    BY <1>1 DEF Paged!Goes, Paged!HasMorePages, Paged!Pages, Paged!Repository, Kind
  <1>3. Kind(read.op).until \in {"limit", "cap", "end", "first"}
    BY <1>1, KindsAre
  <1>4. read.page + 1 \in 1..Len(pages)
    BY <1>1, <1>2, <1>3
  <1>5. n = Sent(pages, read.page)
    BY <1>1, <1>2
  <1>. QED  BY <1>1, <1>2, <1>4, <1>5

(* A read that goes on, in the same repository or in the next one.            *)
Turned(r, page, found) == [r EXCEPT !.page = page, !.found = found]
NextOne(r, page, found, results, failed) ==
  [r EXCEPT !.page = page, !.found = found, !.results = results, !.failed = failed]

LEMMA ListingTurns ==
  ASSUME NEW r, Listing(r), NEW page, NEW found
  PROVE  Turned(r, page, found)
           = [at |-> "list", op |-> r.op, limit |-> r.limit, source |-> r.source,
              page |-> page, found |-> found, results |-> r.results, failed |-> r.failed]
  <1>1. r \in [at : {"list"}, op : {r.op}, limit : {r.limit}, source : {r.source},
               page : {r.page}, found : {r.found}, results : {r.results}, failed : {r.failed}]
    BY DEF Listing
  <1>. DEFINE e == [r EXCEPT !.page = page, !.found = found]
  <1>2. e \in [at : {"list"}, op : {r.op}, limit : {r.limit}, source : {r.source},
               page : {page}, found : {found}, results : {r.results}, failed : {r.failed}]
    BY <1>1
  <1>. HIDE DEF e
  <1>3. e = [at |-> "list", op |-> r.op, limit |-> r.limit, source |-> r.source,
             page |-> page, found |-> found, results |-> r.results, failed |-> r.failed]
    BY <1>2
  <1>. QED  BY <1>3 DEF e, Turned

LEMMA ListingGoesOn ==
  ASSUME NEW r, Listing(r), NEW page, NEW found, NEW results, NEW failed
  PROVE  NextOne(r, page, found, results, failed)
           = [at |-> "list", op |-> r.op, limit |-> r.limit, source |-> r.source,
              page |-> page, found |-> found, results |-> results, failed |-> failed]
  <1>1. r \in [at : {"list"}, op : {r.op}, limit : {r.limit}, source : {r.source},
               page : {r.page}, found : {r.found}, results : {r.results}, failed : {r.failed}]
    BY DEF Listing
  <1>. DEFINE e == [r EXCEPT !.page = page, !.found = found, !.results = results,
                             !.failed = failed]
  <1>2. e \in [at : {"list"}, op : {r.op}, limit : {r.limit}, source : {r.source},
               page : {page}, found : {found}, results : {results}, failed : {failed}]
    BY <1>1
  <1>. HIDE DEF e
  <1>3. e = [at |-> "list", op |-> r.op, limit |-> r.limit, source |-> r.source,
             page |-> page, found |-> found, results |-> results, failed |-> failed]
    BY <1>2
  <1>. QED  BY <1>3 DEF e, NextOne

LEMMA NextPageStep ==
  ASSUME PagedInv, Paged!NextPage
  PROVE  PagedInv'
  <1>. PICK pages : pages = read.source[Len(read.results) + 1]
    OBVIOUS
  <1>1. Listing(read) /\ Paged!Goes /\ read.at = "list"
    BY DEF Paged!NextPage, PagedInv
  <1>. PICK p \in Nat : p = read.page + 1 /\ read.page = p - 1
    BY <1>1, ListingIs
  <1>2. /\ p \in 1..Len(pages) /\ read.page = p - 1
        /\ read.found = FirstItems(Sent(pages, p - 1))
        /\ Kind(read.op).until = "limit" => read.limit > 0
    BY <1>1, GoesIs
  <1>3. /\ Paged!IsPages(pages) /\ Sent(pages, p) \in Nat /\ read.op \in DOMAIN Paged!Reads
        /\ read.limit \in Int /\ p \in 0..Len(pages)
    BY <1>1, <1>2, ListingIs
  <1>. PICK found : found = Paged!Cut("page", FirstItems(Sent(pages, p)))
    OBVIOUS
  <1>4. found = FirstItems(FoundOf(read.op, read.limit, pages, p))
    <2>1. Len(FirstItems(Sent(pages, p))) = Sent(pages, p)
      BY <1>3, FirstIs
    <2>2. Kind(read.op).cut = "page" => read.limit > 0
      BY <1>2, <1>3, KindsAre
    <2>3. CASE Kind(read.op).cut = "page" /\ read.limit < Sent(pages, p)
      <3>1. SubSeq(FirstItems(Sent(pages, p)), 1, read.limit) = FirstItems(read.limit)
        <4>1. Sent(pages, p) \in Nat /\ read.limit \in Nat /\ read.limit <= Sent(pages, p)
          BY <1>3, <2>2, <2>3
        <4>2. \A n, l \in Nat : l <= n => SubSeq(FirstItems(n), 1, l) = FirstItems(l)
          BY CutIs
        <4>. QED  BY <4>1, <4>2, Zenon
      <3>2. FoundOf(read.op, read.limit, pages, p) = read.limit
        BY <1>2, <2>3 DEF FoundOf
      <3>3. found = SubSeq(FirstItems(Sent(pages, p)), 1, read.limit)
        BY <2>1, <2>3 DEF Paged!Cut, Kind
      <3>. QED  BY <3>1, <3>2, <3>3
    <2>4. CASE ~(Kind(read.op).cut = "page" /\ read.limit < Sent(pages, p))
      BY <2>1, <2>4 DEF Paged!Cut, FoundOf, Kind
    <2>. QED  BY <2>3, <2>4
  <1>5. read' = Turned(read, p, found)
    <2>1. read.found \o Paged!Items(pages, p) = FirstItems(Sent(pages, p))
      BY <1>2, <1>3, ItemsFollow
    <2>. QED  BY <2>1 DEF Paged!NextPage, Paged!Pages, Paged!Repository, Turned
  <1>. PICK r : r = [at |-> "list", op |-> read.op, limit |-> read.limit,
                     source |-> read.source, page |-> p, found |-> found,
                     results |-> read.results, failed |-> read.failed]
    OBVIOUS
  <1>6. /\ r.op = read.op /\ r.limit = read.limit /\ r.source = read.source /\ r.page = p
        /\ r.found = found /\ r.results = read.results /\ r.failed = read.failed
        /\ r.at = "list"
        /\ r = [at |-> "list", op |-> r.op, limit |-> r.limit, source |-> r.source,
                page |-> r.page, found |-> r.found, results |-> r.results,
                failed |-> r.failed]
    OBVIOUS
  <1>7. read' = r
    BY <1>1, <1>5, ListingTurns
  <1>8. Listing(r)
    BY <1>1, <1>2, <1>3, <1>4, <1>6 DEF Listing
  <1>. QED  BY <1>6, <1>7, <1>8 DEF PagedInv

(* What a read gives that has come to its end.                                *)
LEMMA ReadGives ==
  ASSUME Listing(read), ~Paged!Goes, NEW pages, pages = read.source[Len(read.results) + 1],
         NEW answer, answer = Paged!Cut("end", read.found), NEW all,
         all = Paged!AllItems(pages)
  PROVE  /\ answer \in Seq(Nat) /\ Paged!IsPrefix(answer, all)
         /\ \/ answer = all
            \/ Kind(read.op).until = "first"
            \/ Kind(read.op).until = "limit" /\ Len(answer) >= read.limit
            \/ Paged!Truncated
         /\ Kind(read.op).until = "limit" => answer = <<>> \/ Len(answer) <= read.limit
         /\ Kind(read.op).told /\ answer # all => Paged!Truncated
         /\ read.op = "images" => answer = all
  <1>. PICK n : n = FoundOf(read.op, read.limit, pages, read.page)
    OBVIOUS
  <1>1. /\ read.op \in DOMAIN Paged!Reads /\ read.limit \in Int /\ Paged!IsPages(pages)
        /\ Len(pages) \in Nat /\ Len(pages) > 0 /\ read.page \in 0..Len(pages)
        /\ Sent(pages, read.page) \in Nat /\ Sent(pages, Len(pages)) \in Nat
        /\ n \in Nat /\ n <= Sent(pages, read.page)
        /\ read.found = FirstItems(n) /\ Len(read.found) = n
        /\ n < Sent(pages, read.page) => Kind(read.op).until = "limit" /\ n = read.limit
        /\ read.op \in Paged!PositiveOnly => read.limit > 0
        /\ Kind(read.op).until = "limit" /\ read.page > 0 => read.limit > 0
    BY ListingIs
  <1>. PICK last \in Nat : last = Sent(pages, Len(pages))
    BY <1>1
  <1>2. n <= last /\ all = FirstItems(last) /\ (read.page = Len(pages) => Sent(pages, read.page) = last)
    BY <1>1, PagesAre
  <1>3. /\ Kind(read.op).until = "limit" => ~(read.page < Len(pages)) \/ ~(n < read.limit)
        /\ Kind(read.op).until = "end" => ~(read.page < Len(pages))
        /\ Paged!HasMorePages <=> read.page < Len(pages)
    BY <1>1 DEF Paged!Goes, Paged!HasMorePages, Paged!Pages, Paged!Repository, Kind
  <1>4. Paged!Truncated
          <=> Kind(read.op).told /\ (Paged!HasMorePages \/ answer # read.found)
    BY DEF Paged!Truncated, Kind
  <1>5. FirstItems(n) \in Seq(Nat) /\ Len(FirstItems(n)) = n
    BY <1>1, FirstIs
  <1>6. CASE Kind(read.op).cut = "end" /\ read.limit < n
    <2>1. /\ Kind(read.op).until = "limit" /\ read.limit > 0 /\ read.limit \in Nat
          /\ read.op # "images" /\ Kind(read.op).told
      BY <1>1, <1>6, KindsAre
    <2>2. answer = FirstItems(read.limit)
      <3>1. answer = SubSeq(FirstItems(n), 1, read.limit)
        BY <1>1, <1>6 DEF Paged!Cut, Kind
      <3>2. read.limit \in Nat /\ n \in Nat /\ read.limit <= n
        BY <1>1, <1>6, <2>1
      <3>3. SubSeq(FirstItems(n), 1, read.limit) = FirstItems(read.limit)
        BY <3>2, CutIs
      <3>. QED  BY <3>1, <3>3
    <2>3. answer \in Seq(Nat) /\ Len(answer) = read.limit
      BY <2>1, <2>2, FirstIs
    <2>4. Paged!IsPrefix(answer, all)
      BY <1>1, <1>2, <1>6, <2>1, <2>2, CutIs
    <2>5. answer # read.found
      BY <1>1, <1>6, <2>3
    <2>. QED  BY <1>1, <1>4, <2>1, <2>3, <2>4, <2>5
  <1>7. CASE ~(Kind(read.op).cut = "end" /\ read.limit < n)
    <2>1. answer = FirstItems(n)
      BY <1>1, <1>7 DEF Paged!Cut, Kind
    <2>2. answer \in Seq(Nat) /\ Len(answer) = n /\ Paged!IsPrefix(answer, all)
      BY <1>1, <1>2, <1>5, <2>1, CutIs
    <2>3. ASSUME ~(read.page < Len(pages)), n = Sent(pages, read.page)
          PROVE  answer = all
      BY <1>1, <1>2, <2>1, <2>3
    <2>4. CASE Kind(read.op).until = "limit" /\ Kind(read.op).cut = "page" /\ ~Kind(read.op).told
      <3>1. answer = all \/ n >= read.limit
        BY <1>1, <1>3, <2>3, <2>4
      <3>2. answer = <<>> \/ n <= read.limit
        <4>1. CASE read.page = 0
          <5>1. n = 0
            BY <4>1 DEF FoundOf, Sent
          <5>. QED  BY <2>1, <5>1, FirstIs
        <4>2. CASE read.page > 0
          BY <1>1, <2>4, <4>2 DEF FoundOf
        <4>. QED  BY <1>1, <4>1, <4>2
      <3>3. read.op # "images"
        BY <1>1, <2>4, KindsAre
      <3>. QED  BY <1>1, <2>2, <2>4, <3>1, <3>2, <3>3
    <2>5. CASE Kind(read.op).until = "limit" /\ Kind(read.op).cut = "end"
      <3>1. read.op # "images" /\ n = Sent(pages, read.page)
        <4>1. FoundOf(read.op, read.limit, pages, read.page) = Sent(pages, read.page)
          BY <2>5 DEF FoundOf
        <4>. QED  BY <1>1, <2>5, <4>1, KindsAre
      <3>2. n <= read.limit
        BY <1>1, <1>7, <2>5
      <3>3. Kind(read.op).told
        BY <1>1, <2>5, KindsAre
      <3>4. answer = all \/ Paged!Truncated
        BY <1>1, <1>3, <1>4, <2>3, <3>1, <3>3
      <3>. QED  BY <1>1, <2>2, <2>5, <3>1, <3>2, <3>4
    <2>6. CASE Kind(read.op).until = "cap"
      <3>1. n = Sent(pages, read.page) /\ Kind(read.op).told /\ read.op # "images"
        BY <1>1, <2>6, KindsAre
      <3>2. answer = all \/ Paged!Truncated
        BY <1>1, <1>3, <1>4, <2>3, <3>1
      <3>. QED  BY <2>2, <2>6, <3>1, <3>2
    <2>7. CASE Kind(read.op).until = "end"
      <3>1. n = Sent(pages, read.page)
        BY <1>1, <2>7
      <3>2. answer = all
        BY <1>1, <1>3, <2>3, <2>7, <3>1
      <3>. QED  BY <2>2, <2>7, <3>2
    <2>8. CASE Kind(read.op).until = "first" /\ ~Kind(read.op).told
      <3>1. read.op # "images"
        BY <1>1, <2>8, KindsAre
      <3>. QED  BY <2>2, <2>8, <3>1
    <2>. QED  BY <1>1, <2>4, <2>5, <2>6, <2>7, <2>8, KindsAre
  <1>. QED  BY <1>6, <1>7

(* The next repository of the images, or the end of the read.                 *)
LEMMA NextRepositoryStep ==
  ASSUME Listing(read), read.op = "images", NEW results \in Seq(Seq(Nat)),
         Len(results) = Len(read.results) + 1, NEW failed, failed \subseteq 1..Len(results),
         \A q \in 1..Len(results) :
           results[q] = IF q \in failed THEN <<>> ELSE Paged!AllItems(read.source[q]),
         Paged!NextRepository(results, failed)
  PROVE  PagedInv'
  <1>1. /\ read.source \in Repositories /\ read.limit \in Limits /\ read.op \in DOMAIN Paged!Reads
        /\ Len(read.results) + 1 \in DOMAIN read.source
        /\ read.op \in Paged!PositiveOnly => read.limit > 0
    BY DEF Listing
  <1>2. read.source \in Seq(Seq(Nat)) /\ \A q \in DOMAIN read.source : Paged!IsPages(read.source[q])
    BY <1>1, PagedConstants
  <1>3. CASE Len(results) < Len(read.source)
    <2>. PICK r : r = [at |-> "list", op |-> read.op, limit |-> read.limit,
                       source |-> read.source, page |-> 0, found |-> <<>>,
                       results |-> results, failed |-> failed]
      OBVIOUS
    <2>1. /\ r.op = read.op /\ r.limit = read.limit /\ r.source = read.source /\ r.page = 0
          /\ r.found = <<>> /\ r.results = results /\ r.failed = failed /\ r.at = "list"
          /\ r = [at |-> "list", op |-> r.op, limit |-> r.limit, source |-> r.source,
                  page |-> r.page, found |-> r.found, results |-> r.results,
                  failed |-> r.failed]
      OBVIOUS
    <2>2. read' = r
      <3>1. read' = NextOne(read, 0, <<>>, results, failed)
        BY <1>3 DEF Paged!NextRepository, Paged!Repository, NextOne
      <3>. QED  BY <3>1, ListingGoesOn
    <2>3. Len(results) + 1 \in DOMAIN read.source
      BY <1>2, <1>3
    <2>. PICK pages : pages = read.source[Len(results) + 1]
      OBVIOUS
    <2>4. FoundOf(read.op, read.limit, pages, 0) = 0 /\ 0 \in 0..Len(pages)
      <3>1. Paged!IsPages(pages)
        BY <1>2, <2>3
      <3>. QED  BY <3>1, PagesAre DEF FoundOf, Sent
    <2>5. r.found = FirstItems(FoundOf(r.op, r.limit, r.source[Len(r.results) + 1], r.page))
      BY <2>1, <2>4, FirstIs
    <2>6. Listing(r)
      BY <1>1, <2>1, <2>3, <2>4, <2>5 DEF Listing
    <2>. QED  BY <2>1, <2>2, <2>6 DEF PagedInv
  <1>4. CASE ~(Len(results) < Len(read.source))
    <2>. PICK r : r = [at |-> "done", op |-> read.op, limit |-> read.limit,
                       source |-> read.source, results |-> results, failed |-> failed,
                       ok |-> TRUE, truncated |-> FALSE]
      OBVIOUS
    <2>1. /\ r.at = "done" /\ r.op = "images" /\ r.source = read.source
          /\ r.results = results /\ r.failed = failed
      OBVIOUS
    <2>2. read' = r
      BY <1>4 DEF Paged!NextRepository, Paged!Repository, Paged!EndOf
    <2>3. ASSUME NEW q \in 1..Len(results), q \notin failed
          PROVE  GivenAs(r, results[q], Paged!AllItems(read.source[q]))
      <3>. PICK all : all = Paged!AllItems(read.source[q])
        OBVIOUS
      <3>1. results[q] = all
        BY <2>3
      <3>2. q \in DOMAIN read.source
        BY <1>1, <1>2
      <3>3. PICK last \in Nat : all = FirstItems(last)
        <4>. PICK pages : pages = read.source[q] /\ Paged!IsPages(pages)
          BY <1>2, <3>2
        <4>1. Len(pages) \in 0..Len(pages)
          BY PagesAre
        <4>. QED  BY <4>1, PagesAre
      <3>4. Paged!IsPrefix(all, all)
        BY <3>3, CutIs
      <3>5. Kind("images").until = "end" /\ ~Kind("images").told
        BY <1>1, KindsAre
      <3>. QED  BY <2>1, <3>1, <3>4, <3>5 DEF GivenAs
    <2>4. DOMAIN r.results = 1..Len(results)
      BY <2>1
    <2>5. Told(r)
      BY <2>1, <2>3, <2>4 DEF Told
    <2>. QED  BY <2>1, <2>2, <2>5 DEF PagedInv
  <1>. QED  BY <1>3, <1>4

LEMMA PageFailsStep ==
  ASSUME PagedInv, Paged!PageFails
  PROVE  PagedInv'
  <1>1. Listing(read)
    BY DEF PagedInv, Paged!PageFails
  <1>2. CASE read.op = "images"
    <2>. PICK results : results = Append(read.results, <<>>)
      OBVIOUS
    <2>. PICK failed : failed = read.failed \cup {Len(read.results) + 1}
      OBVIOUS
    <2>1. read.results \in Seq(Seq(Nat)) /\ read.failed \subseteq 1..Len(read.results)
      BY <1>1 DEF Listing
    <2>2. \A q \in 1..Len(read.results) :
            read.results[q] = IF q \in read.failed THEN <<>> ELSE Paged!AllItems(read.source[q])
      BY <1>1, <2>1 DEF Listing
    <2>3. results \in Seq(Seq(Nat)) /\ Len(results) = Len(read.results) + 1
      BY <2>1
    <2>4. failed \subseteq 1..Len(results)
      BY <2>1, <2>3
    <2>5. ASSUME NEW q \in 1..Len(results)
          PROVE  results[q] = IF q \in failed THEN <<>> ELSE Paged!AllItems(read.source[q])
      <3>1. CASE q = Len(read.results) + 1
        BY <2>1, <3>1
      <3>2. CASE q # Len(read.results) + 1
        <4>1. q \in 1..Len(read.results) /\ (q \in failed <=> q \in read.failed)
          BY <2>1, <2>3, <3>2
        <4>2. results[q] = read.results[q]
          BY <2>1, <4>1
        <4>. QED  BY <2>2, <4>1, <4>2
      <3>. QED  BY <3>1, <3>2
    <2>6. Paged!NextRepository(results, failed)
      BY <1>2 DEF Paged!PageFails, Paged!Repository
    <2>. QED  BY <1>1, <1>2, <2>3, <2>4, <2>5, <2>6, NextRepositoryStep
  <1>3. CASE read.op # "images"
    <2>. PICK r : r = [at |-> "done", op |-> read.op, limit |-> read.limit,
                       source |-> read.source, results |-> <<>>,
                       failed |-> {Len(read.results) + 1}, ok |-> FALSE, truncated |-> FALSE]
      OBVIOUS
    <2>1. r.at = "done" /\ ~r.ok
      OBVIOUS
    <2>2. read' = r
      BY <1>3 DEF Paged!PageFails, Paged!EndOf, Paged!Repository
    <2>3. Told(r)
      BY <2>1 DEF Told
    <2>. QED  BY <2>1, <2>2, <2>3 DEF PagedInv
  <1>. QED  BY <1>2, <1>3

LEMMA EndListStep ==
  ASSUME PagedInv, Paged!EndList
  PROVE  PagedInv'
  <1>1. Listing(read) /\ ~Paged!Goes
    BY DEF PagedInv, Paged!EndList
  <1>. PICK pages : pages = read.source[Len(read.results) + 1]
    OBVIOUS
  <1>. PICK answer : answer = Paged!Cut("end", read.found)
    OBVIOUS
  <1>. PICK all : all = Paged!AllItems(pages)
    OBVIOUS
  <1>2. /\ answer \in Seq(Nat) /\ Paged!IsPrefix(answer, all)
        /\ \/ answer = all
           \/ Kind(read.op).until = "first"
           \/ Kind(read.op).until = "limit" /\ Len(answer) >= read.limit
           \/ Paged!Truncated
        /\ Kind(read.op).until = "limit" => answer = <<>> \/ Len(answer) <= read.limit
        /\ Kind(read.op).told /\ answer # all => Paged!Truncated
        /\ read.op = "images" => answer = all
    BY <1>1, ReadGives
  <1>. PICK results : results = Append(read.results, answer)
    OBVIOUS
  <1>3. read.results \in Seq(Seq(Nat)) /\ read.failed \subseteq 1..Len(read.results)
    BY <1>1 DEF Listing
  <1>4. results \in Seq(Seq(Nat)) /\ Len(results) = Len(read.results) + 1
    BY <1>2, <1>3
  <1>5. CASE read.op = "images"
    <2>1. \A q \in 1..Len(read.results) :
            read.results[q] = IF q \in read.failed THEN <<>> ELSE Paged!AllItems(read.source[q])
      BY <1>1, <1>3 DEF Listing
    <2>2. ASSUME NEW q \in 1..Len(results)
          PROVE  results[q] = IF q \in read.failed THEN <<>>
                              ELSE Paged!AllItems(read.source[q])
      <3>1. CASE q = Len(read.results) + 1
        BY <1>2, <1>3, <1>5, <3>1
      <3>2. CASE q # Len(read.results) + 1
        <4>1. q \in 1..Len(read.results)
          BY <1>3, <1>4, <3>2
        <4>2. results[q] = read.results[q]
          BY <1>3, <4>1
        <4>. QED  BY <2>1, <4>1, <4>2
      <3>. QED  BY <3>1, <3>2
    <2>3. read.failed \subseteq 1..Len(results)
      BY <1>3, <1>4
    <2>4. Paged!NextRepository(results, read.failed)
      BY <1>5 DEF Paged!EndList
    <2>. QED  BY <1>1, <1>4, <1>5, <2>2, <2>3, <2>4, NextRepositoryStep
  <1>6. CASE read.op # "images"
    <2>1. read.results = <<>> /\ results = <<answer>> /\ pages = read.source[1]
      <3>1. read.results = <<>>
        BY <1>1, <1>6 DEF Listing
      <3>2. Append(<<>>, answer) = <<answer>> /\ Len(<<>>) + 1 = 1
        OBVIOUS
      <3>. QED  BY <3>1, <3>2
    <2>. PICK truncated \in BOOLEAN : truncated <=> Paged!Truncated
      OBVIOUS
    <2>. PICK r : r = [at |-> "done", op |-> read.op, limit |-> read.limit,
                       source |-> read.source, results |-> results, failed |-> {},
                       ok |-> TRUE, truncated |-> truncated]
      OBVIOUS
    <2>2. /\ r.at = "done" /\ r.op = read.op /\ r.limit = read.limit
          /\ r.source = read.source /\ r.results = results /\ r.failed = {}
          /\ r.truncated = truncated
      OBVIOUS
    <2>3. read' = r
      <3>1. truncated = Paged!Truncated
        BY DEF Paged!Truncated
      <3>. QED  BY <1>6, <3>1 DEF Paged!EndList, Paged!EndOf
    <2>4. GivenAs(r, answer, all)
      BY <1>2, <2>2 DEF GivenAs
    <2>5. Told(r)
      BY <2>1, <2>2, <2>4 DEF Told
    <2>. QED  BY <2>2, <2>3, <2>5 DEF PagedInv
  <1>. QED  BY <1>5, <1>6

-----------------------------------------------------------------------------
(* Paged reads: batches.                                                      *)

LEMMA CeilingIs ==
  ASSUME NEW n \in Nat, NEW s \in Nat \ {0}, NEW q, q = (n + s - 1) \div s
  PROVE  q \in Nat /\ n <= q * s /\ \A b \in 1..q : (b - 1) * s < n
  <1>1. q \in Nat /\ q * s <= n + s - 1 /\ n + s - 1 < q * s + s
    OBVIOUS
  <1>2. ASSUME NEW b \in 1..q PROVE (b - 1) * s < n
    <2>1. b * s <= q * s /\ (b - 1) * s = b * s - s
      BY <1>1
    <2>. QED  BY <1>1, <2>1
  <1>. QED  BY <1>1, <1>2

LEMMA UptoIs ==
  ASSUME NEW n \in Nat, NEW k \in Nat
  PROVE  /\ Upto(k, n) \in 0..n /\ Upto(0, n) = 0 /\ Upto(k, n) <= Upto(k + 1, n)
         /\ Upto(k + 1, n) \in 0..n /\ Upto(k + 1, n) <= Upto(k, n) + Batch
  <1>1. Batch \in Nat \ {0}
    BY PagedConstants
  <1>2. k * Batch \in Nat /\ (k + 1) * Batch = k * Batch + Batch /\ 0 * Batch = 0
    BY <1>1
  <1>. QED  BY <1>1, <1>2 DEF Upto

LEMMA BatchesAre ==
  ASSUME NEW names \in Paged!NameLists, NEW batches,
         batches = Paged!chunkStrings(names, Batch)
  PROVE  /\ names \in Seq(Described) /\ Len(names) \in Nat /\ Len(batches) \in Nat
         /\ DOMAIN batches = 1..Len(batches)
         /\ Upto(Len(batches), Len(names)) = Len(names)
         /\ \A k \in 0..(Len(batches) - 1) :
              /\ Upto(k, Len(names)) < Upto(k + 1, Len(names))
              /\ batches[k + 1]
                   = SubSeq(names, Upto(k, Len(names)) + 1, Upto(k + 1, Len(names)))
  <1>1. names \in Seq(Described) /\ Len(names) \in Nat
    BY PagedConstants DEF Paged!NameLists
  <1>. PICK n \in Nat : n = Len(names)
    BY <1>1
  <1>. PICK q : q = (n + Batch - 1) \div Batch
    OBVIOUS
  <1>2. q \in Nat /\ n <= q * Batch /\ \A b \in 1..q : (b - 1) * Batch < n
    BY PagedConstants, CeilingIs
  <1>3. batches = [b \in 1..q |-> SubSeq(names, (b - 1) * Batch + 1, Paged!Min({b * Batch, n}))]
    BY DEF Paged!chunkStrings
  <1>4. Len(batches) = q /\ DOMAIN batches = 1..q
    BY <1>2, <1>3
  <1>5. Upto(q, n) = n
    BY <1>2, PagedConstants DEF Upto
  <1>6. ASSUME NEW k \in 0..(q - 1)
        PROVE  /\ Upto(k, n) < Upto(k + 1, n)
               /\ batches[k + 1] = SubSeq(names, Upto(k, n) + 1, Upto(k + 1, n))
    <2>1. Batch \in Nat \ {0} /\ k \in Nat /\ k + 1 \in 1..q
      BY <1>2, PagedConstants
    <2>. PICK m \in Nat, l \in Nat : m = k * Batch /\ l = (k + 1) * Batch
      BY <2>1
    <2>2. l = m + Batch /\ m < n
      <3>1. ((k + 1) - 1) * Batch < n /\ (k + 1) - 1 = k
        BY <1>2, <2>1
      <3>. QED  BY <2>1, <3>1
    <2>3. Upto(k, n) = m /\ Upto(k + 1, n) = IF l < n THEN l ELSE n
      BY <2>2 DEF Upto
    <2>4. Paged!Min({l, n}) = IF l < n THEN l ELSE n
      BY DEF Paged!Min
    <2>5. batches[k + 1] = SubSeq(names, m + 1, Paged!Min({l, n}))
      <3>1. batches[k + 1] = SubSeq(names, ((k + 1) - 1) * Batch + 1, Paged!Min({(k + 1) * Batch, n}))
        BY <1>3, <2>1
      <3>2. (k + 1) - 1 = k
        BY <2>1
      <3>. QED  BY <3>1, <3>2
    <2>6. Upto(k, n) < Upto(k + 1, n)
      BY <2>1, <2>2, <2>3
    <2>7. batches[k + 1] = SubSeq(names, Upto(k, n) + 1, Upto(k + 1, n))
      BY <2>3, <2>4, <2>5
    <2>. QED  BY <2>6, <2>7
  <1>. QED  BY <1>1, <1>2, <1>4, <1>5, <1>6

(* What is counted in two parts is counted in one.                            *)
LEMMA TimesAdd ==
  ASSUME NEW names \in Seq(Described), NEW from \in Nat, NEW to \in Nat, from <= to,
         to <= Len(names), NEW n
  PROVE  /\ Paged!Times(n, SubSeq(names, from + 1, to)) \in Nat
         /\ NamedIn(names, from, n) \in Nat
         /\ NamedIn(names, to, n)
              = NamedIn(names, from, n) + Paged!Times(n, SubSeq(names, from + 1, to))
  <1>. DEFINE Early == {i \in 1..from : names[i] = n}
              Late == {i \in from + 1 .. to : names[i] = n}
              part == SubSeq(names, from + 1, to)
              Counted == {j \in DOMAIN part : part[j] = n}
              shift == [i \in Late |-> i - from]
  <1>1. {i \in 1..to : names[i] = n} = Early \cup Late
    OBVIOUS
  <1>2. IsFiniteSet(Early) /\ IsFiniteSet(Late) /\ Early \cap Late = {}
    <2>1. IsFiniteSet(1..from) /\ IsFiniteSet(from + 1 .. to)
      BY FS_Interval
    <2>. QED  BY <2>1, FS_Subset
  <1>3. DOMAIN part = 1..(to - from) /\ \A j \in 1..(to - from) : part[j] = names[from + j]
    OBVIOUS
  <1>. HIDE DEF part
  <1>4. shift \in Bijection(Late, Counted)
    <2>1. \A i \in Late : i - from \in Counted
      BY <1>3
    <2>2. \A i, j \in Late : i - from = j - from => i = j
      OBVIOUS
    <2>3. \A j \in Counted : from + j \in Late /\ (from + j) - from = j
      BY <1>3
    <2>. QED  BY <2>1, <2>2, <2>3 DEF Bijection, Injection, Surjection, IsInjective
  <1>5. IsFiniteSet(Counted) /\ Cardinality(Counted) = Cardinality(Late)
    BY <1>2, <1>4, FS_Bijection DEF ExistsBijection
  <1>6. Paged!Times(n, part) = Cardinality(Counted)
    BY DEF Paged!Times, Paged!Cardinality, Cardinality
  <1>7. Cardinality(Early) \in Nat /\ Cardinality(Late) \in Nat
    BY <1>2, FS_CardinalityType
  <1>8. Cardinality(Early \cup Late) = Cardinality(Early) + Cardinality(Late)
    <2>1. Cardinality(Early \cup Late)
            = Cardinality(Early) + Cardinality(Late) - Cardinality(Early \cap Late)
      BY <1>2, FS_Union
    <2>2. Cardinality(Early \cap Late) = 0
      BY <1>2, FS_EmptySet
    <2>. QED  BY <1>7, <2>1, <2>2
  <1>. QED  BY <1>1, <1>5, <1>6, <1>7, <1>8 DEF part, NamedIn

LEMMA BatchFits ==
  ASSUME NEW names \in Paged!NameLists, NEW batches,
         batches = Paged!chunkStrings(names, Batch), NEW b \in DOMAIN batches
  PROVE  Len(batches[b]) \in 1..Batch
  <1>1. /\ Len(names) \in Nat /\ Len(batches) \in Nat /\ b \in 1..Len(batches)
        /\ names \in Seq(Described)
    BY BatchesAre
  <1>2. PICK k \in 0..(Len(batches) - 1) : b = k + 1
    BY <1>1
  <1>3. PICK from, to : from = Upto(k, Len(names)) /\ to = Upto(k + 1, Len(names))
    OBVIOUS
  <1>4. /\ from \in 0..Len(names) /\ to \in 0..Len(names) /\ to <= from + Batch
    BY <1>1, <1>2, <1>3, UptoIs
  <1>5. /\ Upto(k, Len(names)) < Upto(k + 1, Len(names))
        /\ batches[k + 1] = SubSeq(names, Upto(k, Len(names)) + 1, Upto(k + 1, Len(names)))
    BY <1>2, BatchesAre
  <1>6. from < to /\ batches[b] = SubSeq(names, from + 1, to)
    BY <1>2, <1>3, <1>5
  <1>7. Len(SubSeq(names, from + 1, to)) = to - from
    BY <1>1, <1>4, <1>6
  <1>. QED  BY <1>1, <1>4, <1>6, <1>7, PagedConstants

LEMMA DescribeStep ==
  ASSUME PagedInv, NEW names \in Paged!NameLists, Paged!Describe(names)
  PROVE  PagedInv'
  <1>. PICK batches : batches = Paged!chunkStrings(names, Batch)
    OBVIOUS
  <1>. PICK none : none = [n \in Described |-> 0]
    OBVIOUS
  <1>. PICK r : r = [at |-> "describe", names |-> names, batches |-> batches, asked |-> 0,
                     described |-> none, failures |-> none]
    OBVIOUS
  <1>1. read' = r
    BY DEF Paged!Describe
  <1>2. /\ r.at = "describe" /\ r.names = names /\ r.batches = batches /\ r.asked = 0
        /\ r.described = none /\ r.failures = none
        /\ r = [at |-> r.at, names |-> r.names, batches |-> r.batches, asked |-> r.asked,
                described |-> r.described, failures |-> r.failures]
    OBVIOUS
  <1>3. names \in Seq(Described) /\ Len(names) \in Nat /\ Len(batches) \in Nat
    BY BatchesAre
  <1>4. none \in [Described -> Nat] /\ \A n \in Described : none[n] = 0
    OBVIOUS
  <1>5. ASSUME NEW n \in Described
        PROVE  none[n] + none[n] = NamedIn(names, Upto(0, Len(names)), n)
    <2>1. Upto(0, Len(names)) = 0
      BY <1>3, UptoIs
    <2>2. {i \in 1..Upto(0, Len(names)) : names[i] = n} = {}
      BY <2>1
    <2>3. Cardinality({i \in 1..Upto(0, Len(names)) : names[i] = n}) = 0
      BY <2>2, FS_EmptySet
    <2>. QED  BY <1>4, <2>3 DEF NamedIn
  <1>6. Describing(r)
    BY <1>2, <1>3, <1>4, <1>5 DEF Describing
  <1>. QED  BY <1>1, <1>2, <1>6 DEF PagedInv

LEMMA NextBatchStep ==
  ASSUME PagedInv, NEW known \in SUBSET Described, Paged!NextBatch(known)
  PROVE  PagedInv'
  <1>1. Describing(read) /\ read.at = "describe" /\ read.asked < Len(read.batches)
    BY DEF PagedInv, Paged!NextBatch
  <1>. PICK names, batches : names = read.names /\ batches = read.batches
    OBVIOUS
  <1>2. /\ names \in Paged!NameLists /\ batches = Paged!chunkStrings(names, Batch)
        /\ read.asked \in 0..Len(batches)
        /\ read.described \in [Described -> Nat] /\ read.failures \in [Described -> Nat]
        /\ \A n \in Described :
             read.described[n] + read.failures[n]
               = NamedIn(names, Upto(read.asked, Len(names)), n)
    BY <1>1 DEF Describing
  <1>3. names \in Seq(Described) /\ Len(names) \in Nat /\ Len(batches) \in Nat
    BY <1>2, BatchesAre
  <1>k. PICK k \in Nat : k = read.asked /\ k \in 0..(Len(batches) - 1)
    BY <1>1, <1>2, <1>3
  <1>b. PICK from \in Nat, to \in Nat : /\ from = Upto(k, Len(names))
                                      /\ to = Upto(k + 1, Len(names))
                                      /\ from <= to /\ to <= Len(names)
    <2>1. Upto(k, Len(names)) \in 0..Len(names) /\ Upto(k + 1, Len(names)) \in 0..Len(names)
      BY <1>3, <1>k, UptoIs
    <2>2. Upto(k, Len(names)) <= Upto(k + 1, Len(names))
      BY <1>3, <1>k, UptoIs
    <2>. QED  BY <1>3, <2>1, <2>2
  <1>. PICK batch : batch = batches[k + 1]
    OBVIOUS
  <1>4. batch = SubSeq(names, from + 1, to)
    BY <1>k, <1>b, <1>2, BatchesAre
  <1>d. PICK described :
         described = [n \in Described |-> read.described[n] +
                        IF n \in known THEN Paged!Times(n, batch) ELSE 0]
    OBVIOUS
  <1>f. PICK failures :
         failures = [n \in Described |-> read.failures[n] +
                       IF n \in known THEN 0 ELSE Paged!Times(n, batch)]
    OBVIOUS
  <1>r. PICK r : r = [at |-> "describe", names |-> names, batches |-> batches, asked |-> k + 1,
                     described |-> described, failures |-> failures]
    OBVIOUS
  <1>5. read' = r
    <2>1. read' = [read EXCEPT !.asked = k + 1, !.described = described, !.failures = failures]
      BY <1>k, <1>d, <1>f DEF Paged!NextBatch
    <2>2. read \in [at : {"describe"}, names : {names}, batches : {batches},
                    asked : {read.asked}, described : {read.described},
                    failures : {read.failures}]
      BY <1>1 DEF Describing
    <2>3. read' \in [at : {"describe"}, names : {names}, batches : {batches},
                     asked : {k + 1}, described : {described}, failures : {failures}]
      BY <2>1, <2>2
    <2>. PICK e : e = read'
      OBVIOUS
    <2>4. e \in [at : {"describe"}, names : {names}, batches : {batches},
                 asked : {k + 1}, described : {described}, failures : {failures}]
      BY <2>3
    <2>5. e = r
      BY <1>r, <2>4
    <2>. QED  BY <2>5
  <1>6. /\ r.at = "describe" /\ r.names = names /\ r.batches = batches /\ r.asked = k + 1
        /\ r.described = described /\ r.failures = failures
        /\ r = [at |-> r.at, names |-> r.names, batches |-> r.batches, asked |-> r.asked,
                described |-> r.described, failures |-> r.failures]
    BY <1>r
  <1>7. ASSUME NEW n \in Described
        PROVE  /\ described[n] \in Nat /\ failures[n] \in Nat
               /\ described[n] + failures[n] = NamedIn(names, to, n)
    <2>d. PICK d, f, fine, bad : /\ d = read.described[n] /\ f = read.failures[n]
                                /\ fine = described[n] /\ bad = failures[n]
      OBVIOUS
    <2>t. PICK t, was, is : /\ t = Paged!Times(n, batch)
                          /\ was = NamedIn(names, from, n) /\ is = NamedIn(names, to, n)
      OBVIOUS
    <2>1. d \in Nat /\ f \in Nat /\ d + f = was
      BY <1>k, <1>b, <1>2, <2>d, <2>t
    <2>2. t \in Nat /\ was \in Nat /\ is = was + t
      BY <1>k, <1>b, <1>3, <1>4, <2>t, TimesAdd
    <2>3. /\ fine = d + IF n \in known THEN t ELSE 0
          /\ bad = f + IF n \in known THEN 0 ELSE t
      BY <1>d, <1>f, <2>d, <2>t
    <2>4. d + 0 = d /\ f + 0 = f
      BY <2>1
    <2>5. \/ fine = d + t /\ bad = f
          \/ fine = d /\ bad = f + t
      BY <2>3, <2>4, Zenon
    <2>6. fine \in Nat /\ bad \in Nat /\ fine + bad = is
      BY <2>1, <2>2, <2>5
    <2>. QED  BY <2>6, <2>d, <2>t
  <1>8. described \in [Described -> Nat] /\ failures \in [Described -> Nat]
    BY <1>d, <1>f, <1>7
  <1>9. Describing(r)
    BY <1>k, <1>b, <1>2, <1>3, <1>6, <1>7, <1>8 DEF Describing
  <1>. QED  BY <1>5, <1>6, <1>9 DEF PagedInv

LEMMA DescribeEnds ==
  ASSUME PagedInv, Paged!BatchFails \/ Paged!EndDescribe
  PROVE  PagedInv'
  <1>1. CASE Paged!BatchFails
    BY <1>1 DEF Paged!BatchFails, PagedInv
  <1>2. CASE Paged!EndDescribe
    <2>1. Describing(read) /\ read.at = "describe" /\ read.asked = Len(read.batches)
      BY <1>2 DEF PagedInv, Paged!EndDescribe
    <2>. PICK r : r = [at |-> "described", names |-> read.names, batches |-> read.batches,
                       asked |-> read.asked, described |-> read.described,
                       failures |-> read.failures]
      OBVIOUS
    <2>2. /\ r.at = "described" /\ r.names = read.names /\ r.batches = read.batches
          /\ r.asked = read.asked /\ r.described = read.described
          /\ r.failures = read.failures
          /\ r = [at |-> r.at, names |-> r.names, batches |-> r.batches, asked |-> r.asked,
                  described |-> r.described, failures |-> r.failures]
      OBVIOUS
    <2>3. read' = r
      <3>1. read \in [at : {"describe"}, names : {read.names}, batches : {read.batches},
                      asked : {read.asked}, described : {read.described},
                      failures : {read.failures}]
        BY <2>1 DEF Describing
      <3>2. read' = [read EXCEPT !.at = "described"]
        BY <1>2 DEF Paged!EndDescribe
      <3>. PICK e : e = read'
        OBVIOUS
      <3>3. e \in [at : {"described"}, names : {read.names}, batches : {read.batches},
                   asked : {read.asked}, described : {read.described},
                   failures : {read.failures}]
        BY <3>1, <3>2
      <3>4. e = r
        BY <3>3
      <3>. QED  BY <3>4
    <2>4. Describing(r)
      BY <2>1, <2>2 DEF Describing
    <2>. QED  BY <2>2, <2>3, <2>4 DEF PagedInv
  <1>. QED  BY <1>1, <1>2

LEMMA PagedStep ==
  ASSUME PagedInv, [Paged!Next]_(Paged!vars)
  PROVE  PagedInv'
  <1>1. CASE \E op \in DOMAIN Paged!Reads, limit \in Limits, source \in Repositories :
               Paged!List(op, limit, source)
    BY <1>1, ListStep
  <1>2. CASE Paged!NextPage \/ Paged!PageFails \/ Paged!EndList
    BY <1>2, NextPageStep, PageFailsStep, EndListStep
  <1>3. CASE \E names \in Paged!NameLists : Paged!Describe(names)
    BY <1>3, DescribeStep
  <1>4. CASE \E known \in SUBSET Described : Paged!NextBatch(known)
    BY <1>4, NextBatchStep
  <1>5. CASE Paged!BatchFails \/ Paged!EndDescribe
    BY <1>5, DescribeEnds
  <1>6. CASE UNCHANGED Paged!vars
    BY <1>6 DEF Paged!vars, PagedInv
  <1>. QED  BY <1>1, <1>2, <1>3, <1>4, <1>5, <1>6 DEF Paged!Next

LEMMA PagedMove == [Next]_vars => [Paged!Next]_(Paged!vars)
  BY DEF Next, vars, Paged!vars

(* The invariant holds of every behaviour of the server.                      *)
THEOREM PagedInvHolds == Spec => []PagedInv
  <1>1. Init => PagedInv
    BY DEF Init, Paged!Init, PagedInv
  <1>2. PagedInv /\ [Next]_vars => PagedInv'
    BY PagedStep, PagedMove
  <1>. QED  BY <1>1, <1>2, PTL DEF Spec

(* A list that is given is the beginning of what AWS has, and all of it, as   *)
(* much as was asked for, or marked as truncated; what is asked to be         *)
(* described is asked for in batches AWS takes and comes back as often as it  *)
(* was asked for, described or as a failure (ecs.go:494-501, 541, 637-647).   *)
THEOREM ReadsComeWhole == Spec => []ReadsAreWhole
  <1>1. ASSUME PagedInv PROVE Paged!ListsAreTold
    <2>1. CASE read.at = "done" /\ read.ok
      <3>1. \A q \in DOMAIN read.results :
              IF q \in read.failed THEN read.results[q] = <<>>
              ELSE GivenAs(read, read.results[q], Paged!AllItems(read.source[q]))
        BY <1>1, <2>1 DEF PagedInv, Told
      <3>. QED  BY <3>1 DEF Paged!ListsAreTold, Paged!Complete, GivenAs, Kind
    <2>. QED  BY <2>1 DEF Paged!ListsAreTold
  <1>2. ASSUME PagedInv PROVE Paged!BatchesCover
    <2>1. CASE read.at \in {"describe", "described"}
      <3>1. Describing(read)
        BY <1>2, <2>1 DEF PagedInv
      <3>. PICK names, batches : names = read.names /\ batches = read.batches
        OBVIOUS
      <3>2. /\ names \in Paged!NameLists /\ batches = Paged!chunkStrings(names, Batch)
            /\ \A n \in Described :
                 read.described[n] + read.failures[n]
                   = NamedIn(names, Upto(read.asked, Len(names)), n)
            /\ read.at = "described" => read.asked = Len(batches)
        BY <3>1 DEF Describing
      <3>3. /\ names \in Seq(Described) /\ Len(names) \in Nat /\ Len(batches) \in Nat
            /\ DOMAIN batches = 1..Len(batches)
            /\ Upto(Len(batches), Len(names)) = Len(names)
        BY <3>2, BatchesAre
      <3>4. ASSUME NEW b \in DOMAIN batches PROVE Len(batches[b]) \in 1..Batch
        BY <3>2, BatchFits
      <3>5. ASSUME read.at = "described", NEW n \in Described
            PROVE  Paged!Times(n, names) = read.described[n] + read.failures[n]
        <4>1. DOMAIN names = 1..Len(names)
          BY <3>3
        <4>2. Paged!Times(n, names) = NamedIn(names, Len(names), n)
          BY <4>1 DEF NamedIn, Paged!Times, Paged!Cardinality, Cardinality
        <4>. QED  BY <3>2, <3>3, <3>5, <4>2
      <3>. QED  BY <3>4, <3>5 DEF Paged!BatchesCover
    <2>. QED  BY <2>1 DEF Paged!BatchesCover
  <1>. QED  BY <1>1, <1>2, PagedInvHolds, PTL DEF ReadsAreWhole

(* The state of a read has its types.                                         *)
THEOREM PagedTypesHold == Spec => []Paged!TypeOK
  <1>1. ASSUME PagedInv PROVE Paged!TypeOK
    <2>1. read.at \in {"idle", "list", "done", "describe", "described", "failed"}
      BY <1>1 DEF PagedInv
    <2>2. ASSUME read.at = "list"
          PROVE  Paged!Repository \in DOMAIN read.source /\ read.page \in 0..Len(Paged!Pages)
      BY <1>1, <2>2 DEF PagedInv, Listing, Paged!Repository, Paged!Pages
    <2>. QED  BY <2>1, <2>2 DEF Paged!TypeOK
  <1>. QED  BY <1>1, PagedInvHolds, PTL

-----------------------------------------------------------------------------
(* The server as a whole.                                                    *)

(* Whichever part of the server moves, its state has its types (each of the   *)
(* parts' TypeOK, where the code that bounds it is named).                     *)
THEOREM ServerTypesHold == Spec => []TypeOK
  <1>1. ASSUME Http!TypeOK, Boards!TypeOK, Api!TypeOK, Log!TypeOK, Paged!TypeOK,
               Named!TypeOK, Skills!TypeOK
        PROVE  TypeOK
    BY <1>1 DEF TypeOK
  <1>. QED  BY <1>1, HttpTypesHold, BoardsTypesHold, ApiTypesHold, LogTypesHold,
               PagedTypesHold, NamedTypesHold, SkillsTypesHold, PTL

=============================================================================
