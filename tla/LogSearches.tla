----------------------------- MODULE LogSearches ------------------------------
(***************************************************************************)
(* Looking for something in places that may or may not hold it: CloudWatch  *)
(* accounts (pkg/mcp/cloudwatch*.go), the tenants of Loki and Tempo         *)
(* (pkg/tenant, pkg/k8s/loki.go, pkg/mcp/loki.go, tempo.go), and the other  *)
(* log backends (pkg/mcp/logsources.go). A call is sent to its places one   *)
(* after the other, or to several tenants in one request, and an answer     *)
(* that found nothing says where it did not look. A CloudWatch Logs         *)
(* Insights query is started and then polled.                               *)
(*                                                                         *)
(* Calls share nothing, so one at a time is enough. A place is the sequence *)
(* of names a request is made for: one account, or the tenants of the       *)
(* header, joined by "|" there. No name at all is the bot's own account, or *)
(* no header.                                                               *)
(***************************************************************************)
EXTENDS Naturals, SequencesExt

CONSTANTS
  Deployments,  \* configurations of the process
  Searches,     \* the calls that are made: what, and for which accounts or tenants
  MaxWait,      \* defaultCloudWatchMaxWait, in ticks
  Interval,     \* cloudWatchPollInterval, in ticks
  CallTime      \* the longest a request takes

LogFamilies == {"loki", "cloudwatch", "kubernetes"}
Blank == ""

(* What each CloudWatch read does in an account: it asks once, or starts a    *)
(* query and waits for it; and whether it says where it did not look.         *)
InEach(polls, leads) == [polls |-> polls, leads |-> leads]
executeMultiAccountQuery               == InEach(TRUE, TRUE)
executeMultiAccountListGroups          == InEach(FALSE, FALSE)
executeMultiAccountGetEvents           == InEach(FALSE, FALSE)
executeMultiAccountListMetrics         == InEach(FALSE, FALSE)
executeMultiAccountGetMetricStatistics == InEach(FALSE, FALSE)
executeMultiAccountGetMetricData       == InEach(FALSE, FALSE)
executeMultiAccountAlarmsList          == InEach(FALSE, FALSE)
executeMultiAccountAlarmsHistory       == InEach(FALSE, FALSE)

Accounts == [
  insights |-> executeMultiAccountQuery, groups |-> executeMultiAccountListGroups,
  events |-> executeMultiAccountGetEvents, metrics |-> executeMultiAccountListMetrics,
  statistics |-> executeMultiAccountGetMetricStatistics,
  metric_data |-> executeMultiAccountGetMetricData,
  alarms |-> executeMultiAccountAlarmsList, alarm_history |-> executeMultiAccountAlarmsHistory]

ByAccount == DOMAIN Accounts
Polls(op) == op \in ByAccount /\ Accounts[op].polls

(* A deployment: CLOUDWATCH_ACCOUNTS in the order of its names, empty if not  *)
(* set, and whether it parses and names an account; the tenant settings, of   *)
(* which a blank name in an allowlist is left out; the log backends there     *)
(* are, and those of them the caller may use.                                 *)
IsPolicy(p) ==
  p.default \in STRING /\ p.allowed \subseteq STRING \ {Blank} /\ IsFiniteSet(p.allowed)
IsDeployment(d) ==
  /\ d.accounts \in Seq(STRING) /\ d.broken \in BOOLEAN
  /\ IsPolicy(d.loki) /\ IsPolicy(d.tempo)
  /\ d.permitted \subseteq d.configured /\ d.configured \subseteq LogFamilies

ConstantsOK ==
  /\ \A d \in Deployments : IsDeployment(d)
  /\ \A s \in Searches : /\ s.op \in ByAccount \cup {"loki", "labels", "trace", "traces"}
                         /\ s.named \in Seq(STRING)
  /\ {MaxWait, Interval, CallTime} \subseteq Nat \ {0}

VARIABLES
  conf,  \* the deployment
  call   \* the call

vars == <<conf, call>>

-----------------------------------------------------------------------------
(* Tenants. Empty settings send no header.                                   *)

NewPolicyOK(policy) ==
  policy.default # Blank /\ policy.allowed # {} => policy.default \in policy.allowed

(* Mutation: an allowlist that only serves the descriptions of the tools.     *)
ResolveUnchecked(policy, named) ==
  [ok |-> TRUE,
   header |-> IF named # <<>> THEN named
              ELSE IF policy.default # Blank THEN <<policy.default>> ELSE <<>>]

Resolve(policy, named) ==
  LET header == IF named # <<>> THEN named
                ELSE IF policy.default # Blank THEN <<policy.default>> ELSE <<>>
  IN [header |-> header,
      ok |-> policy.allowed # {} => header # <<>> /\ Range(header) \subseteq policy.allowed]

Heading(tenant) == IF tenant = Blank THEN <<>> ELSE <<tenant>>

(* The tenants a discovery asks one at a time: those named, or all there are. *)
Each(policy, named) ==
  IF named = <<>> /\ policy.allowed # {}
  THEN [ok |-> TRUE, places |-> [i \in DOMAIN SetToSeq(policy.allowed) |->
                                  <<SetToSeq(policy.allowed)[i]>>]]
  ELSE LET resolved == Resolve(policy, named) IN
       [ok |-> resolved.ok,
        places |-> IF resolved.header = <<>> THEN << <<>> >>
                   ELSE [i \in DOMAIN resolved.header |-> Heading(resolved.header[i])]]

Unsearched(policy, header) == policy.allowed \ Range(header)

-----------------------------------------------------------------------------
(* Accounts. Without any, the bot's own credentials are used.                *)

resolveCloudWatchAccounts(all, named) ==
  IF named = <<>> THEN [ok |-> TRUE, places |-> [i \in DOMAIN all |-> <<all[i]>>]]
  ELSE [ok |-> Range(named) \subseteq Range(all),
        places |-> [i \in DOMAIN named |-> <<named[i]>>]]

AccountPlaces(named) ==
  IF conf.broken THEN [ok |-> FALSE, places |-> <<>>]
  ELSE IF conf.accounts = <<>> THEN [ok |-> TRUE, places |-> << <<>> >>]
  ELSE resolveCloudWatchAccounts(conf.accounts, named)

(* Mutation: only a call that went to several accounts looks for others.      *)
UnqueriedOfSeveral(places) ==
  IF Len(places) < 2 THEN {}
  ELSE Range(conf.accounts) \ UNION {Range(p) : p \in Range(places)}

unqueriedCloudWatchAccounts(places) == Range(conf.accounts) \ UNION {Range(p) : p \in Range(places)}

-----------------------------------------------------------------------------
Policy(op) == IF op \in {"loki", "labels"} THEN conf.loki ELSE conf.tempo

(* A Tempo whose settings are wrong has no clients; a Loki whose settings are *)
(* wrong ends the process at its start.                                       *)
Up == "loki" \in conf.configured => NewPolicyOK(conf.loki)
Available(op) ==
  CASE op \in ByAccount -> TRUE
    [] op \in {"loki", "labels"} -> "loki" \in conf.configured
    [] OTHER -> NewPolicyOK(conf.tempo)

(* One request, for all its tenants; or, for label names and values, one for  *)
(* each tenant.                                                               *)
OneRequest(policy, named) ==
  LET resolved == Resolve(policy, named) IN [ok |-> resolved.ok, places |-> <<resolved.header>>]

Query(named)                    == OneRequest(conf.loki, named)
lokiLabelLookup(named)          == Each(conf.loki, named)
executeTempoGetTrace(named)     == OneRequest(conf.tempo, named)
executeTempoSearchTraces(named) == OneRequest(conf.tempo, named)

Where(op, named) ==
  CASE op \in ByAccount -> AccountPlaces(named)
    [] op = "loki" -> Query(named)
    [] op = "labels" -> lokiLabelLookup(named)
    [] op = "trace" -> executeTempoGetTrace(named)
    [] op = "traces" -> executeTempoSearchTraces(named)

Init == conf \in Deployments /\ call = [at |-> "idle"]

Waiting == call.at \in {"ask", "poll", "pause"}
Failed(op) == [at |-> "done", op |-> op, ok |-> FALSE, places |-> <<>>, answers |-> <<>>,
               leads |-> {}, others |-> {}]

Search(op, named) ==
  /\ Up /\ call.at = "idle"
  /\ LET where == Where(op, named) IN
     call' = IF Available(op) /\ where.ok
             THEN [at |-> "ask", op |-> op, places |-> where.places, answers |-> <<>>,
                   sent |-> <<>>, cancelled |-> FALSE, waited |-> 0, since |-> 0]
             ELSE Failed(op)
  /\ UNCHANGED conf

(* The next place. An account's client may fail to be made, which costs no    *)
(* more than its place. A tenant's request goes out under the header its      *)
(* heading resolves to.                                                       *)
More == call.at = "ask" /\ Len(call.answers) < Len(call.places)
Place == call.places[Len(call.answers) + 1]
Answered(answer) ==
  call' = [call EXCEPT !.at = "ask", !.answers = Append(@, answer), !.waited = 0, !.since = 0]

Header == IF call.op = "labels" THEN Resolve(conf.loki, Place).header ELSE Place
Sends == call.op = "labels" => Resolve(conf.loki, Place).ok

Ask(answer) ==
  /\ More /\ (Polls(call.op) \/ call.cancelled \/ ~Sends => answer = "error")
  /\ call' = [call EXCEPT !.answers = Append(@, answer),
                          !.sent = IF Sends THEN Header ELSE @]
  /\ UNCHANGED conf

(* runCloudWatchQuery: the query is started, and asked for until it is over,  *)
(* the caller gives up, or no time is left. The deadline is looked at between *)
(* two requests only, and only a query that runs or waits is given a pause.   *)
StartQuery ==
  /\ More /\ Polls(call.op) /\ ~call.cancelled
  /\ call' = [call EXCEPT !.at = "poll", !.sent = Header, !.waited = 0, !.since = 0]
  /\ UNCHANGED conf

(* Mutation: the deadline is not looked at. *)
PollForEver == call' = [call EXCEPT !.at = "poll", !.since = 0]

PollAgain ==
  IF call.waited < MaxWait THEN call' = [call EXCEPT !.at = "poll", !.since = 0]
  ELSE Answered("error")

Poll(status) ==
  /\ call.at = "poll"
  /\ CASE status \in {"rows", "empty"} -> Answered(status)
       [] status \in {"failed", "error"} -> Answered("error")
       [] status = "running" -> call' = [call EXCEPT !.at = "pause", !.since = 0]
       [] OTHER -> PollAgain
  /\ UNCHANGED conf

EndPause ==
  /\ call.at = "pause" /\ call.since = Interval
  /\ PollAgain
  /\ UNCHANGED conf

(* The caller gives up: whatever is under way fails, and what would follow.   *)
Cancel ==
  /\ Waiting /\ ~call.cancelled
  /\ call' = IF call.at = "ask" THEN [call EXCEPT !.cancelled = TRUE]
             ELSE [call EXCEPT !.cancelled = TRUE, !.at = "ask",
                               !.answers = Append(@, "error"), !.waited = 0, !.since = 0]
  /\ UNCHANGED conf

Tick ==
  /\ \/ call.at = "poll" /\ call.since < CallTime
     \/ call.at = "pause" /\ call.since < Interval
  /\ call' = [call EXCEPT !.waited = @ + 1, !.since = @ + 1]
  /\ UNCHANGED conf

-----------------------------------------------------------------------------
(* The answer. One place that fails is reported beside the others; of several *)
(* accounts even all may, of several tenants not.                             *)

Found == "rows" \in Range(call.answers)
AllFailed == Range(call.answers) = {"error"}
ok == CASE call.op = "labels" -> ~AllFailed
        [] call.op \in ByAccount /\ conf.accounts # <<>> -> TRUE
        [] OTHER -> ~AllFailed

otherLogSources(searched) == conf.permitted \ {searched}

cloudWatchQueryLeads == unqueriedCloudWatchAccounts(call.places)
lokiQueryLeads == Unsearched(conf.loki, call.places[1])
tempoLeads == Unsearched(conf.tempo, call.places[1])

Leads ==
  CASE call.op \in ByAccount /\ ok /\ ~Found ->
         IF Accounts[call.op].leads THEN cloudWatchQueryLeads ELSE {}
    [] call.op = "loki" /\ ok /\ ~Found -> lokiQueryLeads
    [] call.op = "traces" /\ ok /\ ~Found -> tempoLeads
    [] call.op = "trace" /\ ~ok -> tempoLeads
    [] OTHER -> {}

emptyLogSearchHint ==
  IF ~ok \/ Found THEN {}
  ELSE CASE Polls(call.op) -> otherLogSources("cloudwatch")
         [] call.op \in {"loki", "labels"} -> otherLogSources("loki")
         [] OTHER -> {}

Reply ==
  /\ call.at = "ask" /\ Len(call.answers) = Len(call.places)
  /\ call' = [at |-> "done", op |-> call.op, ok |-> ok, places |-> call.places,
              answers |-> call.answers, leads |-> Leads, others |-> emptyLogSearchHint]
  /\ UNCHANGED conf

-----------------------------------------------------------------------------
Next ==
  \/ \E s \in Searches : Search(s.op, s.named)
  \/ \E answer \in {"rows", "empty", "error"} : Ask(answer)
  \/ \E status \in {"rows", "empty", "failed", "error", "running", "other"} : Poll(status)
  \/ StartQuery \/ EndPause \/ Cancel \/ Tick \/ Reply

(* Requests end, by their client's timeout if not before (of AWS's it is      *)
(* assumed), and time passes however often a query is asked for. A query need *)
(* not ever end.                                                              *)
Serve ==
  \/ \E answer \in {"rows", "empty", "error"} : Ask(answer)
  \/ \E status \in {"rows", "empty", "failed", "error", "running", "other"} : Poll(status)
  \/ StartQuery \/ EndPause \/ Reply

Fairness == WF_vars(Serve) /\ SF_vars(Tick)

Spec == Init /\ [][Next]_vars /\ Fairness

-----------------------------------------------------------------------------
TypeOK ==
  /\ conf \in Deployments
  /\ call.at \in {"idle", "ask", "poll", "pause", "done"}
  /\ call.at # "idle" => /\ Range(call.answers) \subseteq {"rows", "empty", "error"}
                         /\ Len(call.answers) <= Len(call.places)
  /\ call.at \in {"poll", "pause"} =>
       /\ call.waited \in 0..(MaxWait + CallTime + Interval)
       /\ call.since \in 0..(CallTime + Interval)

(* What was not found is not reported as absent: every account or allowed     *)
(* tenant was asked and has its own answer or error, or is named as not yet   *)
(* searched, and so is every other log backend the caller may use             *)
(* (cloudwatch.go:536, loki.go:238, 340, tempo.go:297, logsources.go:108).    *)
SearchedOrNamed(all) == all \subseteq call.leads \cup UNION {Range(p) : p \in Range(call.places)}

EmptyAnswersLeadOn ==
  call.at = "done" /\ call.ok /\ "rows" \notin Range(call.answers) =>
    /\ Len(call.answers) = Len(call.places)
    /\ call.op = "insights" => /\ SearchedOrNamed(Range(conf.accounts))
                               /\ conf.permitted \subseteq call.others \cup {"cloudwatch"}
    /\ call.op = "loki" => SearchedOrNamed(conf.loki.allowed)
    /\ call.op \in {"loki", "labels"} => conf.permitted \subseteq call.others \cup {"loki"}
    /\ call.op = "traces" => SearchedOrNamed(conf.tempo.allowed)

(* With an allowlist, no request goes out without a tenant or for a tenant    *)
(* that is not on it, whatever is asked for and whatever the default, and     *)
(* what a tenant answers is not reported under another's name (tenant.go:136, *)
(* loki.go:308-333).                                                          *)
OnlyAllowedTenants ==
  Waiting /\ call.op \notin ByAccount /\ call.answers # <<>> =>
    /\ Policy(call.op).allowed # {} =>
         call.sent # <<>> /\ Range(call.sent) \subseteq Policy(call.op).allowed
    /\ LET place == call.places[Len(call.answers)] IN place # <<>> => call.sent = place

(* This comes again and again, so a call to many places ends: a query is       *)
(* waited for no longer than its deadline, one request and one pause, although *)
(* it may run for ever, and a status the code does not know is asked for again *)
(* at once.                                                                    *)
NoneUnderWay == call.at \in {"idle", "done"}
=============================================================================
