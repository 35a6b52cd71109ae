------------------------------ MODULE MCMcpServer ------------------------------
(***************************************************************************)
(* Values for the constants of McpServer: small deployments in which what   *)
(* is hard happens, such as files, endpoints and names that collide.        *)
(***************************************************************************)
EXTENDS McpServer

OneAxis == <<"email">>
NobodyOrBob == {{}, {"bob"}}

-----------------------------------------------------------------------------
(* Two handlers edit one dashboard of two parts, in one of two folders.       *)

Says(n) == [f \in {"title", "untyped"} |-> n]
DashboardCalls ==
  [kind : {"create"}, body : {Says(1)}, folder : {"x"}] \cup
  [kind : {"update"}, uid : {"d"}, body : {Says(1)}, folder : {"none", "y"}] \cup
  [kind : {"patch"}, uid : {"d"}, edit : {[title |-> 1]}] \cup
  [kind : {"restore", "version"}, uid : {"d"}, version : {1}] \cup
  [kind : {"get", "versions", "delete"}, uid : {"d"}] \cup
  [kind : {"list", "folder"}]
Untouched == Says(0)

-----------------------------------------------------------------------------
(* Two files whose endpoints run together to one name; and two files for one  *)
(* API, with a third that is left out.                                        *)

Endpoint(name, method) ==
  [name |-> name, method |-> method, required |-> {"id"}, placed |-> {"id"}, path |-> {"id"}]
ApiFile(name, endpoints, most, retry) ==
  [name |-> name, endpoints |-> endpoints, parses |-> TRUE, tokenSet |-> TRUE,
   baseURL |-> TRUE, maxConcurrent |-> most, maxRetries |-> 1, retryOn429 |-> retry]

ApiFiles == {
  << ApiFile(<<"wiki">>, << Endpoint(<<"get">>, ""), Endpoint(<<"page", "add">>, "POST"),
                         Endpoint(<<"drop">>, "DELETE") >>, 1, TRUE),
     ApiFile(<<"wiki", "page">>, << Endpoint(<<"add">>, "DELETE") >>, 2, FALSE) >>,
  << ApiFile(<<"wiki">>, << Endpoint(<<"get">>, "GET") >>, 1, TRUE),
     ApiFile(<<"wiki">>, << Endpoint(<<"get">>, "DELETE"), Endpoint(<<"add">>, "POST") >>, 1, FALSE),
     [ApiFile(<<"x">>, << Endpoint(<<"get">>, "GET") >>, 1, TRUE) EXCEPT !.tokenSet = FALSE] >> }

-----------------------------------------------------------------------------
(* Every kind of tenant settings, with two accounts, none, or broken ones.    *)

Tenants(default, allowed) == [default |-> default, allowed |-> allowed]
TenantSettings == {
  Tenants("", {}), Tenants("a", {}), Tenants("", {"a", "b"}), Tenants("a", {"a", "b"}),
  Tenants("c", {"a"})}
Families == {"loki", "cloudwatch", "kubernetes"}
Plain == Tenants("", {})
TenantDeployments ==
  [accounts : {<<>>, <<"dev", "prod">>}, broken : {FALSE}, loki : TenantSettings,
   tempo : {Plain}, configured : {Families}, permitted : {{"loki", "cloudwatch"}, Families}]
  \cup
  [accounts : {<<>>}, broken : {TRUE, FALSE}, loki : {Plain}, tempo : TenantSettings,
   configured : {{}, Families}, permitted : {{}}]
AccountReads ==
  {"insights", "groups", "events", "metrics", "statistics", "metric_data", "alarms",
   "alarm_history"}
LogCalls ==
  [op : AccountReads, named : {<<>>, <<"prod">>, <<"prod", "dev">>, <<"x">>}] \cup
  [op : {"loki", "labels", "trace", "traces"},
   named : {<<>>, <<"b">>, <<"b", "a">>, <<"a", "">>, <<"c">>}]

-----------------------------------------------------------------------------
(* Up to three pages of at most two items, or two repositories.               *)

(* The ends of pages of up to so many items each.                             *)
Ends(sizes) == [p \in DOMAIN sizes |-> FoldSeq(+, 0, SubSeq(sizes, 1, p))]
PageLists(n, most) == {Ends(sizes) : sizes \in UNION {[1..k -> 0..most] : k \in 1..n}}
PagedSources ==
  {<<s>> : s \in PageLists(3, 2)} \cup {<<s, t>> : s \in PageLists(2, 1), t \in PageLists(2, 1)}
ListLimits == {-1, 0, 1, 3}

-----------------------------------------------------------------------------
(* Every way to set a name: twice, to nothing, DEFAULT, and none at all; and   *)
(* DB_CONNECTION_STRING with a DATABASE_URL set to nothing.                   *)

Sets(name, url) == [name |-> name, url |-> url]
Environment == [
  prometheus |-> << Sets("a", "p1"), Sets("", "p0"), Sets("a", "p2"), Sets("default", "p3") >>,
  graphql    |-> << Sets("", "g0"), Sets("a", "g1"), Sets("TOKEN", "g2") >>,
  tempo      |-> << Sets("default", "t1"), Sets("", "t0") >>,
  database   |-> << Sets("b", "d1"), Sets("b", ""), Sets("default", "d2") >>,
  oauth      |-> {"default"}]
UnlessSet == [Environment EXCEPT !.database = << Sets("", "d0"), Sets("", "") >> \o @]
TwoEnvironments == {Environment, UnlessSet}
RequestedNames == {
  <<"prometheus", "">>, <<"prometheus", "a">>, <<"graphql", "">>, <<"graphql", "a">>,
  <<"tempo", "default">>, <<"database", "b">>, <<"database", "">>}

-----------------------------------------------------------------------------
(* A general skill, one of two that tie, a document, and one out of reach; no *)
(* general one; and two files of one type. One person on either door.         *)

Skill(stem, words, triggers) ==
  [stem |-> stem, words |-> words, document |-> FALSE, loads |-> TRUE, size |-> 2,
   triggers |-> triggers]
On(questions, solid) == [matches |-> questions, solid |-> solid]
Waf  == Skill("waf", {}, {On({"blocks"}, 3), On({"rates"}, 1)})
Rate == Skill("rate", {}, {On({"blocks", "rates"}, 3)})
Map  == [Skill("map", {}, {On({"blocks"}, 9)}) EXCEPT !.document = TRUE]
SkillFiles == {
  << Skill("general", {"general"}, {}), Map, Rate, Waf >>, << Map, Rate, Waf >>,
  << Skill("podcast", {"pod"}, {}), Skill("pods", {"pod"}, {}), Rate >> }

Ann(source) == [source |-> source, email |-> "ann", slackID |-> "A1", groups |-> {}]
Grants(tools, via) ==
  [default |-> "deny", roles |-> [r |-> [tools |-> tools, via |-> via]],
   users |-> {[emails |-> {"ann"}, slackIDs |-> {"A1"}, roles |-> {"r"}]},
   groups |-> [g \in {} |-> {}]]
Off == [Grants({}, {}) EXCEPT !.default = "off"]
SkillContext == <<"map", "waf", "lost", "rate">>
AnnsPrincipals == {Ann("slack"), Ann("mcp")}
AnnsDocuments ==
  {Grants({"waf", "map"}, {"mcp"}), Grants({"rate", "waf"}, {}), Grants({"map"}, {})}
=============================================================================
