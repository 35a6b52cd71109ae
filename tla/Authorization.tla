---------------------------- MODULE Authorization ----------------------------
(***************************************************************************)
(* Who may run what (pkg/authz/authz.go). A principal holds the roles bound *)
(* to its identity and its groups; a role grants tools, on every front-end  *)
(* or on those it names; what no role grants falls to the default.          *)
(*                                                                         *)
(* A policy document is a record:                                           *)
(*   default  "deny" or "allow"                                             *)
(*   roles    name of a role |-> [tools, via], the tools its globs match    *)
(*            and the sources it applies on, {} for all of them             *)
(*   users    records [emails, slackIDs, roles]                             *)
(*   groups   name of a group |-> names of roles                            *)
(* and a principal is a record [source, email, slackID, groups].            *)
(***************************************************************************)

Sources == {"slack", "mcp", "local"}
Nobody == "nobody"  \* the empty email, the empty Slack id

(* A Slack user is known by the Slack id alone, anyone else by the email. *)
PrincipalMatchesUser(p, u) ==
  IF p.source = "slack"
  THEN p.slackID # Nobody /\ p.slackID \in u.slackIDs
  ELSE p.email # Nobody /\ p.email \in u.emails

(* Names of roles, some of which the document may not define. *)
MatchedRoles(cfg, p) ==
  UNION {u.roles : u \in {v \in cfg.users : PrincipalMatchesUser(p, v)}}
    \cup UNION {cfg.groups[g] : g \in p.groups \cap DOMAIN cfg.groups}

(* Mutation: where a role applies is forgotten. *)
SourceAllowedAnywhere(via, source) == TRUE

SourceAllowed(via, source) == via = {} \/ source \in via

GrantingRoles(cfg, p, tool) ==
  {cfg.roles[name] : name \in {n \in MatchedRoles(cfg, p) \cap DOMAIN cfg.roles :
                                 tool \in cfg.roles[n].tools}}

Assess(cfg, p, tool) ==
  LET granting == GrantingRoles(cfg, p, tool)
  IN  [allowed   |-> \/ \E r \in granting : SourceAllowed(r.via, p.source)
                     \/ cfg.default = "allow",
       elsewhere |-> UNION {r.via : r \in granting}]

Evaluate(cfg, p, tool) == Assess(cfg, p, tool).allowed

(* What p can do here, and what only elsewhere. *)
Capabilities(cfg, p, candidates) ==
  [here      |-> {t \in candidates : Assess(cfg, p, t).allowed},
   elsewhere |-> {t \in candidates : /\ ~Assess(cfg, p, t).allowed
                                     /\ Assess(cfg, p, t).elsewhere # {}}]
=============================================================================
