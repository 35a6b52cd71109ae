---------------------------- MODULE MCToolSurface ----------------------------
(***************************************************************************)
(* An instance of ToolSurface for TLC.                                      *)
(***************************************************************************)
EXTENDS ToolSurface, FiniteSets

(* One backend alone, or one missing: every tool is gated by one backend.    *)
FewOrMost ==
  {b \in SUBSET Backends : Cardinality(b) <= 1 \/ Cardinality(Backends \ b) <= 1}

WriteTools == Writes
ReadTools  == Tools \ Writes

(* Readers anywhere; writers over MCP only, by email or by group, as the     *)
(* README advises, also for someone known to Slack.                          *)
Scoped ==
  [default |-> "deny",
   roles |-> [reader |-> [tools |-> ReadTools, via |-> {}],
              writer |-> [tools |-> WriteTools, via |-> {"mcp"}]],
   users |-> {[emails |-> {"ann"}, slackIDs |-> {"U1"}, roles |-> {"reader", "writer"}]},
   groups |-> [sre |-> {"writer", "unknown"}]]

(* Slack may use the tools without a backend, nobody else anything. *)
SlackOnly ==
  [Scoped EXCEPT !.roles = [reader |-> [tools |-> Utility, via |-> {"slack"}]]]

Open   == [Scoped EXCEPT !.default = "allow"]
Closed == [Scoped EXCEPT !.users = {}, !.groups = [sre |-> {}]]

AllDocuments == {Scoped, SlackOnly, Open, Closed}

Principal(source, email, slackID, groups) ==
  [source |-> source, email |-> email, slackID |-> slackID, groups |-> groups]

(* A Slack user, one of MCP, a group's member and a client without login. *)
AllCallers ==
  {[door |-> "slack", principal |-> Principal("slack", Nobody, "U1", {})],
   [door |-> "mcp", principal |-> Principal("mcp", "ann", Nobody, {})],
   [door |-> "mcp", principal |-> Principal("mcp", "bob", Nobody, {"sre"})],
   [door |-> "mcp", principal |-> Principal("local", Nobody, Nobody, {})]}
=============================================================================
