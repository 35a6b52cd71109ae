---------------------------- MODULE SkillMatching -----------------------------
(***************************************************************************)
(* Which investigation a question is answered with, and who may know of it  *)
(* (pkg/investigations, investigations_tool.go and investigation_authz.go   *)
(* of pkg/mcp, startInvestigation of pkg/bot). The library is loaded once;  *)
(* the policy is edited while it is used. A tool asks the policy skill by   *)
(* skill, and Slack does not ask it at all.                                 *)
(*                                                                         *)
(* A file has a stem, the words its name contains, what triggers it and a   *)
(* size; a permission investigation:<name> is the name. Calls share nothing *)
(* but the policy, so one is followed at a time.                            *)
(***************************************************************************)
EXTENDS Authorization, Integers, SequencesExt

CONSTANTS
  Directories,  \* what INVESTIGATION_DIR may hold: sequences of files
  Context,      \* CONTEXT_DOCUMENTS
  Budget,       \* MaxInstructionsBytes less what is held back and the heading
  Questions,    \* what may be asked
  Names,        \* what get_investigation may be called with
  Callers,      \* principals
  Documents,    \* the policy documents
  NoPolicy,     \* authorization off: no document
  MaxEdits      \* bound: changes of the policy

Trigger == [matches : SUBSET Questions, solid : Nat]
ConstantsOK ==
  /\ \A d \in Directories : \A f \in Range(d) : f.triggers \subseteq Trigger
  /\ Context \in Seq(STRING) /\ Budget \in Nat \ {0} /\ MaxEdits \in Nat

VARIABLES
  library,  \* the skills by their types; empty if none were loaded
  given,    \* the context documents Slack's prompts and MCP's instructions have
  doc,      \* the live policy document
  edits,    \* how often it changed
  call,     \* the call under way
  barred,   \* history: skills out of the caller's reach ever since it called
  granted   \* history: skills in its reach ever since

vars == <<library, given, doc, edits, call, barred, granted>>

-----------------------------------------------------------------------------
(* NewSkillLibrary: a file that does not load, or two of one type, and there  *)
(* is no library. A file's type is that of the first known word in its name.  *)

KnownWords == <<
  <<"modsec", "modsecurity">>, <<"atlas", "atlas-migration">>,
  <<"crashloop", "pod-crashloop">>, <<"pod", "pod-crashloop">>,
  <<"cloudwatch", "cloudwatch">>, <<"dashboard", "dashboard">>,
  <<"database", "database">>, <<"general", "general-diagnostic">> >>
General == "general-diagnostic"

inferTypeFromFilename(file) ==
  LET known == SelectSeq(KnownWords, LAMBDA k : k[1] \in file.words)
  IN  IF known = <<>> THEN file.stem ELSE known[1][2]

(* Markdown is reference material, which nothing triggers. *)
loadEntry(file) ==
  [document |-> file.document, size |-> file.size,
   triggers |-> IF file.document THEN {} ELSE file.triggers]

NewSkillLibrary(dir) ==
  LET type(i) == inferTypeFromFilename(dir[i]) IN
  IF \E i \in DOMAIN dir : ~dir[i].loads \/ \E j \in DOMAIN dir \ {i} : type(j) = type(i)
  THEN <<>>
  ELSE [t \in {type(i) : i \in DOMAIN dir} |->
          loadEntry(dir[CHOOSE i \in DOMAIN dir : type(i) = t])]

(* What fits of the context documents, in the operator's order; a budget of   *)
(* zero is none.                                                              *)
Render(lib, budget, done, name) ==
  IF name \notin DOMAIN lib \/ (budget > 0 /\ lib[name].size > done.remaining)
  THEN done
  ELSE [remaining |-> done.remaining - lib[name].size, names |-> Append(done.names, name)]

RenderContext(lib, names, budget) ==
  LET after[i \in 0..Len(names)] ==
        IF i = 0 THEN [remaining |-> budget, names |-> <<>>]
        ELSE Render(lib, budget, after[i - 1], names[i])
  IN  after[Len(names)].names

-----------------------------------------------------------------------------
(* The matcher: the skill with the most solid trigger, any of those that tie  *)
(* (they are compared in the order of a Go map), or the general one.          *)

Hits(skill, q) == {t \in skill.triggers : q \in t.matches}
MatchWithSpecificity(skill, q) ==
  CHOOSE n \in {t.solid : t \in Hits(skill, q)} : \A t \in Hits(skill, q) : t.solid <= n

FindMatchingSkill(q) ==
  LET matching == {n \in DOMAIN library : Hits(library[n], q) # {}}
      specificity(n) == MatchWithSpecificity(library[n], q)
  IN  {n \in matching : \A m \in matching : specificity(m) <= specificity(n)}

Match(q) ==
  IF FindMatchingSkill(q) # {} THEN FindMatchingSkill(q) ELSE {General} \cap DOMAIN library

-----------------------------------------------------------------------------
allowsInvestigation(name) == doc = NoPolicy \/ Evaluate(doc, call.by, name)

Visible(document, p, names) ==
  {n \in names : document = NoPolicy \/ Evaluate(document, p, n)}

(* Mutation: what was matched is found, whoever asks. *)
LookupUnchecked(name) == name \in DOMAIN library

lookupVisible(name) == allowsInvestigation(name) /\ name \in DOMAIN library

Init ==
  /\ \E dir \in Directories : library = NewSkillLibrary(dir)
  /\ given = [slack |-> RenderContext(library, Context, 0),
              mcp   |-> RenderContext(library, Context, Budget)]
  /\ doc \in Documents \cup {NoPolicy} /\ edits = 0
  /\ call = [at |-> "idle", left |-> {}]
  /\ barred = {} /\ granted = {}

EditPolicy(document) ==
  /\ edits < MaxEdits /\ doc # NoPolicy
  /\ doc' = document /\ edits' = edits + 1
  /\ IF call.at = "idle" THEN UNCHANGED <<barred, granted>>
     ELSE /\ barred' = barred \ Visible(document, call.by, barred)
          /\ granted' = Visible(document, call.by, granted)
  /\ UNCHANGED <<library, given, call>>

Begin(c) ==
  /\ call.at \in {"idle", "done"}
  /\ call' = c
  /\ granted' = Visible(doc, c.by, DOMAIN library)
  /\ barred' = DOMAIN library \ granted'
  /\ UNCHANGED <<library, given, doc, edits>>

(* A call to find one skill, one that goes through the names of all that      *)
(* there are, and one that is answered at once, with the skills of "names".   *)
Find(p, tool, q, name) ==
  [at |-> "lookup", tool |-> tool, by |-> p, asked |-> q, name |-> name,
   ok |-> FALSE, names |-> {}, left |-> {}]
GoThrough(p, tool, q) ==
  [at |-> "names", tool |-> tool, by |-> p, asked |-> q, name |-> "",
   ok |-> FALSE, names |-> {}, left |-> DOMAIN library]
Say(p, tool, q, names) ==
  [at |-> "done", tool |-> tool, by |-> p, asked |-> q, name |-> "",
   ok |-> names # {}, names |-> names, left |-> {}]

(* Without a library, the tools and Slack's bot have nothing to say. *)
MatchInvestigation(p, q) ==
  /\ library # <<>>
  /\ \/ Match(q) = {} /\ Begin(GoThrough(p, "match", q))
     \/ \E n \in Match(q) : Begin(Find(p, "match", q, n))

GetInvestigation(p, name) == library # <<>> /\ Begin(Find(p, "get", name, name))

ListInvestigations(p) == library # <<>> /\ Begin(GoThrough(p, "list", ""))

(* A mention in Slack starts what its question matches. *)
StartInvestigation(p, q) ==
  /\ library # <<>> /\ p.source = "slack"
  /\ \/ Match(q) = {} /\ Begin(Say(p, "mention", q, {}))
     \/ \E n \in Match(q) : Begin(Say(p, "mention", q, {n}))

SendHelpMessage(p) ==
  library # <<>> /\ p.source = "slack" /\ Begin(Say(p, "help", "", DOMAIN library))

-----------------------------------------------------------------------------
(* A skill out of reach and one that does not exist are refused alike, with   *)
(* the names that are in reach then.                                          *)
Lookup ==
  /\ call.at = "lookup"
  /\ call' = IF lookupVisible(call.name)
             THEN [call EXCEPT !.at = "done", !.ok = TRUE, !.names = {call.name}]
             ELSE [call EXCEPT !.at = "names", !.left = DOMAIN library]
  /\ UNCHANGED <<library, given, doc, edits, barred, granted>>

(* visibleInvestigations asks about one after the other. *)
AskNext(place) ==
  \E n \in call.left :
    /\ call.at = place
    /\ call' = [call EXCEPT !.left = @ \ {n},
                            !.names = IF lookupVisible(n) THEN @ \cup {n} ELSE @]
    /\ UNCHANGED <<library, given, doc, edits, barred, granted>>

(* A list then looks each of them up, which asks again. *)
ListAgain ==
  /\ call.at = "names" /\ call.left = {} /\ call.tool = "list"
  /\ call' = [call EXCEPT !.at = "again", !.left = call.names, !.names = {}]
  /\ UNCHANGED <<library, given, doc, edits, barred, granted>>

Answer ==
  /\ call.at \in {"names", "again"} /\ call.left = {}
  /\ call.tool = "list" => call.at = "again"
  /\ call' = [call EXCEPT !.at = "done", !.ok = (call.tool = "list")]
  /\ UNCHANGED <<library, given, doc, edits, barred, granted>>

Next ==
  \/ \E p \in Callers :
       \/ \E q \in Questions : MatchInvestigation(p, q) \/ StartInvestigation(p, q)
       \/ \E n \in Names : GetInvestigation(p, n)
       \/ ListInvestigations(p) \/ SendHelpMessage(p)
  \/ \E document \in Documents : EditPolicy(document)
  \/ Lookup \/ AskNext("names") \/ AskNext("again") \/ ListAgain \/ Answer

Spec == Init /\ [][Next]_vars

-----------------------------------------------------------------------------
Answered(tools) == call.at = "done" /\ call.tool \in tools

TypeOK ==
  /\ \A s \in Range(library) : s.triggers \subseteq Trigger
  /\ Range(given.mcp) \subseteq Range(given.slack)
  /\ edits \in 0..MaxEdits /\ doc \in Documents \cup {NoPolicy}
  /\ call.at \in {"idle", "lookup", "names", "again", "done"}
  /\ barred \cap granted = {} /\ barred \cup granted \subseteq DOMAIN library

(* No answer of a tool names, shows or follows a skill that the caller may    *)
(* not know of, whatever the question matches and however the policy is       *)
(* edited meanwhile (investigation_authz.go:52-60, investigations_tool.go:    *)
(* 149-155).                                                                  *)
HiddenStaysHidden == Answered({"match", "list", "get"}) => call.names \cap barred = {}

(* And what it may know of all along is not kept from it: a list has it, it   *)
(* is got by its name, and a question is answered with it when it cannot be   *)
(* answered with another.                                                     *)
PermittedIsServed ==
  /\ Answered({"list"}) => granted \subseteq call.names
  /\ Answered({"get"}) => (call.asked \in granted => call.ok)
  /\ Answered({"match"}) => (Match(call.asked) # {} /\ Match(call.asked) \subseteq granted
                             => call.ok)
  /\ Answered({"match", "get"}) /\ ~call.ok => granted \subseteq call.names

SkillsAsPermitted == HiddenStaysHidden /\ PermittedIsServed
=============================================================================
