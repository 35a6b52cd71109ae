------------------------------ MODULE AgentLoop ------------------------------
(***************************************************************************)
(* The agent loop behind every Slack investigation (pkg/bot/agent.go, with  *)
(* claude.Client.SendMessage and mcp.Server.DispatchTool). A run offers the *)
(* model a catalog of tools, sends the conversation, answers every tool     *)
(* call of the reply in one turn and sends again, until the model answers   *)
(* without a tool call, a request fails or the iterations are used up. Runs *)
(* of several users go on at once, and the policy that grants them tools is *)
(* reloaded under them (AuthzPolicy models how).                            *)
(*                                                                         *)
(* A turn is its role and the ids of the tool calls it makes or answers:    *)
(* texts, arguments and the filtering of results are left out.              *)
(***************************************************************************)
EXTENDS Integers, Sequences, FiniteSets

CONSTANTS
  Runs,
  Tools,       \* the tools the server defines, generate_pdf among them
  PdfTool,     \* generate_pdf
  Iterations,  \* maxAgentIterations
  MaxUses,     \* bound: MaxUses[r] tool calls in one reply of the model to r
  MaxReloads   \* bound: changes of the policy

ASSUME ToolsAssumption == PdfTool \in Tools
ASSUME RunsAssumption == IsFiniteSet(Runs)
ASSUME BoundsAssumption ==
  /\ Iterations \in Nat \ {0}
  /\ MaxUses \in [Runs -> Nat]
  /\ MaxReloads \in Nat

VARIABLES
  granted,    \* the tools the live policy grants
  reloads,    \* changes of the policy so far
  inFlight,   \* the investigations_in_flight gauge
  pc,         \* where each run stands
  pdf,        \* pdf[r]: the pdfEnabled flag r was started with
  todo,       \* todo[r]: tools AllowedTools has not asked the policy about yet
  catalog,    \* catalog[r]: the tools offered to the model
  messages,   \* messages[r]: the conversation, a sequence of turns
  uses,       \* uses[r]: the tool calls of the model's last reply
  answers,    \* answers[r]: ids of those answered so far, in order
  iteration,  \* iteration[r]: turns of tool calls answered so far
  kept,       \* history: tools granted ever since r began its catalog
  barred      \* history: tools granted at no time since r's last reply came

policy  == <<granted, reloads>>
offer   == <<pdf, todo, catalog>>
batch   == <<uses, answers>>
history == <<kept, barred>>
vars    == <<policy, inFlight, pc, offer, messages, batch, iteration, history>>

-----------------------------------------------------------------------------
(* A run is under way from AddInvestigationInFlight(1) to its deferred undo. *)
Running == {"offer", "send", "tools", "execute"}

Goto(r, label) == pc' = [pc EXCEPT ![r] = label]

(* The run's locals are gone. *)
Forget(r) ==
  /\ pdf' = [pdf EXCEPT ![r] = FALSE]
  /\ todo' = [todo EXCEPT ![r] = {}]
  /\ catalog' = [catalog EXCEPT ![r] = {}]
  /\ messages' = [messages EXCEPT ![r] = <<>>]
  /\ uses' = [uses EXCEPT ![r] = <<>>]
  /\ answers' = [answers EXCEPT ![r] = <<>>]
  /\ kept' = [kept EXCEPT ![r] = {}]
  /\ barred' = [barred EXCEPT ![r] = {}]

(* RunInvestigation returns, or panics: what it deferred runs either way.    *)
Finish(r, outcome) ==
  /\ Goto(r, outcome)
  /\ inFlight' = inFlight - 1
  /\ Forget(r)
  /\ UNCHANGED <<policy, iteration>>

Turn(role, ids) == [role |-> role, ids |-> ids]

(* The ids of n tool calls: their places in the reply. *)
Ids(n) == [i \in 1 .. n |-> i]

(* What a reply asks for: the tools of its calls, in order. *)
Replies(r) == UNION {[1 .. n -> Tools] : n \in 1 .. MaxUses[r]}

NextUse(r) == uses[r][Len(answers[r]) + 1]

-----------------------------------------------------------------------------
StartRun(r, enabled) ==
  /\ pc[r] = "idle"
  /\ Goto(r, "offer")
  /\ inFlight' = inFlight + 1
  /\ pdf' = [pdf EXCEPT ![r] = enabled]
  /\ todo' = [todo EXCEPT ![r] = Tools]
  /\ kept' = [kept EXCEPT ![r] = granted]
  /\ UNCHANGED <<policy, catalog, messages, batch, iteration, barred>>

(* Mutation: without reports nothing is offered. *)
OfferNothingWithoutReports(r) ==
  /\ pc[r] = "offer"
  /\ \E t \in todo[r] :
       /\ todo' = [todo EXCEPT ![r] = @ \ {t}]
       /\ catalog' = IF t \in granted /\ pdf[r]
                     THEN [catalog EXCEPT ![r] = @ \cup {t}]
                     ELSE catalog
  /\ UNCHANGED <<policy, inFlight, pc, pdf, messages, batch, iteration, history>>

(* AllowedTools evaluates the live policy tool by tool; filterPDFTool drops  *)
(* generate_pdf when reports are off.                                        *)
OfferTool(r) ==
  /\ pc[r] = "offer"
  /\ \E t \in todo[r] :
       /\ todo' = [todo EXCEPT ![r] = @ \ {t}]
       /\ catalog' = IF t \in granted /\ (t = PdfTool => pdf[r])
                     THEN [catalog EXCEPT ![r] = @ \cup {t}]
                     ELSE catalog
  /\ UNCHANGED <<policy, inFlight, pc, pdf, messages, batch, iteration, history>>

BeginLoop(r) ==
  /\ pc[r] = "offer" /\ todo[r] = {}
  /\ messages' = [messages EXCEPT ![r] = <<Turn("user", <<>>)>>]
  /\ Goto(r, "send")
  /\ UNCHANGED <<policy, inFlight, offer, batch, iteration, history>>

(* Mutation: the end of the loop lowers the gauge as well. *)
EndLoopTwice(r) ==
  /\ pc[r] = "send"
  /\ Goto(r, "answered")
  /\ inFlight' = inFlight - 2
  /\ Forget(r)
  /\ UNCHANGED <<policy, iteration>>

(* The request fails, or the reply has no tool call and is the answer.       *)
EndLoop(r) ==
  /\ pc[r] = "send"
  /\ \E outcome \in {"failed", "answered"} : Finish(r, outcome)

(* The reply calls tools, in the catalog or not: it becomes a turn.          *)
RequestTools(r, reply) ==
  /\ pc[r] = "send"
  /\ messages' = [messages EXCEPT ![r] = Append(@, Turn("assistant", Ids(Len(reply))))]
  /\ uses' = [uses EXCEPT ![r] = reply]
  /\ answers' = [answers EXCEPT ![r] = <<>>]
  /\ barred' = [barred EXCEPT ![r] = Tools \ granted]
  /\ Goto(r, "tools")
  /\ UNCHANGED <<policy, inFlight, offer, iteration, kept>>

(* The call at hand gets its tool_result, an error or an output. *)
Answer(r) ==
  /\ answers' = [answers EXCEPT ![r] = Append(@, Len(@) + 1)]
  /\ Goto(r, "tools")
  /\ UNCHANGED <<policy, inFlight, offer, messages, uses, iteration, history>>

MoreToAnswer(r) == pc[r] = "tools" /\ Len(answers[r]) < Len(uses[r])

(* Its arguments do not parse. *)
InvalidArguments(r) == MoreToAnswer(r) /\ Answer(r)

(* Mutation: a denied call is left without a result and the next one tried. *)
DenySilently(r) ==
  /\ MoreToAnswer(r)
  /\ NextUse(r) \notin granted
  /\ uses' = [uses EXCEPT ![r] = SubSeq(@, 1, Len(answers[r]))
                                   \o SubSeq(@, Len(answers[r]) + 2, Len(@))]
  /\ UNCHANGED <<policy, inFlight, pc, offer, messages, answers, iteration, history>>

(* DispatchTool asks the policy as it is now... *)
Deny(r) ==
  /\ MoreToAnswer(r)
  /\ NextUse(r) \notin granted
  /\ Answer(r)

(* Mutation: the catalog handed out at the start of the run decides. *)
AuthorizeByCatalog(r) ==
  /\ MoreToAnswer(r)
  /\ NextUse(r) \in catalog[r]
  /\ Goto(r, "execute")
  /\ UNCHANGED <<policy, inFlight, offer, messages, batch, iteration, history>>

Authorize(r) ==
  /\ MoreToAnswer(r)
  /\ NextUse(r) \in granted
  /\ Goto(r, "execute")
  /\ UNCHANGED <<policy, inFlight, offer, messages, batch, iteration, history>>

(* ...and runs the tool, which succeeds or fails. *)
ExecuteTool(r) ==
  /\ pc[r] = "execute"
  /\ Answer(r)

(* Mutation: the loop has no limit of its own. *)
AnswerForEver(r) ==
  /\ pc[r] = "tools" /\ Len(answers[r]) = Len(uses[r])
  /\ messages' = [messages EXCEPT ![r] = SubSeq(@, 1, 1)]
  /\ Goto(r, "send")
  /\ UNCHANGED <<policy, inFlight, offer, batch, iteration, history>>

(* All results go into one user turn, and the loop goes round again... *)
AnswerTools(r) ==
  /\ pc[r] = "tools" /\ Len(answers[r]) = Len(uses[r])
  /\ iteration[r] + 1 < Iterations
  /\ messages' = [messages EXCEPT ![r] = Append(@, Turn("user", answers[r]))]
  /\ iteration' = [iteration EXCEPT ![r] = @ + 1]
  /\ Goto(r, "send")
  /\ UNCHANGED <<policy, inFlight, offer, batch, history>>

(* ...unless this was the last iteration: its tools ran all the same. *)
ExceedIterations(r) ==
  /\ pc[r] = "tools" /\ Len(answers[r]) = Len(uses[r])
  /\ iteration[r] + 1 = Iterations
  /\ Finish(r, "failed")

(* Mutation: the gauge is lowered on return only, not deferred. *)
PanicInFlight(r) ==
  /\ pc[r] \in Running
  /\ Goto(r, "failed")
  /\ Forget(r)
  /\ UNCHANGED <<policy, inFlight, iteration>>

(* A panic unwinds through RunInvestigation; safeGo contains it. *)
Panic(r) ==
  /\ pc[r] \in Running
  /\ Finish(r, "failed")

(* The policy changes under the runs. *)
Reload(tools) ==
  /\ reloads < MaxReloads
  /\ reloads' = reloads + 1
  /\ granted' = tools
  /\ kept' = [r \in Runs |-> kept[r] \cap tools]
  /\ barred' = [r \in Runs |-> barred[r] \ tools]
  /\ UNCHANGED <<inFlight, pc, offer, messages, batch, iteration>>

Init ==
  /\ granted \in SUBSET Tools
  /\ reloads = 0
  /\ inFlight = 0
  /\ pc = [r \in Runs |-> "idle"]
  /\ pdf = [r \in Runs |-> FALSE]
  /\ todo = [r \in Runs |-> {}]
  /\ catalog = [r \in Runs |-> {}]
  /\ messages = [r \in Runs |-> <<>>]
  /\ uses = [r \in Runs |-> <<>>]
  /\ answers = [r \in Runs |-> <<>>]
  /\ iteration = [r \in Runs |-> 0]
  /\ kept = [r \in Runs |-> {}]
  /\ barred = [r \in Runs |-> {}]

Step(r) ==
  \/ OfferTool(r) \/ BeginLoop(r) \/ EndLoop(r)
  \/ \E reply \in Replies(r) : RequestTools(r, reply)
  \/ InvalidArguments(r) \/ Deny(r) \/ Authorize(r) \/ ExecuteTool(r)
  \/ AnswerTools(r) \/ ExceedIterations(r)

Next ==
  \/ \E r \in Runs : \/ \E enabled \in BOOLEAN : StartRun(r, enabled)
                     \/ Step(r)
                     \/ Panic(r)
  \/ \E tools \in SUBSET Tools : Reload(tools)

Spec == Init /\ [][Next]_vars

(* Requests to the model and tools return, with an answer or an error. *)
FairSpec == Spec /\ \A r \in Runs : WF_vars(Step(r))

-----------------------------------------------------------------------------
(* Properties.                                                               *)

IdLists(r) == {Ids(n) : n \in 0 .. MaxUses[r]}

Turns(r) == [role : {"user", "assistant"}, ids : IdLists(r)]

TypeOK ==
  /\ granted \in SUBSET Tools
  /\ reloads \in 0 .. MaxReloads
  /\ inFlight \in 0 .. Cardinality(Runs)
  /\ pc \in [Runs -> {"idle", "failed", "answered"} \cup Running]
  /\ pdf \in [Runs -> BOOLEAN]
  /\ todo \in [Runs -> SUBSET Tools]
  /\ catalog \in [Runs -> SUBSET Tools]
  /\ \A r \in Runs : /\ messages[r] \in Seq(Turns(r))
                    /\ uses[r] \in Replies(r) \cup {<<>>}
                    /\ answers[r] \in IdLists(r)
  /\ iteration \in [Runs -> 0 .. Iterations]
  /\ kept \in [Runs -> SUBSET Tools]
  /\ barred \in [Runs -> SUBSET Tools]

RunningRuns == {r \in Runs : pc[r] \in Running}

(* Roles alternate from the user's question on, and each turn of tool calls *)
(* is answered by the next one: every call once, in order.                   *)
WellFormed(conversation) ==
  /\ \A i \in DOMAIN conversation :
       conversation[i].role = IF i % 2 = 1 THEN "user" ELSE "assistant"
  /\ \A i \in DOMAIN conversation :
       (i % 2 = 0 /\ i + 1 \in DOMAIN conversation)
         => conversation[i + 1].ids = conversation[i].ids

(* What the loop sends is a conversation the API accepts (agent.go: "the API *)
(* requires roles to alternate and all tool_results to be batched together"), *)
(* whichever calls of a reply were invalid, denied or failed.                 *)
RequestsWellFormed ==
  \A r \in Runs :
    pc[r] = "send" => /\ WellFormed(messages[r])
                      /\ Len(messages[r]) = 2 * iteration[r] + 1

(* The in-flight gauge counts the runs under way, panics or not. *)
InFlightCountsRuns == inFlight = Cardinality(RunningRuns)

(* The catalog is only an offer: a tool that was revoked before the model    *)
(* asked for it, and not granted again since, is not executed.               *)
RevocationsHold ==
  \A r \in Runs : pc[r] = "execute" => NextUse(r) \notin barred[r]

(* mcp.Server.AllowedTools: the advertised set matches enforcement. A tool   *)
(* granted during the whole run is in its catalog (reports off apart), and a *)
(* tool call that dispatch denies is for one that was not.                   *)
OfferMatchesDispatch ==
  [][\A r \in Runs :
       /\ (pc[r] = "offer" /\ pc'[r] = "send")
            => kept[r] \ {PdfTool} \subseteq catalog[r]
       /\ Deny(r) => NextUse(r) \notin kept[r]]_vars

(* A run ends whatever the model does: it may ask for tools for ever.        *)
RunsEnd == \A r \in Runs : (pc[r] \in Running) ~> (pc[r] \notin Running)
=============================================================================
