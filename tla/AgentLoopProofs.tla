--------------------------- MODULE AgentLoopProofs ---------------------------
(***************************************************************************)
(* Proofs about AgentLoop, for any runs, tools, iterations, replies and     *)
(* reloads: the types, that the gauge counts the runs, that every request   *)
(* is a conversation the API accepts, that a revocation holds and that what *)
(* is offered agrees with what is dispatched.                               *)
(*                                                                         *)
(* All but the gauge are about one run at a time, so the invariant is a     *)
(* conjunction over the runs: OthersKeep says that a step of one run leaves *)
(* the locals of the others alone, and what follows looks at one run.       *)
(***************************************************************************)
EXTENDS AgentLoop, SequenceTheorems, FiniteSetTheorems, TLAPS

Labels == {"idle", "failed", "answered"} \cup Running

(* A step of run r, by itself or by the Slack handler that starts it. *)
RunStep(r) ==
  \/ \E enabled \in BOOLEAN : StartRun(r, enabled)
  \/ Step(r)
  \/ Panic(r)

-----------------------------------------------------------------------------
(* The inductive invariant.                                                  *)

(* Every variable of the runs is a function of the run. *)
OfRuns(f) == f = [r \in Runs |-> f[r]]

Domains ==
  /\ OfRuns(pc) /\ OfRuns(pdf) /\ OfRuns(todo) /\ OfRuns(catalog)
  /\ OfRuns(messages) /\ OfRuns(uses) /\ OfRuns(answers) /\ OfRuns(iteration)
  /\ OfRuns(kept) /\ OfRuns(barred)

PolicyTyped == granted \in SUBSET Tools /\ reloads \in 0 .. MaxReloads

(* The locals of one run. *)
RunTyped(r) ==
  /\ pc[r] \in Labels
  /\ pdf[r] \in BOOLEAN
  /\ todo[r] \in SUBSET Tools
  /\ catalog[r] \in SUBSET Tools
  /\ messages[r] \in Seq(Turns(r))
  /\ uses[r] \in Replies(r) \cup {<<>>}
  /\ answers[r] \in IdLists(r)
  /\ iteration[r] \in 0 .. Iterations
  /\ kept[r] \in SUBSET Tools
  /\ barred[r] \in SUBSET Tools

(* Where the run stands in its batch of tool calls. *)
BatchAt(r) ==
  /\ Len(answers[r]) <= Len(uses[r])
  /\ pc[r] = "execute" => Len(answers[r]) < Len(uses[r])

(* Where the run stands in its conversation: after its question and the     *)
(* answered turns, and after the reply whose calls it is answering.          *)
ConversationAt(r) ==
  /\ pc[r] \in {"idle", "offer"} => iteration[r] = 0
  /\ pc[r] \in Running => iteration[r] < Iterations
  /\ pc[r] \in {"send", "tools", "execute"} => WellFormed(messages[r])
  /\ pc[r] = "send" => Len(messages[r]) = 2 * iteration[r] + 1
  /\ pc[r] \in {"tools", "execute"} =>
       /\ Len(messages[r]) = 2 * iteration[r] + 2
       /\ messages[r][Len(messages[r])].ids = Ids(Len(uses[r]))

(* What the policy granted all along is granted now, and offered once asked; *)
(* what it did not grant since the reply came is not granted now, and not    *)
(* executed.                                                                 *)
HistoryAt(r) ==
  /\ kept[r] \subseteq granted
  /\ barred[r] \cap granted = {}
  /\ pc[r] = "offer" => (kept[r] \ todo[r]) \ {PdfTool} \subseteq catalog[r]
  /\ pc[r] = "execute" => NextUse(r) \notin barred[r]

RunOK(r) == RunTyped(r) /\ BatchAt(r) /\ ConversationAt(r) /\ HistoryAt(r)

IInv ==
  /\ Domains
  /\ PolicyTyped
  /\ InFlightCountsRuns
  /\ \A r \in Runs : RunOK(r)

-----------------------------------------------------------------------------
(* Lemmas about the operators of the model.                                  *)

(* A reply is a sequence of at most MaxUses[r] tools, and not empty. *)
LEMMA RepliesAreSequences ==
  ASSUME NEW r \in Runs, NEW reply \in Replies(r)
  PROVE  /\ reply \in Seq(Tools)
         /\ Len(reply) \in 1 .. MaxUses[r]
<1>1. PICK n \in 1 .. MaxUses[r] : reply \in [1 .. n -> Tools]
  BY DEF Replies
<1>2. MaxUses[r] \in Nat /\ n \in Nat
  BY BoundsAssumption
<1> QED
  BY <1>1, <1>2

(* The ids of n calls are a sequence of that length... *)
LEMMA IdsLength ==
  ASSUME NEW n \in Nat
  PROVE  Ids(n) \in Seq(Nat) /\ Len(Ids(n)) = n
BY DEF Ids

(* ...and one more answer makes them the ids of n + 1. *)
LEMMA NextId ==
  ASSUME NEW n \in Nat
  PROVE  Append(Ids(n), Len(Ids(n)) + 1) = Ids(n + 1)
BY IdsLength DEF Ids

(* The ids in the list of answers are those of as many calls. *)
LEMMA AnswersAreIds ==
  ASSUME NEW r \in Runs, NEW list \in IdLists(r)
  PROVE  /\ list = Ids(Len(list))
         /\ Len(list) \in 0 .. MaxUses[r]
<1>1. PICK n \in 0 .. MaxUses[r] : list = Ids(n)
  BY DEF IdLists
<1>2. n \in Nat
  BY BoundsAssumption
<1> QED
  BY <1>1, <1>2, IdsLength

(* A conversation stays well formed when a turn of the right role is added,  *)
(* and a turn of the user's answers the one before it.                       *)
LEMMA OneMoreTurn ==
  ASSUME NEW S, NEW conversation \in Seq(S), NEW turn \in S,
         WellFormed(conversation),
         turn.role = IF Len(conversation) % 2 = 0 THEN "user" ELSE "assistant",
         (Len(conversation) > 0 /\ Len(conversation) % 2 = 0)
           => turn.ids = conversation[Len(conversation)].ids
  PROVE  WellFormed(Append(conversation, turn))
<1> DEFINE longer == Append(conversation, turn)
           n == Len(conversation)
<1>1. /\ n \in Nat
      /\ DOMAIN conversation = 1 .. n
      /\ DOMAIN longer = 1 .. n + 1
      /\ \A i \in 1 .. n : longer[i] = conversation[i]
      /\ longer[n + 1] = turn
  BY AppendProperties, LenProperties
<1> HIDE DEF longer, n
<1>2. \A i \in DOMAIN longer :
        longer[i].role = IF i % 2 = 1 THEN "user" ELSE "assistant"
  <2> SUFFICES ASSUME NEW i \in 1 .. n + 1
               PROVE  longer[i].role = IF i % 2 = 1 THEN "user" ELSE "assistant"
    BY <1>1
  <2>1. CASE i \in 1 .. n
    BY <1>1, <2>1 DEF WellFormed
  <2>2. CASE i = n + 1
    BY <1>1, <2>2 DEF n
  <2> QED
    BY <1>1, <2>1, <2>2
<1>3. \A i \in DOMAIN longer :
        (i % 2 = 0 /\ i + 1 \in DOMAIN longer) => longer[i + 1].ids = longer[i].ids
  <2> SUFFICES ASSUME NEW i \in 1 .. n, i % 2 = 0
               PROVE  longer[i + 1].ids = longer[i].ids
    BY <1>1
  <2>1. CASE i < n
    <3>1. i \in 1 .. n /\ i + 1 \in 1 .. n
      BY <1>1, <2>1
    <3>2. conversation[i + 1].ids = conversation[i].ids
      BY <1>1, <3>1 DEF WellFormed
    <3> QED
      BY <1>1, <3>1, <3>2
  <2>2. CASE i = n
    BY <1>1, <2>2 DEF n
  <2> QED
    BY <1>1, <2>1, <2>2
<1> QED
  BY <1>2, <1>3 DEF WellFormed, longer

LEMMA Parity ==
  ASSUME NEW k \in Nat
  PROVE  (2 * k + 1) % 2 = 1 /\ (2 * k + 2) % 2 = 0
OBVIOUS

(* A step of one run leaves the policy and the other runs alone. *)
LEMMA OthersKeep ==
  ASSUME Domains, NEW r \in Runs, RunStep(r)
  PROVE  /\ Domains'
         /\ UNCHANGED policy
         /\ \A q \in Runs \ {r} :
              /\ pc'[q] = pc[q] /\ pdf'[q] = pdf[q] /\ todo'[q] = todo[q]
              /\ catalog'[q] = catalog[q] /\ messages'[q] = messages[q]
              /\ uses'[q] = uses[q] /\ answers'[q] = answers[q]
              /\ iteration'[q] = iteration[q]
              /\ kept'[q] = kept[q] /\ barred'[q] = barred[q]
<1> USE DEF Domains, OfRuns, Goto, Forget, Finish, Answer, policy, offer, batch, history
<1>1. CASE \E enabled \in BOOLEAN : StartRun(r, enabled)
  BY <1>1 DEF StartRun
<1>2. CASE OfferTool(r)
  BY <1>2 DEF OfferTool
<1>3. CASE BeginLoop(r)
  BY <1>3 DEF BeginLoop
<1>4. CASE EndLoop(r)
  BY <1>4 DEF EndLoop
<1>5. CASE \E reply \in Replies(r) : RequestTools(r, reply)
  BY <1>5 DEF RequestTools
<1>6. CASE InvalidArguments(r) \/ Deny(r) \/ ExecuteTool(r)
  BY <1>6 DEF InvalidArguments, Deny, ExecuteTool
<1>7. CASE Authorize(r)
  BY <1>7 DEF Authorize
<1>8. CASE AnswerTools(r)
  BY <1>8 DEF AnswerTools
<1>9. CASE ExceedIterations(r)
  BY <1>9 DEF ExceedIterations
<1>10. CASE Panic(r)
  BY <1>10 DEF Panic
<1> QED
  BY <1>1, <1>2, <1>3, <1>4, <1>5, <1>6, <1>7, <1>8, <1>9, <1>10 DEF RunStep, Step

-----------------------------------------------------------------------------
(* The types of one run, action by action.                                   *)

LEMMA StepRunTyped ==
  ASSUME IInv, NEW r \in Runs, RunStep(r)
  PROVE  RunTyped(r)'
<1>1. Domains /\ PolicyTyped /\ RunTyped(r) /\ BatchAt(r) /\ ConversationAt(r)
  BY DEF IInv, RunOK
<1>2. IdLists(r)' = IdLists(r) /\ Turns(r)' = Turns(r) /\ Replies(r)' = Replies(r)
  BY DEF IdLists, Turns, Replies
<1>3. /\ Iterations \in Nat \ {0} /\ MaxUses[r] \in Nat
      /\ <<>> \in IdLists(r)
  BY BoundsAssumption DEF IdLists, Ids
<1>4. ASSUME Finish(r, "failed") \/ Finish(r, "answered")
      PROVE  RunTyped(r)'
  <2>1. /\ pc'[r] \in {"failed", "answered"} /\ pdf'[r] = FALSE
        /\ todo'[r] = {} /\ catalog'[r] = {} /\ messages'[r] = <<>>
        /\ uses'[r] = <<>> /\ answers'[r] = <<>> /\ iteration' = iteration
        /\ kept'[r] = {} /\ barred'[r] = {}
    BY <1>1, <1>4 DEF Finish, Goto, Forget, Domains, OfRuns
  <2>2. <<>> \in Seq(Turns(r))
    BY EmptySeq
  <2> QED
    BY <1>1, <1>2, <1>3, <2>1, <2>2 DEF RunTyped, Labels
<1>5. ASSUME Answer(r), MoreToAnswer(r) \/ pc[r] = "execute"
      PROVE  RunTyped(r)'
  <2>1. Len(answers[r]) < Len(uses[r])
    BY <1>1, <1>5 DEF MoreToAnswer, BatchAt
  <2>2. Len(uses[r]) \in 0 .. MaxUses[r]
    BY <1>1, <1>3, RepliesAreSequences DEF RunTyped
  <2>3. answers[r] = Ids(Len(answers[r])) /\ Len(answers[r]) \in 0 .. MaxUses[r]
    BY <1>1, AnswersAreIds DEF RunTyped
  <2>4. answers'[r] = Ids(Len(answers[r]) + 1)
    BY <1>1, <1>5, <2>3, NextId DEF Answer, Domains, OfRuns
  <2>5. answers'[r] \in IdLists(r)
    BY <1>3, <2>1, <2>2, <2>3, <2>4 DEF IdLists
  <2> QED
    BY <1>1, <1>2, <1>5, <2>5
       DEF Answer, Goto, Domains, OfRuns, RunTyped, Labels, Running, offer, history
<1>6. CASE \E enabled \in BOOLEAN : StartRun(r, enabled)
  BY <1>1, <1>2, <1>6
     DEF StartRun, Goto, Domains, OfRuns, PolicyTyped, RunTyped, Labels, Running, batch
<1>7. CASE OfferTool(r)
  BY <1>1, <1>2, <1>7 DEF OfferTool, Domains, OfRuns, RunTyped, batch, history
<1>8. CASE BeginLoop(r)
  <2>1. Turn("user", <<>>) \in Turns(r)
    BY <1>3 DEF Turn, Turns
  <2> QED
    BY <1>1, <1>2, <1>8, <2>1
       DEF BeginLoop, Goto, Domains, OfRuns, RunTyped, Labels, Running, offer, batch, history
<1>9. CASE EndLoop(r)
  BY <1>4, <1>9 DEF EndLoop
<1>10. CASE \E reply \in Replies(r) : RequestTools(r, reply)
  <2>1. PICK reply \in Replies(r) : RequestTools(r, reply)
    BY <1>10
  <2>2. Turn("assistant", Ids(Len(reply))) \in Turns(r)
    BY <1>3, RepliesAreSequences DEF Turn, Turns, IdLists
  <2>3. messages'[r] \in Seq(Turns(r))
    BY <1>1, <2>1, <2>2, AppendProperties DEF RequestTools, Domains, OfRuns, RunTyped
  <2> QED
    BY <1>1, <1>2, <1>3, <2>1, <2>3
       DEF RequestTools, Goto, Domains, OfRuns, PolicyTyped, RunTyped, Labels, Running, offer
<1>11. CASE InvalidArguments(r) \/ Deny(r) \/ ExecuteTool(r)
  BY <1>5, <1>11 DEF InvalidArguments, Deny, ExecuteTool
<1>12. CASE Authorize(r)
  BY <1>1, <1>2, <1>12
     DEF Authorize, Goto, Domains, OfRuns, RunTyped, Labels, Running, offer, batch, history
<1>13. CASE AnswerTools(r)
  <2>1. Turn("user", answers[r]) \in Turns(r)
    BY <1>1 DEF Turn, Turns, RunTyped
  <2>2. messages'[r] \in Seq(Turns(r))
    BY <1>1, <1>13, <2>1, AppendProperties DEF AnswerTools, Domains, OfRuns, RunTyped
  <2>3. iteration'[r] \in 0 .. Iterations
    BY <1>1, <1>3, <1>13 DEF AnswerTools, Domains, OfRuns, RunTyped
  <2> QED
    BY <1>1, <1>2, <1>13, <2>2, <2>3
       DEF AnswerTools, Goto, Domains, OfRuns, RunTyped, Labels, Running, offer, batch, history
<1>14. CASE ExceedIterations(r)
  BY <1>4, <1>14 DEF ExceedIterations
<1>15. CASE Panic(r)
  BY <1>4, <1>15 DEF Panic
<1> QED
  BY <1>6, <1>7, <1>8, <1>9, <1>10, <1>11, <1>12, <1>13, <1>14, <1>15 DEF RunStep, Step

-----------------------------------------------------------------------------
(* The batch, the conversation and the history of one run.                   *)

(* An answered call moves the batch on by one. *)
LEMMA AnswerMovesOn ==
  ASSUME IInv, NEW r \in Runs, Answer(r), MoreToAnswer(r) \/ pc[r] = "execute"
  PROVE  /\ BatchAt(r)' /\ ConversationAt(r)' /\ HistoryAt(r)'
<1>1. Domains /\ RunTyped(r) /\ BatchAt(r) /\ ConversationAt(r) /\ HistoryAt(r)
  BY DEF IInv, RunOK
<1>2. Len(answers[r]) < Len(uses[r])
  BY <1>1 DEF MoreToAnswer, BatchAt
<1>3. answers[r] = Ids(Len(answers[r])) /\ Len(answers[r]) \in Nat
  BY <1>1, AnswersAreIds, BoundsAssumption DEF RunTyped
<1>4. Len(answers'[r]) = Len(answers[r]) + 1
  BY <1>1, <1>3, IdsLength, NextId DEF Answer, Domains, OfRuns
<1>5. Len(uses[r]) \in Nat
  BY <1>1, RepliesAreSequences, BoundsAssumption DEF RunTyped
<1>6. /\ pc'[r] = "tools" /\ pc[r] \in {"tools", "execute"}
      /\ uses'[r] = uses[r] /\ messages' = messages /\ iteration' = iteration
      /\ kept' = kept /\ granted' = granted /\ barred' = barred
  BY <1>1 DEF Answer, Goto, Domains, OfRuns, MoreToAnswer, policy, history
<1>7. BatchAt(r)'
  BY <1>2, <1>4, <1>5, <1>6 DEF BatchAt
<1>8. ConversationAt(r)'
  BY <1>1, <1>6 DEF ConversationAt, Running
<1>9. HistoryAt(r)'
  BY <1>1, <1>6 DEF HistoryAt
<1> QED
  BY <1>7, <1>8, <1>9

LEMMA StepRunAt ==
  ASSUME IInv, NEW r \in Runs, RunStep(r)
  PROVE  BatchAt(r)' /\ ConversationAt(r)' /\ HistoryAt(r)'
<1>1. /\ Domains /\ PolicyTyped
      /\ RunTyped(r) /\ BatchAt(r) /\ ConversationAt(r) /\ HistoryAt(r)
  BY DEF IInv, RunOK
<1>2. Iterations \in Nat \ {0}
  BY BoundsAssumption
<1>3. ASSUME Finish(r, "failed") \/ Finish(r, "answered")
      PROVE  BatchAt(r)' /\ ConversationAt(r)' /\ HistoryAt(r)'
  BY <1>1, <1>3
     DEF Finish, Goto, Forget, Domains, OfRuns, BatchAt, ConversationAt, HistoryAt, Running
<1>4. CASE \E enabled \in BOOLEAN : StartRun(r, enabled)
  <2>1. BatchAt(r)'
    BY <1>1, <1>4 DEF StartRun, Goto, Domains, OfRuns, BatchAt, batch
  <2>2. ConversationAt(r)'
    BY <1>1, <1>2, <1>4 DEF StartRun, Goto, Domains, OfRuns, ConversationAt, Running
  <2>3. HistoryAt(r)'
    BY <1>1, <1>4 DEF StartRun, Goto, Domains, OfRuns, PolicyTyped, HistoryAt, policy
  <2> QED
    BY <2>1, <2>2, <2>3
<1>5. CASE OfferTool(r)
  <2>1. BatchAt(r)'
    BY <1>1, <1>5 DEF OfferTool, BatchAt, batch
  <2>2. ConversationAt(r)'
    BY <1>1, <1>5 DEF OfferTool, ConversationAt, Running
  <2>3. HistoryAt(r)'
    BY <1>1, <1>5 DEF OfferTool, Domains, OfRuns, HistoryAt, policy, history
  <2> QED
    BY <2>1, <2>2, <2>3
<1>6. CASE BeginLoop(r)
  <2>1. /\ messages'[r] = <<Turn("user", <<>>)>> /\ pc[r] = "offer" /\ pc'[r] = "send"
        /\ iteration' = iteration
    BY <1>1, <1>6 DEF BeginLoop, Goto, Domains, OfRuns
  <2>2. WellFormed(messages'[r]) /\ Len(messages'[r]) = 1
    BY <2>1 DEF WellFormed, Turn
  <2>3. ConversationAt(r)'
    BY <1>1, <1>2, <2>1, <2>2 DEF ConversationAt, RunTyped, Running
  <2>4. BatchAt(r)' /\ HistoryAt(r)'
    BY <1>1, <1>6, <2>1 DEF BeginLoop, BatchAt, HistoryAt, batch, history, policy
  <2> QED
    BY <2>3, <2>4
<1>7. CASE EndLoop(r)
  BY <1>3, <1>7 DEF EndLoop
<1>8. CASE \E reply \in Replies(r) : RequestTools(r, reply)
  <2>1. PICK reply \in Replies(r) : RequestTools(r, reply)
    BY <1>8
  <2> DEFINE turn == Turn("assistant", Ids(Len(reply)))
             n == Len(messages[r])
  <2>2. /\ pc[r] = "send" /\ pc'[r] = "tools" /\ iteration' = iteration
        /\ messages'[r] = Append(messages[r], turn)
        /\ uses'[r] = reply /\ answers'[r] = <<>>
        /\ kept' = kept /\ granted' = granted
    BY <1>1, <2>1 DEF RequestTools, Goto, Domains, OfRuns, policy
  <2>3. /\ messages[r] \in Seq(Turns(r)) /\ turn \in Turns(r)
        /\ Len(reply) \in Nat
    BY <1>1, RepliesAreSequences, BoundsAssumption DEF RunTyped, Turn, Turns, IdLists
  <2>4. /\ n = 2 * iteration[r] + 1 /\ iteration[r] \in Nat /\ n % 2 = 1
        /\ WellFormed(messages[r])
    <3>1. iteration[r] \in Nat
      BY <1>1, <1>2 DEF RunTyped
    <3>2. n = 2 * iteration[r] + 1 /\ WellFormed(messages[r])
      BY <1>1, <2>2 DEF ConversationAt
    <3> QED
      BY <3>1, <3>2, Parity
  <2>5. WellFormed(messages'[r])
    BY <2>2, <2>3, <2>4, OneMoreTurn DEF Turn
  <2>6. /\ Len(messages'[r]) = n + 1
        /\ messages'[r][n + 1] = turn
    BY <2>2, <2>3, AppendProperties
  <2>7. ConversationAt(r)'
    BY <1>1, <2>2, <2>4, <2>5, <2>6 DEF ConversationAt, Running, Turn
  <2>8. BatchAt(r)'
    BY <2>2, <2>3 DEF BatchAt
  <2>9. barred'[r] = Tools \ granted'
    BY <1>1, <2>1, <2>2 DEF RequestTools, Domains, OfRuns
  <2>10. HistoryAt(r)'
    BY <1>1, <2>2, <2>9 DEF HistoryAt
  <2> QED
    BY <2>7, <2>8, <2>10
<1>9. CASE InvalidArguments(r) \/ Deny(r) \/ ExecuteTool(r)
  BY <1>9, AnswerMovesOn DEF InvalidArguments, Deny, ExecuteTool
<1>10. CASE Authorize(r)
  <2>1. /\ pc[r] = "tools" /\ pc'[r] = "execute"
        /\ Len(answers[r]) < Len(uses[r])
        /\ NextUse(r) \in granted
        /\ UNCHANGED <<policy, messages, batch, iteration, history>>
    BY <1>1, <1>10 DEF Authorize, MoreToAnswer, Goto, Domains, OfRuns
  <2>2. BatchAt(r)' /\ ConversationAt(r)'
    BY <1>1, <2>1 DEF BatchAt, ConversationAt, Running, batch
  <2>3. HistoryAt(r)'
    <3>1. NextUse(r)' = NextUse(r) /\ NextUse(r) \notin barred[r]
      BY <1>1, <2>1 DEF HistoryAt, NextUse, batch
    <3> QED
      BY <1>1, <2>1, <3>1 DEF HistoryAt, policy, history
  <2> QED
    BY <2>2, <2>3
<1>11. CASE AnswerTools(r)
  <2> DEFINE turn == Turn("user", answers[r])
             n == Len(messages[r])
  <2>1. /\ pc[r] = "tools" /\ pc'[r] = "send"
        /\ Len(answers[r]) = Len(uses[r])
        /\ iteration[r] + 1 < Iterations /\ iteration'[r] = iteration[r] + 1
        /\ messages'[r] = Append(messages[r], turn)
        /\ UNCHANGED <<policy, batch, history>>
    BY <1>1, <1>11 DEF AnswerTools, Goto, Domains, OfRuns, RunTyped
  <2>2. /\ messages[r] \in Seq(Turns(r)) /\ turn \in Turns(r)
        /\ iteration[r] \in Nat
        /\ answers[r] = Ids(Len(uses[r]))
    BY <1>1, <2>1, AnswersAreIds DEF RunTyped, Turn, Turns
  <2>3. /\ n = 2 * iteration[r] + 2 /\ n % 2 = 0
        /\ WellFormed(messages[r]) /\ messages[r][n].ids = answers[r]
    <3>1. n = 2 * iteration[r] + 2 /\ WellFormed(messages[r])
      BY <1>1, <2>1 DEF ConversationAt
    <3>2. messages[r][n].ids = answers[r]
      BY <1>1, <2>1, <2>2 DEF ConversationAt
    <3> QED
      BY <2>2, <3>1, <3>2, Parity
  <2>4. WellFormed(messages'[r])
    BY <2>1, <2>2, <2>3, OneMoreTurn DEF Turn
  <2>5. Len(messages'[r]) = n + 1
    BY <2>1, <2>2, AppendProperties
  <2>6. ConversationAt(r)'
    BY <1>1, <2>1, <2>2, <2>3, <2>4, <2>5 DEF ConversationAt, Running
  <2>7. BatchAt(r)' /\ HistoryAt(r)'
    BY <1>1, <2>1 DEF BatchAt, HistoryAt, batch, policy, history
  <2> QED
    BY <2>6, <2>7
<1>12. CASE ExceedIterations(r)
  BY <1>3, <1>12 DEF ExceedIterations
<1>13. CASE Panic(r)
  BY <1>3, <1>13 DEF Panic
<1> QED
  BY <1>4, <1>5, <1>6, <1>7, <1>8, <1>9, <1>10, <1>11, <1>12, <1>13 DEF RunStep, Step

-----------------------------------------------------------------------------
(* The gauge.                                                                *)

(* What a run's step does to the gauge is what it does to the set of runs    *)
(* under way: a start adds one, an end takes one away.                       *)
LEMMA GaugeFollows ==
  ASSUME Domains, NEW r \in Runs, RunStep(r)
  PROVE  \/ /\ pc[r] \notin Running /\ pc'[r] \in Running
            /\ inFlight' = inFlight + 1
         \/ /\ pc[r] \in Running /\ pc'[r] \in Running
            /\ inFlight' = inFlight
         \/ /\ pc[r] \in Running /\ pc'[r] \notin Running
            /\ inFlight' = inFlight - 1
<1> USE DEF Domains, OfRuns, Goto, Finish, Answer, MoreToAnswer, Running
<1>1. CASE \E enabled \in BOOLEAN : StartRun(r, enabled)
  BY <1>1 DEF StartRun
<1>2. CASE OfferTool(r)
  BY <1>2 DEF OfferTool
<1>3. CASE BeginLoop(r)
  BY <1>3 DEF BeginLoop
<1>4. CASE EndLoop(r)
  BY <1>4 DEF EndLoop
<1>5. CASE \E reply \in Replies(r) : RequestTools(r, reply)
  BY <1>5 DEF RequestTools
<1>6. CASE InvalidArguments(r) \/ Deny(r) \/ ExecuteTool(r)
  BY <1>6 DEF InvalidArguments, Deny, ExecuteTool
<1>7. CASE Authorize(r)
  BY <1>7 DEF Authorize
<1>8. CASE AnswerTools(r)
  BY <1>8 DEF AnswerTools
<1>9. CASE ExceedIterations(r)
  BY <1>9 DEF ExceedIterations
<1>10. CASE Panic(r)
  BY <1>10 DEF Panic
<1> QED
  BY <1>1, <1>2, <1>3, <1>4, <1>5, <1>6, <1>7, <1>8, <1>9, <1>10 DEF RunStep, Step

LEMMA StepGauge ==
  ASSUME IInv, NEW r \in Runs, RunStep(r)
  PROVE  InFlightCountsRuns'
<1>1. Domains /\ inFlight = Cardinality(RunningRuns)
  BY DEF IInv, InFlightCountsRuns
<1>2. \A q \in Runs \ {r} : pc'[q] = pc[q]
  BY <1>1, OthersKeep
<1>3. IsFiniteSet(RunningRuns) /\ Cardinality(RunningRuns) \in Nat
  BY RunsAssumption, FS_Subset, FS_CardinalityType DEF RunningRuns
<1>4. CASE /\ pc[r] \notin Running /\ pc'[r] \in Running
           /\ inFlight' = inFlight + 1
  <2>1. RunningRuns' = RunningRuns \cup {r} /\ r \notin RunningRuns
    BY <1>2, <1>4 DEF RunningRuns
  <2> QED
    BY <1>1, <1>3, <1>4, <2>1, FS_AddElement DEF InFlightCountsRuns
<1>5. CASE pc[r] \in Running /\ pc'[r] \in Running /\ inFlight' = inFlight
  <2>1. RunningRuns' = RunningRuns
    BY <1>2, <1>5 DEF RunningRuns
  <2> QED
    BY <1>1, <1>5, <2>1 DEF InFlightCountsRuns
<1>6. CASE /\ pc[r] \in Running /\ pc'[r] \notin Running
           /\ inFlight' = inFlight - 1
  <2>1. RunningRuns' = RunningRuns \ {r} /\ r \in RunningRuns
    BY <1>2, <1>6 DEF RunningRuns
  <2> QED
    BY <1>1, <1>3, <1>6, <2>1, FS_RemoveElement DEF InFlightCountsRuns
<1> QED
  BY <1>1, <1>4, <1>5, <1>6, GaugeFollows

-----------------------------------------------------------------------------
(* The invariant holds at first and every step keeps it.                     *)

LEMMA InitIInv == Init => IInv
<1> SUFFICES ASSUME Init PROVE IInv
  OBVIOUS
<1>1. Domains /\ PolicyTyped
  BY BoundsAssumption DEF Init, Domains, OfRuns, PolicyTyped
<1>2. InFlightCountsRuns
  <2>1. RunningRuns = {}
    BY DEF Init, RunningRuns, Running
  <2> QED
    BY <2>1, FS_EmptySet DEF Init, InFlightCountsRuns
<1>3. ASSUME NEW r \in Runs PROVE RunOK(r)
  <2>1. <<>> \in IdLists(r) /\ <<>> \in Seq(Turns(r)) /\ 0 \in 0 .. Iterations
    BY BoundsAssumption, EmptySeq DEF IdLists, Ids
  <2>2. RunTyped(r)
    BY <2>1 DEF Init, RunTyped, Labels
  <2>3. BatchAt(r) /\ ConversationAt(r) /\ HistoryAt(r)
    BY DEF Init, BatchAt, ConversationAt, HistoryAt, Running
  <2> QED
    BY <2>2, <2>3 DEF RunOK
<1> QED
  BY <1>1, <1>2, <1>3 DEF IInv

LEMMA RunStepIInv ==
  ASSUME IInv, NEW r \in Runs, RunStep(r)
  PROVE  IInv'
<1>1. Domains /\ PolicyTyped
  BY DEF IInv
<1>2. Domains' /\ PolicyTyped'
  BY <1>1, OthersKeep DEF PolicyTyped, policy
<1>3. RunOK(r)'
  BY StepRunTyped, StepRunAt DEF RunOK
<1>4. ASSUME NEW q \in Runs \ {r} PROVE RunOK(q)'
  <2>1. RunTyped(q) /\ BatchAt(q) /\ ConversationAt(q) /\ HistoryAt(q)
    BY DEF IInv, RunOK
  <2>2. /\ granted' = granted
        /\ pc'[q] = pc[q] /\ pdf'[q] = pdf[q] /\ todo'[q] = todo[q]
        /\ catalog'[q] = catalog[q] /\ messages'[q] = messages[q]
        /\ uses'[q] = uses[q] /\ answers'[q] = answers[q]
        /\ iteration'[q] = iteration[q]
        /\ kept'[q] = kept[q] /\ barred'[q] = barred[q]
    BY <1>1, OthersKeep DEF policy
  <2>3. RunTyped(q)'
    BY <2>1, <2>2 DEF RunTyped, Turns, Replies, IdLists
  <2>4. BatchAt(q)' /\ ConversationAt(q)' /\ HistoryAt(q)'
    BY <2>1, <2>2 DEF BatchAt, ConversationAt, HistoryAt, NextUse
  <2> QED
    BY <2>3, <2>4 DEF RunOK
<1> QED
  BY <1>2, <1>3, <1>4, StepGauge DEF IInv

(* A reload touches the policy and what is remembered of it. *)
LEMMA ReloadIInv ==
  ASSUME IInv, NEW tools \in SUBSET Tools, Reload(tools)
  PROVE  IInv'
<1>1. UNCHANGED <<inFlight, pc, pdf, todo, catalog, messages, uses, answers, iteration>>
  BY DEF Reload, offer, batch
<1>2. /\ kept' = [r \in Runs |-> kept[r] \cap tools]
      /\ barred' = [r \in Runs |-> barred[r] \ tools]
      /\ granted' = tools
  BY DEF Reload
<1>3. Domains'
  BY <1>1, <1>2 DEF IInv, Domains, OfRuns
<1>4. PolicyTyped'
  BY BoundsAssumption DEF IInv, PolicyTyped, Reload
<1>5. InFlightCountsRuns'
  BY <1>1 DEF IInv, InFlightCountsRuns, RunningRuns
<1>6. ASSUME NEW r \in Runs PROVE RunOK(r)'
  <2>1. RunTyped(r) /\ BatchAt(r) /\ ConversationAt(r) /\ HistoryAt(r)
    BY DEF IInv, RunOK
  <2>2. RunTyped(r)'
    BY <1>1, <1>2, <2>1 DEF RunTyped, Turns, Replies, IdLists
  <2>3. BatchAt(r)' /\ ConversationAt(r)'
    BY <1>1, <2>1 DEF BatchAt, ConversationAt
  <2>4. HistoryAt(r)'
    <3>1. NextUse(r)' = NextUse(r)
      BY <1>1 DEF NextUse
    <3> QED
      BY <1>1, <1>2, <2>1, <3>1 DEF HistoryAt
  <2> QED
    BY <2>2, <2>3, <2>4 DEF RunOK
<1> QED
  BY <1>3, <1>4, <1>5, <1>6 DEF IInv

LEMMA NextIInv == IInv /\ [Next]_vars => IInv'
<1> SUFFICES ASSUME IInv, [Next]_vars PROVE IInv'
  OBVIOUS
<1>1. ASSUME NEW r \in Runs, RunStep(r) PROVE IInv'
  BY <1>1, RunStepIInv
<1>2. ASSUME NEW tools \in SUBSET Tools, Reload(tools) PROVE IInv'
  BY <1>2, ReloadIInv
<1>3. CASE UNCHANGED vars
  <2>1. UNCHANGED <<granted, reloads, inFlight, pc, pdf, todo, catalog, messages,
                    uses, answers, iteration, kept, barred>>
    BY <1>3 DEF vars, policy, offer, batch, history
  <2> QED
    BY <2>1 DEF IInv, Domains, OfRuns, PolicyTyped, InFlightCountsRuns, RunningRuns, RunOK,
                RunTyped, Turns, Replies, IdLists, BatchAt, ConversationAt,
                HistoryAt, NextUse
<1> QED
  BY <1>1, <1>2, <1>3 DEF Next, RunStep

LEMMA Invariance == Spec => []IInv
BY InitIInv, NextIInv, PTL DEF Spec

-----------------------------------------------------------------------------
(* Theorems.                                                                 *)

(* The policy, the gauge and every run's catalog, conversation, batch and    *)
(* iteration have their types: what agent.go keeps of a run is bounded by    *)
(* the tools, the iterations and the replies, and the gauge by the runs.     *)
THEOREM TypesHold == Spec => []TypeOK
<1>1. ASSUME IInv PROVE TypeOK
  <2>1. /\ RunningRuns \subseteq Runs
        /\ Cardinality(Runs) \in Nat /\ Cardinality(RunningRuns) \in Nat
        /\ Cardinality(RunningRuns) <= Cardinality(Runs)
    BY RunsAssumption, FS_Subset, FS_CardinalityType DEF RunningRuns
  <2>2. inFlight \in 0 .. Cardinality(Runs)
    BY <1>1, <2>1 DEF IInv, InFlightCountsRuns
  <2>3. Domains /\ PolicyTyped /\ \A r \in Runs : RunTyped(r)
    BY <1>1 DEF IInv, RunOK
  <2> QED
    BY <2>2, <2>3 DEF TypeOK, Domains, OfRuns, PolicyTyped, RunTyped, Labels
<1> QED
  BY <1>1, Invariance, PTL

(* The in-flight gauge is the number of runs between the start of            *)
(* RunInvestigation and its deferred undo, panics included.                  *)
THEOREM GaugeCountsRuns == Spec => []InFlightCountsRuns
<1>1. IInv => InFlightCountsRuns
  BY DEF IInv
<1> QED
  BY <1>1, Invariance, PTL

(* Every request the loop sends is a conversation the API accepts: the roles *)
(* alternate and each turn of tool calls is answered whole by the next one,  *)
(* whichever of its calls were invalid, denied or failed (agent.go).         *)
THEOREM RequestsAreWellFormed == Spec => []RequestsWellFormed
<1>1. IInv => RequestsWellFormed
  BY DEF IInv, RunOK, ConversationAt, RequestsWellFormed
<1> QED
  BY <1>1, Invariance, PTL

(* A tool that was revoked before the model asked for it, and not granted    *)
(* again since, is not executed: DispatchTool asks the policy of now.        *)
THEOREM RevokedToolsAreNotRun == Spec => []RevocationsHold
<1>1. IInv => RevocationsHold
  BY DEF IInv, RunOK, HistoryAt, RevocationsHold
<1> QED
  BY <1>1, Invariance, PTL

(* What AllowedTools offers agrees with what DispatchTool enforces: a tool   *)
(* granted during the whole run is offered, and a denial is of one that was  *)
(* not.                                                                      *)
THEOREM CatalogAgreesWithDispatch == Spec => OfferMatchesDispatch
<1>1. ASSUME IInv, [Next]_vars, NEW r \in Runs, pc[r] = "offer", pc'[r] = "send"
      PROVE  kept[r] \ {PdfTool} \subseteq catalog[r]
  <2>1. Domains
    BY <1>1 DEF IInv
  <2>2. todo[r] = {}
    <3>1. ASSUME NEW q \in Runs, RunStep(q) PROVE todo[r] = {}
      <4>1. q = r
        BY <1>1, <2>1, <3>1, OthersKeep
      <4>2. BeginLoop(r)
        BY <1>1, <2>1, <3>1, <4>1
           DEF RunStep, Step, StartRun, OfferTool, EndLoop, RequestTools,
               InvalidArguments, Deny, Authorize, ExecuteTool, AnswerTools,
               ExceedIterations, Panic, MoreToAnswer, Finish, Goto, Domains, OfRuns
      <4> QED
        BY <4>2 DEF BeginLoop
    <3>2. ASSUME NEW tools \in SUBSET Tools, Reload(tools) PROVE FALSE
      BY <1>1, <3>2 DEF Reload
    <3>3. ~ UNCHANGED vars
      BY <1>1 DEF vars
    <3> QED
      BY <1>1, <3>1, <3>2, <3>3 DEF Next, RunStep
  <2> QED
    BY <1>1, <2>2 DEF IInv, RunOK, HistoryAt
<1>2. ASSUME IInv, NEW r \in Runs, Deny(r) PROVE NextUse(r) \notin kept[r]
  BY <1>2 DEF IInv, RunOK, HistoryAt, Deny
<1>3. IInv /\ [Next]_vars
        => [\A r \in Runs :
              /\ (pc[r] = "offer" /\ pc'[r] = "send")
                   => kept[r] \ {PdfTool} \subseteq catalog[r]
              /\ Deny(r) => NextUse(r) \notin kept[r]]_vars
  BY <1>1, <1>2
<1> QED
  BY <1>3, Invariance, PTL DEF Spec, OfferMatchesDispatch
=============================================================================
