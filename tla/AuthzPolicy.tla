----------------------------- MODULE AuthzPolicy -----------------------------
(***************************************************************************)
(* The live tool-authorization policy (pkg/authz/policy.go and its use in   *)
(* pkg/mcp/authz.go). The policy file is edited under a running server;     *)
(* every evaluation first looks whether the file changed, and reloads it    *)
(* without holding the lock while it stats, reads and parses. Callers, from *)
(* Slack and from MCP, evaluate concurrently.                               *)
(*                                                                         *)
(* A policy is the set of tools it grants the callers: how roles, users and *)
(* groups grant a tool is not told apart here. An empty or truncated file   *)
(* is the policy {}: it parses, and its default is deny.                    *)
(***************************************************************************)
EXTENDS Integers, Sequences

CONSTANTS
  Callers,           \* goroutines that authorize tool calls
  Tools,
  Policies,          \* the policies an operator may write, sets of tools
  Broken, Missing,   \* a document that does not parse, and no file at all
  MtimeSteps,        \* how far an edit moves the file's modification time
  EditsDuringStart,  \* whether edits may fall into the server's start
  MaxEdits,          \* bound: edits of the file
  MaxRestarts        \* bound: restarts of the server

Documents == Policies \cup {Broken, Missing}

ASSUME PoliciesAssumption ==
  /\ Policies \subseteq SUBSET Tools
  /\ Broken \notin Policies /\ Missing \notin Policies
ASSUME StepsAssumption == MtimeSteps \subseteq Int
ASSUME EditsAssumption ==
  /\ EditsDuringStart \in BOOLEAN
  /\ MaxEdits \in Nat
  /\ MaxRestarts \in Nat

VARIABLES
  written,   \* every document the file held so far, the last one being the file
  mtime,     \* the file's modification time
  restarts,  \* restarts so far
  server,    \* "read" and "stat" while NewServer loads the policy, then "ready"
  policy,    \* pol.cfg (its document and which edit that was), pol.mtime, pol.path
  pc,        \* where each caller's evaluation stands
  tool,      \* tool[c]: the tool c asks for
  cached,    \* cached[c]: the policy c found under the read lock
  seen,      \* seen[c]: the modification time c's stat returned
  cfg,       \* cfg[c]: the document c decides on, and its edit
  due        \* history: the edit that c's decision may not be older than

file    == <<written, mtime>>
process == <<restarts, server>>
calls   == <<pc, tool, cached, seen, cfg, due>>
vars    == <<file, process, policy, calls>>

-----------------------------------------------------------------------------
Latest == Len(written)

Contents == [doc |-> written[Latest], edit |-> Latest]

(* A document no evaluation has decided on yet. *)
NoConfig == [doc |-> {}, edit |-> 0]

Live(config, stamp) == [config |-> config, mtime |-> stamp, path |-> TRUE]

(* DenyAll has no path: nothing is ever read again. *)
DenyAll == [config |-> NoConfig, mtime |-> 0, path |-> FALSE]

-----------------------------------------------------------------------------
(* The operator edits the file, or takes it away, in one step. A change in   *)
(* several steps (truncate, then write) is several edits.                    *)

Edit(doc) ==
  /\ Latest <= MaxEdits
  /\ EditsDuringStart \/ server = "ready"
  /\ doc # written[Latest]
  /\ written' = Append(written, doc)
  /\ \E step \in MtimeSteps : mtime' = mtime + step
  /\ due' = IF doc \in Policies THEN due ELSE [c \in Callers |-> 0]
  /\ UNCHANGED <<process, policy, pc, tool, cached, seen, cfg>>

-----------------------------------------------------------------------------
(* loadAuthorizer, from NewServer: loadFromFile reads and parses first and   *)
(* stats afterwards. A file that cannot be loaded denies everything.         *)

Refuse ==
  /\ policy' = DenyAll
  /\ server' = "ready"

ReadAtStart ==
  /\ server = "read"
  /\ \/ written[Latest] \in Policies
        /\ policy' = Live(Contents, 0)
        /\ server' = "stat"
     \/ written[Latest] \notin Policies /\ Refuse
  /\ UNCHANGED <<file, restarts, calls>>

StatAtStart ==
  /\ server = "stat"
  /\ \/ written[Latest] # Missing
        /\ policy' = [policy EXCEPT !.mtime = mtime]
        /\ server' = "ready"
     \/ written[Latest] = Missing /\ Refuse
  /\ UNCHANGED <<file, restarts, calls>>

-----------------------------------------------------------------------------
(* Policy.current, called by every evaluation.                               *)

(* The cached policy is what this evaluation decides on. *)
UseCached(c) ==
  /\ cfg' = [cfg EXCEPT ![c] = cached[c].config]
  /\ pc' = [pc EXCEPT ![c] = "decide"]

(* Evaluate starts, and current copies the policy under the read lock. The  *)
(* decision is due to follow the file as it is now, if it is a policy.       *)
Evaluate(c, t) ==
  /\ server = "ready"
  /\ pc[c] = "idle"
  /\ tool' = [tool EXCEPT ![c] = t]
  /\ cached' = [cached EXCEPT ![c] = policy]
  /\ due' = [due EXCEPT ![c] = IF policy.path /\ written[Latest] \in Policies
                               THEN Latest ELSE 0]
  /\ pc' = [pc EXCEPT ![c] = "stat"]
  /\ UNCHANGED <<file, process, policy, seen, cfg>>

(* Without a path there is nothing to look at. *)
SkipReload(c) ==
  /\ pc[c] = "stat"
  /\ ~cached[c].path
  /\ UseCached(c)
  /\ UNCHANGED <<file, process, policy, tool, cached, seen, due>>

(* A file that is gone or not newer keeps the cached policy. *)
StatPolicy(c) ==
  /\ pc[c] = "stat"
  /\ cached[c].path
  /\ IF written[Latest] # Missing /\ mtime > cached[c].mtime
     THEN /\ seen' = [seen EXCEPT ![c] = mtime]
          /\ pc' = [pc EXCEPT ![c] = "read"]
          /\ UNCHANGED cfg
     ELSE UseCached(c) /\ UNCHANGED seen
  /\ UNCHANGED <<file, process, policy, tool, cached, due>>

(* Mutation: what was read is installed whether it parses or not. *)
ReadUnparsed(c) ==
  /\ pc[c] = "read"
  /\ IF written[Latest] # Missing
     THEN /\ cfg' = [cfg EXCEPT ![c] = Contents]
          /\ pc' = [pc EXCEPT ![c] = "install"]
     ELSE UseCached(c)
  /\ UNCHANGED <<file, process, policy, tool, cached, seen, due>>

(* So does one that cannot be read or parsed by now. *)
ReadPolicy(c) ==
  /\ pc[c] = "read"
  /\ IF written[Latest] \in Policies
     THEN /\ cfg' = [cfg EXCEPT ![c] = Contents]
          /\ pc' = [pc EXCEPT ![c] = "install"]
     ELSE UseCached(c)
  /\ UNCHANGED <<file, process, policy, tool, cached, seen, due>>

(* Mutation: the file is looked at again for the time to remember. *)
InstallStampedNow(c) ==
  /\ pc[c] = "install"
  /\ policy' = Live(cfg[c], mtime)
  /\ pc' = [pc EXCEPT ![c] = "decide"]
  /\ UNCHANGED <<file, process, tool, cached, seen, cfg, due>>

(* The write lock is taken for the assignment only: whoever is last wins. *)
InstallPolicy(c) ==
  /\ pc[c] = "install"
  /\ policy' = Live(cfg[c], seen[c])
  /\ pc' = [pc EXCEPT ![c] = "decide"]
  /\ UNCHANGED <<file, process, tool, cached, seen, cfg, due>>

(* evaluate is pure: the caller gets its answer. *)
Granted(c) == tool[c] \in cfg[c].doc

Decide(c) ==
  /\ pc[c] = "decide"
  /\ pc' = [pc EXCEPT ![c] = "idle"]
  /\ cfg' = [cfg EXCEPT ![c] = NoConfig]
  /\ cached' = [cached EXCEPT ![c] = DenyAll]
  /\ seen' = [seen EXCEPT ![c] = 0]
  /\ due' = [due EXCEPT ![c] = 0]
  /\ UNCHANGED <<file, process, policy, tool>>

-----------------------------------------------------------------------------
(* A new process loads the policy anew; evaluations of the old one are gone. *)
Restart ==
  /\ restarts < MaxRestarts
  /\ restarts' = restarts + 1
  /\ server' = "read"
  /\ policy' = DenyAll
  /\ pc' = [c \in Callers |-> "idle"]
  /\ cached' = [c \in Callers |-> DenyAll]
  /\ seen' = [c \in Callers |-> 0]
  /\ cfg' = [c \in Callers |-> NoConfig]
  /\ due' = [c \in Callers |-> 0]
  /\ UNCHANGED <<file, tool>>

Init ==
  /\ \E doc \in Documents : written = <<doc>>
  /\ mtime = 1
  /\ restarts = 0
  /\ server = "read"
  /\ policy = DenyAll
  /\ pc = [c \in Callers |-> "idle"]
  /\ tool \in [Callers -> Tools]
  /\ cached = [c \in Callers |-> DenyAll]
  /\ seen = [c \in Callers |-> 0]
  /\ cfg = [c \in Callers |-> NoConfig]
  /\ due = [c \in Callers |-> 0]

Load == ReadAtStart \/ StatAtStart

Current(c) ==
  SkipReload(c) \/ StatPolicy(c) \/ ReadPolicy(c) \/ InstallPolicy(c) \/ Decide(c)

Next ==
  \/ Load
  \/ \E c \in Callers : Current(c) \/ \E t \in Tools : Evaluate(c, t)
  \/ \E doc \in Documents : Edit(doc)
  \/ Restart

Spec == Init /\ [][Next]_vars

(* The goroutines run, and calls keep coming: a policy is only reloaded when *)
(* somebody asks. Edits and restarts are never owed.                         *)
FairSpec ==
  /\ Spec
  /\ WF_vars(Load)
  /\ \A c \in Callers : /\ WF_vars(Current(c))
                        /\ WF_vars(\E t \in Tools : Evaluate(c, t))

-----------------------------------------------------------------------------
(* Properties.                                                               *)

Configs == {NoConfig} \cup
           [doc : Policies, edit : 1 .. MaxEdits + 1]

LivePolicies == [config : Configs, mtime : Int, path : BOOLEAN]

TypeOK ==
  /\ written \in Seq(Documents) /\ Len(written) \in 1 .. MaxEdits + 1
  /\ mtime \in Int
  /\ restarts \in 0 .. MaxRestarts
  /\ server \in {"read", "stat", "ready"}
  /\ policy \in LivePolicies
  /\ pc \in [Callers -> {"idle", "stat", "read", "install", "decide"}]
  /\ tool \in [Callers -> Tools]
  /\ cached \in [Callers -> LivePolicies]
  /\ seen \in [Callers -> Int]
  /\ cfg \in [Callers -> Configs]
  /\ due \in [Callers -> 0 .. MaxEdits + 1]

(* Reload keeps the last good policy: what the server decides by, cached or  *)
(* fresh, is a whole policy that the file held at some edit, or deny all.    *)
LastGoodPolicy ==
  \A config \in {policy.config} \cup {cfg[c] : c \in Callers} :
    \/ config = NoConfig
    \/ config.doc \in Policies /\ config.doc = written[config.edit]

(* policy.go: the file is re-read on change. A decision is never older than  *)
(* the file was when the call came in, as long as the file stayed readable,  *)
(* even when concurrent reloads install their results out of order.          *)
DecisionsFollowTheFile ==
  \A c \in Callers : pc[c] = "decide" => cfg[c].edit >= due[c]

(* Once the operator stops editing and leaves a valid policy, a server that  *)
(* loaded a policy when it started ends up deciding by that one.             *)
EditsTakeEffect ==
  <>[](written[Latest] \in Policies /\ server = "ready" /\ policy.path)
    => <>[](policy.config = Contents)

(* The README: edits take effect without a restart. So says the log of a     *)
(* server that could not load its policy: it denies all until corrected.      *)
CorrectionsTakeEffect ==
  <>[](written[Latest] \in Policies /\ server = "ready")
    => <>[](policy.config = Contents)
=============================================================================
