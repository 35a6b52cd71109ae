------------------------ MODULE ConversationActivity ------------------------
(***************************************************************************)
(* SlackInvestigations with a history variable: how long ago each thread's  *)
(* conversation was last used, that is created or asked a follow-up that    *)
(* was answered. Expiry is hours and a run minutes, so time passes between  *)
(* runs only.                                                               *)
(***************************************************************************)
EXTENDS MCSlackInvestigations

VARIABLE idle  \* idle[t]: ticks since t's conversation was last used

AtWork == {g \in Goroutines : pc[g] \in {"new", "reply"} \cup Held}

Quiet == AtWork = {}

(* The conversation is created, or the answer of a run is stored in it. *)
UsedNow(t) ==
  \E g \in Goroutines :
    /\ \/ pc[g] = "match" /\ pc'[g] = "count"
       \/ pc[g] = "run"   /\ pc'[g] = "send"
    /\ event[g].thread = t

ActivityInit == Init /\ idle = [t \in Threads |-> 0]

ActivityNext ==
  \/ Operate /\ idle' = [t \in Threads |-> IF UsedNow(t) THEN 0 ELSE idle[t]]
  \/ Quiet /\ Tick /\ idle' = [t \in Threads |-> Older(idle[t], Expiry)]

ActivitySpec == ActivityInit /\ [][ActivityNext]_<<vars, idle>>

(* docs/PROJECT_SPEC.md: conversations expire after 24 hours of inactivity.  *)
(* What CleanupExpired forgets while no handler is at work was not used      *)
(* within the expiry: an answered follow-up question keeps it.               *)
ExpiresOnlyWhenInactive ==
  [][\A t \in DOMAIN store :
       (Quiet /\ t \notin DOMAIN store' /\ restarts' = restarts)
         => idle[t] > Expiry]_<<vars, idle>>
=============================================================================
