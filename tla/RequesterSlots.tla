--------------------------- MODULE RequesterSlots ---------------------------
(***************************************************************************)
(* What the bot promises of an investigation: at most one handler works for *)
(* a requester (a user in a channel) at a time, and nobody but the handler  *)
(* holding the requester's slot gives it back. The tracker's map of active  *)
(* keys, the deferred Done and the skipped duplicates of pkg/bot implement  *)
(* it: SlackInvestigations states and SlackInvestigationsProofs proves it.  *)
(***************************************************************************)
CONSTANTS Keys,     \* the requesters
          Handlers  \* the goroutines that may hold a requester's slot

VARIABLE held       \* <<k, h>>: handler h works for requester k

Init == held = {}

(* A handler that holds no slot takes a free one. *)
Acquire(h, k) ==
  /\ \A slot \in held : slot[1] # k /\ slot[2] # h
  /\ held' = held \cup {<<k, h>>}

(* The holder gives the slot back. *)
Release(h, k) ==
  /\ <<k, h>> \in held
  /\ held' = held \ {<<k, h>>}

(* The process is replaced: every handler is gone and every slot is free. *)
Reset == held' = {}

Next ==
  \/ \E h \in Handlers, k \in Keys : Acquire(h, k) \/ Release(h, k)
  \/ Reset

Spec == Init /\ [][Next]_held
=============================================================================
