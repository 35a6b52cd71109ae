------------------------ MODULE MCSlackInvestigations ------------------------
(***************************************************************************)
(* Instances of SlackInvestigations for TLC.                                *)
(***************************************************************************)
EXTENDS SlackInvestigations

CONSTANTS alice, bob, general, t1, t2

Root(u, t)     == [kind |-> "root_mention", channel |-> general, user |-> u,
                   thread |-> t, text |-> "question"]
Reply(k, u, t, x) == [kind |-> k, channel |-> general, user |-> u,
                      thread |-> t, text |-> x]

(* One thread, opened by alice; both users write in it, bob only to turn    *)
(* reports off and to ask for help, which ends at once.                      *)
OneThreadEvents ==
  {Root(alice, t1),
   Reply("thread_mention", alice, t1, "question"),
   Reply("thread_message", bob, t1, "disable_pdf"),
   Reply("thread_mention", bob, t1, "help")}

(* A question and another user's follow-up. *)
FewEvents ==
  {Root(alice, t1),
   Reply("thread_message", bob, t1, "question")}

(* Two threads, each opened by one of the users. *)
TwoThreadEvents ==
  {Root(alice, t1), Root(bob, t2),
   Reply("thread_message", alice, t2, "question"),
   Reply("thread_message", bob, t2, "enable_pdf")}
=============================================================================
