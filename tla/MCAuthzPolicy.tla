---------------------------- MODULE MCAuthzPolicy ----------------------------
(***************************************************************************)
(* Instances of AuthzPolicy for TLC.                                        *)
(***************************************************************************)
EXTENDS AuthzPolicy

CONSTANT read  \* a tool

(* The empty policy is also what a truncated file says. *)
SomePolicies == {{}, {read}}
=============================================================================
