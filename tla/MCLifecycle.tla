---------------------------- MODULE MCLifecycle ----------------------------
(***************************************************************************)
(* A small instance of Lifecycle: every environment and two requests.      *)
(***************************************************************************)
EXTENDS Lifecycle
=============================================================================
