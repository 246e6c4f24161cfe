---------------------------- MODULE MCDispatcher ----------------------------
(***************************************************************************)
(* A small instance of Dispatcher: more events than either channel holds.  *)
(***************************************************************************)
EXTENDS Dispatcher
=============================================================================
