---------------------------- MODULE MCDebugStore ----------------------------
(* DebugStore for TLC. *)
EXTENDS DebugStore
=============================================================================
