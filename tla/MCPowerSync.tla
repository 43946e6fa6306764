---------------------------- MODULE MCPowerSync ----------------------------
(* A small instance of PowerSync for TLC. *)
EXTENDS PowerSync

MCSchemaLists == {{"public"}, {"public", "app"}}
=============================================================================
