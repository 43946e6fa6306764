-------------------------- MODULE MCServiceRollout --------------------------
(* A small instance of ServiceRollout for TLC. *)
EXTENDS ServiceRollout

\* The second bundle of the first Secret is a bad rotation.
MCInvalid == {Bundle(1, 2)}
=============================================================================
