---------------------- MODULE MCImplementationSecrets ----------------------
(* A small instance of ImplementationSecrets for TLC. *)
EXTENDS ImplementationSecrets

MCValues == {"v1", "v2", "v3"}

\* PowerSync or the hook: either way some Secrets are made after the others.
MCSpecs == {[powersync |-> TRUE, hook |-> FALSE], [powersync |-> FALSE, hook |-> TRUE]}
=============================================================================
