----------------------------- MODULE MCLifecycle -----------------------------
(* Values for the constants of Lifecycle. *)
EXTENDS Lifecycle

CONSTANT process   \* the subscription that Startup makes
=============================================================================
