----------------------- MODULE MCCatchUpSubscription -----------------------
(* Values for the constants of CatchUpSubscription. *)
EXTENDS CatchUpSubscription

CONSTANTS ours, theirs
=============================================================================
