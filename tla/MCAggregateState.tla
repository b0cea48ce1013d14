-------------------------- MODULE MCAggregateState --------------------------
(* Values for the constants of AggregateState. *)
EXTENDS AggregateState

CONSTANTS k1, k2, a1, a2, p1

\* Registrations under two ids, both changes, and an event of a type that the
\* customer has no On method for.
Events ==
  {CustomerRegistered(k1, a1, p1), CustomerRegistered(k2, Blank, Blank),
   CustomerRelocated(k1, a1), CustomerRelocated(k1, a2),
   CustomerContactInfoChanged(k1, p1),
   [type |-> "UnhandledEvent", customerId |-> k2,
    address |-> a2, phoneNumber |-> p1]}
=============================================================================
