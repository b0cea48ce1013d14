--------------------------- MODULE MCBddScenarios ---------------------------
(* Values for the constants of BddScenarios. *)
EXTENDS BddScenarios

CONSTANTS k1, k2, a1, a2, p1

Cmd(type, id, address, phoneNumber) ==
  [type |-> type, customerId |-> id,
   address |-> address, phoneNumber |-> phoneNumber]

\* Two registered customers, and one that was only relocated.
SomeGivenEvents ==
  {CustomerRegistered(k1, a1, p1), CustomerRegistered(k2, a1, Blank),
   CustomerRelocated(k1, a2)}

SomeCommands ==
  {Cmd("RegisterCustomer", k1, a1, p1), Cmd("RegisterCustomer", k2, a2, Blank),
   Cmd("RelocateCustomer", k1, a1, p1), Cmd("RelocateCustomer", k1, a2, Blank),
   Cmd("RelocateCustomer", k2, a2, p1), Cmd("UnknownCommand", k1, Blank, Blank)}

SomeEvents ==
  SomeGivenEvents \cup
  {CustomerRegistered(k2, a2, Blank), CustomerRelocated(k1, a1),
   CustomerRelocated(k2, a2), CustomerContactInfoChanged(k1, p1)}

SomeExpectations ==
  {<<>>} \cup {<<e>> : e \in SomeEvents} \cup {<<e, f>> : e, f \in SomeEvents}
=============================================================================
