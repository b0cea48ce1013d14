----------------------------- MODULE MCReadSide -----------------------------
(* Values for the constants of ReadSide. *)
EXTENDS ReadSide

CONSTANTS k1, a1, a2, p1, p2

Cmd(type, address, phoneNumber) ==
  [type |-> type, customerId |-> k1,
   address |-> address, phoneNumber |-> phoneNumber]

\* A registration, a relocation with a new number, and one without.
Commands ==
  {Cmd("RegisterCustomer", a1, p1), Cmd("RelocateCustomer", a2, p2),
   Cmd("RelocateCustomer", a1, Blank)}
=============================================================================
