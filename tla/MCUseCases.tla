----------------------------- MODULE MCUseCases -----------------------------
(* Values for the constants of UseCases. *)
EXTENDS UseCases, TLC

CONSTANTS k1, k2, a1, a2, p1

Cmd(type, id, address, phoneNumber) ==
  [type |-> type, customerId |-> id,
   address |-> address, phoneNumber |-> phoneNumber]

\* One customer: a registration, a relocation to the registered address with
\* a new number, one to another address, and a command without a story.
OneCustomer ==
  {Cmd("RegisterCustomer", k1, a1, p1),
   Cmd("RelocateCustomer", k1, a1, p1),
   Cmd("RelocateCustomer", k1, a2, Blank),
   Cmd("UnknownCommand", k1, Blank, Blank)}

\* And another customer, who is only relocated.
TwoCustomers == OneCustomer \cup {Cmd("RelocateCustomer", k2, a2, p1)}

Calls == Permutations(Call)
=============================================================================
