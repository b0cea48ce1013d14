------------------------------ MODULE Customer ------------------------------
(***************************************************************************)
(* The Customer aggregate: Vlerx.SampleService/Customers/Customer.cs on    *)
(* top of Vlerx.Es/DomainModel/AggregateState.cs.  It is pure: a command   *)
(* and a state give a transition, which is a new state and the events that *)
(* lead to it.                                                             *)
(*                                                                         *)
(* Names of customers are left out: no decision reads them.  Blank is both *)
(* null and a string of white space, which the aggregate never tells apart.*)
(* An event carries Blank in the fields its class does not have.           *)
(***************************************************************************)
EXTENDS Integers, Sequences

CONSTANTS
  CustomerId,   \* the ids that commands name
  NewGuid,      \* the id Register gives a state until its first event
  Address,      \* the addresses that are not blank
  PhoneNumber,  \* the phone numbers that are not blank
  Blank         \* null or white space

ASSUME GuidAssumption == NewGuid \notin CustomerId
ASSUME BlankAssumption == Blank \notin Address \cup PhoneNumber

AnyAddress == Address \cup {Blank}
AnyPhoneNumber == PhoneNumber \cup {Blank}
StateId == CustomerId \cup {NewGuid}

EventType ==
  {"CustomerRegistered", "CustomerRelocated", "CustomerContactInfoChanged"}
Event == [type : EventType, customerId : StateId,
          address : AnyAddress, phoneNumber : AnyPhoneNumber]

CommandType == {"RegisterCustomer", "RelocateCustomer", "UnknownCommand"}
AnyCommand == [type : CommandType, customerId : CustomerId,
               address : AnyAddress, phoneNumber : AnyPhoneNumber]

State == [id : StateId, address : AnyAddress,
          phoneNumber : AnyPhoneNumber, version : Int]

-----------------------------------------------------------------------------
CustomerRegistered(id, address, phoneNumber) ==
  [type |-> "CustomerRegistered", customerId |-> id,
   address |-> address, phoneNumber |-> phoneNumber]

CustomerRelocated(id, newAddress) ==
  [type |-> "CustomerRelocated", customerId |-> id,
   address |-> newAddress, phoneNumber |-> Blank]

CustomerContactInfoChanged(id, newPhoneNumber) ==
  [type |-> "CustomerContactInfoChanged", customerId |-> id,
   address |-> Blank, phoneNumber |-> newPhoneNumber]

-----------------------------------------------------------------------------
(* The state after a history.  Every On method overwrites some properties, *)
(* so a property has the value of the last event that writes it.           *)

\* Mistake: On(CustomerRegistered) keeps the id the state was created with.
SetsNoId == {}

SetsId == {"CustomerRegistered"}
SetsAddress == {"CustomerRegistered", "CustomerRelocated"}
SetsPhoneNumber == {"CustomerRegistered", "CustomerContactInfoChanged"}

\* The i-th event is the last of the events with one of these types.
IsLatest(events, types, i) ==
  /\ events[i].type \in types
  /\ \A j \in 1..Len(events) : j > i => events[j].type \notin types

\* The value to which a property with this value is set by the events, each
\* of them valued by values.
Latest(events, types, values, value) ==
  IF \E i \in 1..Len(events) : IsLatest(events, types, i)
  THEN values[CHOOSE i \in 1..Len(events) : IsLatest(events, types, i)]
  ELSE value

IdsOf(events) == [i \in 1..Len(events) |-> events[i].customerId]
AddressesOf(events) == [i \in 1..Len(events) |-> events[i].address]
PhoneNumbersOf(events) == [i \in 1..Len(events) |-> events[i].phoneNumber]

\* changes.Aggregate(state, ApplySingle): the version counts every event, the
\* ones that no On method handles too.
After(state, events) ==
  [id |-> Latest(events, SetsId, IdsOf(events), state.id),
   address |-> Latest(events, SetsAddress, AddressesOf(events), state.address),
   phoneNumber |-> Latest(events, SetsPhoneNumber, PhoneNumbersOf(events),
                          state.phoneNumber),
   version |-> state.version + Len(events)]

NewState(id) ==
  [id |-> id, address |-> Blank, phoneNumber |-> Blank, version |-> -1]

Transition(state, events) == [state |-> After(state, events), events |-> events]

-----------------------------------------------------------------------------
(* The two operations. *)

Register(customerId, address, phoneNumber) ==
  Transition(NewState(NewGuid),
             <<CustomerRegistered(customerId, address, phoneNumber)>>)

\* Mistake: a relocation to the present address counts as one.
EveryRelocation(customer, newAddress) ==
  IF newAddress # Blank
  THEN <<CustomerRelocated(customer.id, newAddress)>>
  ELSE <<>>

Relocation(customer, newAddress) ==
  IF newAddress # Blank /\ customer.address # newAddress
  THEN <<CustomerRelocated(customer.id, newAddress)>>
  ELSE <<>>

ContactInfoChange(customer, newPhoneNumber) ==
  IF newPhoneNumber # Blank
  THEN <<CustomerContactInfoChanged(customer.id, newPhoneNumber)>>
  ELSE <<>>

Relocate(customer, newAddress, newPhoneNumber) ==
  Transition(customer, Relocation(customer, newAddress)
                       \o ContactInfoChange(customer, newPhoneNumber))

-----------------------------------------------------------------------------
(* The stories of CustomerUseCases.cs: RegisterCustomer is told without    *)
(* loading the customer, RelocateCustomer to the customer its id names.    *)

CanTell(cmd) == cmd.type \in {"RegisterCustomer", "RelocateCustomer"}

RegisterStory(cmd) == Register(cmd.customerId, cmd.address, cmd.phoneNumber)

RelocateStory(past, cmd) ==
  Relocate(After(NewState(cmd.customerId), past), cmd.address, cmd.phoneNumber)

\* The events a command decides on, given the past of its customer.
Decide(cmd, past) ==
  IF cmd.type = "RegisterCustomer" THEN RegisterStory(cmd).events
  ELSE RelocateStory(past, cmd).events
=============================================================================
