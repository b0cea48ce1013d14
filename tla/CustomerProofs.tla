--------------------------- MODULE CustomerProofs ---------------------------
(***************************************************************************)
(* Facts about the operators of Customer, for every value of its constants *)
(* and every past.                                                         *)
(***************************************************************************)
EXTENDS Customer, SequenceTheorems, TLAPS

\* A property of a state after some events has its old value or the value
\* that one of the events gives it.
LEMMA LatestCases ==
  ASSUME NEW events, NEW types, NEW values, NEW value
  PROVE  \/ Latest(events, types, values, value) = value
         \/ \E i \in 1..Len(events) :
              Latest(events, types, values, value) = values[i]
<1>1. CASE \E i \in 1..Len(events) : IsLatest(events, types, i)
  <2> DEFINE last == CHOOSE i \in 1..Len(events) : IsLatest(events, types, i)
  <2>1. last \in 1..Len(events)
    BY <1>1
  <2>2. Latest(events, types, values, value) = values[last]
    BY <1>1 DEF Latest
  <2> QED
    BY <2>1, <2>2
<1>2. CASE ~ \E i \in 1..Len(events) : IsLatest(events, types, i)
  BY <1>2 DEF Latest
<1> QED
  BY <1>1, <1>2

\* An aggregate state that events are applied to is an aggregate state.
LEMMA AfterType ==
  ASSUME NEW s \in State, NEW events \in Seq(Event)
  PROVE  After(s, events) \in State
<1> DEFINE n == Len(events)
<1>1. n \in Nat /\ \A i \in 1..n : events[i] \in Event
  OBVIOUS
<1>2. Latest(events, SetsId, IdsOf(events), s.id) \in StateId
  <2>1. \A i \in 1..n : IdsOf(events)[i] \in StateId
    BY <1>1 DEF IdsOf, Event
  <2> QED
    BY <2>1, LatestCases DEF State
<1>3. Latest(events, SetsAddress, AddressesOf(events), s.address) \in AnyAddress
  <2>1. \A i \in 1..n : AddressesOf(events)[i] \in AnyAddress
    BY <1>1 DEF AddressesOf, Event
  <2> QED
    BY <2>1, LatestCases DEF State
<1>4. Latest(events, SetsPhoneNumber, PhoneNumbersOf(events), s.phoneNumber)
        \in AnyPhoneNumber
  <2>1. \A i \in 1..n : PhoneNumbersOf(events)[i] \in AnyPhoneNumber
    BY <1>1 DEF PhoneNumbersOf, Event
  <2> QED
    BY <2>1, LatestCases DEF State
<1>5. s.version + n \in Int
  BY <1>1 DEF State
<1> QED
  BY <1>2, <1>3, <1>4, <1>5 DEF After, State

\* Events of one customer leave the id of its state alone.
LEMMA AfterKeepsId ==
  ASSUME NEW s, NEW events,
         \A i \in 1..Len(events) : events[i].customerId = s.id
  PROVE  After(s, events).id = s.id
<1>1. After(s, events).id = Latest(events, SetsId, IdsOf(events), s.id)
  BY DEF After
<1>2. \A i \in 1..Len(events) : IdsOf(events)[i] = s.id
  BY DEF IdsOf
<1> QED
  BY <1>1, <1>2, LatestCases

\* A new state is an aggregate state.
LEMMA NewStateType ==
  ASSUME NEW id \in StateId
  PROVE  NewState(id) \in State
BY DEF NewState, State, AnyAddress, AnyPhoneNumber

\* The commands' fields.
LEMMA CommandFields ==
  ASSUME NEW cmd \in AnyCommand
  PROVE  /\ cmd.customerId \in CustomerId
         /\ cmd.address \in AnyAddress
         /\ cmd.phoneNumber \in AnyPhoneNumber
         /\ cmd.type \in CommandType
BY DEF AnyCommand

\* A registration is one event, about the customer of the command; the state
\* it leads to bears the id of the command, not the one it was created with.
LEMMA RegisterDecision ==
  ASSUME NEW cmd \in AnyCommand
  PROVE  LET transition == RegisterStory(cmd) IN
         /\ transition.events \in Seq(Event)
         /\ Len(transition.events) = 1
         /\ transition.events[1].customerId = cmd.customerId
         /\ transition.events[1].type = "CustomerRegistered"
         /\ transition.state.id = cmd.customerId
         /\ transition.state.version = 0
<1> DEFINE event == CustomerRegistered(cmd.customerId, cmd.address, cmd.phoneNumber)
<1>1. event \in Event
  BY CommandFields DEF CustomerRegistered, Event, EventType, StateId
<1>2. event.type = "CustomerRegistered" /\ event.customerId = cmd.customerId
  BY DEF CustomerRegistered
<1> DEFINE events == <<event>>
<1>3. /\ RegisterStory(cmd).events = events
      /\ RegisterStory(cmd).state = After(NewState(NewGuid), events)
  BY DEF RegisterStory, Register, Transition
<1>4. /\ events \in Seq(Event)
      /\ Len(events) = 1
      /\ events[1] = event
  BY <1>1
<1>5. After(NewState(NewGuid), events).version = 0
  BY <1>4 DEF After, NewState
<1>6. After(NewState(NewGuid), events).id = cmd.customerId
  <2>1. IsLatest(events, SetsId, 1)
    BY <1>2, <1>4 DEF IsLatest, SetsId
  <2>2. \A i \in 1..Len(events) : i = 1
    BY <1>4
  <2>3. Latest(events, SetsId, IdsOf(events), NewState(NewGuid).id)
          = IdsOf(events)[1]
    BY <2>1, <2>2, <1>4 DEF Latest
  <2>4. IdsOf(events)[1] = cmd.customerId
    BY <1>2, <1>4 DEF IdsOf
  <2> QED
    BY <2>3, <2>4 DEF After
<1> QED
  BY <1>2, <1>3, <1>4, <1>5, <1>6

\* What Relocate adds to a customer: at most a relocation to an address it
\* does not have, then at most a change of its number, both under its id.
LEMMA RelocateDecision ==
  ASSUME NEW customer \in State,
         NEW address \in AnyAddress, NEW phoneNumber \in AnyPhoneNumber
  PROVE  LET events == Relocate(customer, address, phoneNumber).events IN
         /\ events \in Seq(Event)
         /\ \A i \in 1..Len(events) :
              /\ events[i].customerId = customer.id
              /\ events[i].type # "CustomerRegistered"
              /\ events[i].type = "CustomerRelocated" =>
                   i = 1 /\ events[i].address # customer.address
<1> DEFINE relocation == Relocation(customer, address)
           change == ContactInfoChange(customer, phoneNumber)
           moved == CustomerRelocated(customer.id, address)
           changed == CustomerContactInfoChanged(customer.id, phoneNumber)
<1>1. /\ moved \in Event
      /\ moved.customerId = customer.id
      /\ moved.type = "CustomerRelocated"
      /\ moved.address = address
  BY DEF CustomerRelocated, Event, EventType, State, AnyPhoneNumber
<1>2. /\ changed \in Event
      /\ changed.customerId = customer.id
      /\ changed.type = "CustomerContactInfoChanged"
  BY DEF CustomerContactInfoChanged, Event, EventType, State, AnyAddress
<1>3. /\ relocation \in Seq(Event)
      /\ Len(relocation) \in 0..1
      /\ \A i \in 1..Len(relocation) :
           relocation[i] = moved /\ address # customer.address
  <2>1. CASE relocation = <<>>
    BY <2>1
  <2>2. CASE relocation = <<moved>> /\ address # customer.address
    BY <2>2, <1>1
  <2> QED
    BY <2>1, <2>2 DEF Relocation
<1>4. /\ change \in Seq(Event)
      /\ \A i \in 1..Len(change) : change[i] = changed
  <2>1. CASE change = <<>>
    BY <2>1
  <2>2. CASE change = <<changed>>
    BY <2>2, <1>2
  <2> QED
    BY <2>1, <2>2 DEF ContactInfoChange
<1> DEFINE events == relocation \o change
<1> HIDE DEF relocation, change, moved, changed
<1>6. /\ events \in Seq(Event)
      /\ Len(events) = Len(relocation) + Len(change)
      /\ \A i \in 1..Len(events) :
           events[i] = IF i <= Len(relocation) THEN relocation[i]
                       ELSE change[i - Len(relocation)]
  BY <1>3, <1>4, ConcatProperties
<1>7. ASSUME NEW i \in 1..Len(events)
      PROVE  \/ i = 1 /\ events[i] = moved /\ address # customer.address
             \/ events[i] = changed
  <2>1. Len(relocation) \in Nat /\ Len(change) \in Nat
    BY <1>3, <1>4
  <2>2. CASE i <= Len(relocation)
    <3>1. i \in 1..Len(relocation) /\ i = 1 /\ events[i] = relocation[i]
      BY <2>2, <1>3, <1>6
    <3> QED
      BY <3>1, <1>3
  <2>3. CASE ~ (i <= Len(relocation))
    <3>1. /\ i - Len(relocation) \in 1..Len(change)
          /\ events[i] = change[i - Len(relocation)]
      BY <2>1, <2>3, <1>6
    <3> QED
      BY <3>1, <1>4
  <2> QED
    BY <2>2, <2>3
<1>8. Relocate(customer, address, phoneNumber).events = events
  BY DEF Relocate, Transition, relocation, change
<1> HIDE DEF events
<1> QED
  BY <1>1, <1>2, <1>6, <1>7, <1>8
=============================================================================
