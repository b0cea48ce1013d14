------------------------- MODULE AggregateStateProofs -------------------------
(***************************************************************************)
(* Proofs about AggregateState, for any recorded and applied events, of    *)
(* any types and however many: the state that the fold builds event by     *)
(* event is the one that After gives for the whole past at once.           *)
(***************************************************************************)
EXTENDS AggregateState, SequenceTheorems, TLAPS

-----------------------------------------------------------------------------
(* One event more.                                                          *)

\* Of a longer past, the last event with one of the types is the new one, if it
\* has one of them, and the last of the shorter past otherwise.
LEMMA LatestOfLonger ==
  ASSUME NEW past, NEW longer, Len(past) \in Nat, Len(longer) = Len(past) + 1,
         \A i \in 1..Len(past) : longer[i] = past[i],
         NEW types, NEW values, NEW more, NEW value,
         \A i \in 1..Len(past) : more[i] = values[i]
  PROVE  Latest(longer, types, more, value)
           = IF longer[Len(past) + 1].type \in types THEN more[Len(past) + 1]
             ELSE Latest(past, types, values, value)
<1> DEFINE n == Len(past)
           event == longer[n + 1]
<1>1. /\ n \in Nat
      /\ Len(longer) = n + 1
      /\ \A i \in 1..n : longer[i] = past[i]
  OBVIOUS
<1>2. CASE event.type \in types
  <2>1. n + 1 \in 1..Len(longer) /\ IsLatest(longer, types, n + 1)
    BY <1>1, <1>2 DEF IsLatest
  <2>2. \A i \in 1..Len(longer) : IsLatest(longer, types, i) => i = n + 1
    BY <1>1, <1>2 DEF IsLatest
  <2>3. (CHOOSE i \in 1..Len(longer) : IsLatest(longer, types, i)) = n + 1
    BY <2>1, <2>2
  <2> QED
    BY <1>2, <2>1, <2>3 DEF Latest
<1>3. CASE event.type \notin types
  <2>1. \A i \in 1..Len(longer) :
          IsLatest(longer, types, i) <=> i \in 1..n /\ IsLatest(past, types, i)
    BY <1>1, <1>3 DEF IsLatest
  <2>2. CASE \E i \in 1..n : IsLatest(past, types, i)
    <3> DEFINE last == CHOOSE i \in 1..n : IsLatest(past, types, i)
    <3>1. last \in 1..n /\ IsLatest(past, types, last)
      BY <2>2
    <3>2. \A i \in 1..n : IsLatest(past, types, i) => i = last
      <4> HIDE DEF last
      <4> QED
        BY <1>1, <3>1 DEF IsLatest
    <3>3. (CHOOSE i \in 1..Len(longer) : IsLatest(longer, types, i)) = last
      <4> HIDE DEF last
      <4>1. \A i \in 1..Len(longer) : IsLatest(longer, types, i) <=> i = last
        BY <1>1, <2>1, <3>1, <3>2
      <4>2. last \in 1..Len(longer)
        BY <1>1, <3>1
      <4> QED
        BY <4>1, <4>2
    <3>4. Latest(past, types, values, value) = values[last]
      BY <2>2 DEF Latest
    <3>5. \E i \in 1..Len(longer) : IsLatest(longer, types, i)
      BY <1>1, <2>1, <2>2
    <3>6. Latest(longer, types, more, value) = more[last]
      BY <3>3, <3>5 DEF Latest
    <3> QED
      BY <1>3, <3>1, <3>4, <3>6
  <2>3. CASE ~ \E i \in 1..n : IsLatest(past, types, i)
    <3>1. Latest(past, types, values, value) = value
      BY <2>3 DEF Latest
    <3>2. Latest(longer, types, more, value) = value
      BY <2>1, <2>3 DEF Latest
    <3> QED
      BY <1>3, <3>1, <3>2
  <2> QED
    BY <2>2, <2>3
<1> QED
  BY <1>2, <1>3

\* The state after one event more is the state before with that event applied.
LEMMA AfterAppend ==
  ASSUME NEW S, NEW past \in Seq(S), NEW event \in S,
         NEW state, state.version \in Int
  PROVE  After(state, Append(past, event)) = ApplySingle(After(state, past), event)
<1>1. PICK longer : longer = Append(past, event)
  OBVIOUS
<1>2. /\ Len(past) \in Nat
      /\ Len(longer) = Len(past) + 1
      /\ longer[Len(past) + 1] = event
      /\ \A i \in 1..Len(past) : longer[i] = past[i]
  BY <1>1
<1>3. PICK startId, startAddress, startNumber :
        startId = state.id /\ startAddress = state.address /\ startNumber = state.phoneNumber
  OBVIOUS
<1>4. PICK oldId, oldAddress, oldNumber :
        /\ oldId = Latest(past, SetsId, IdsOf(past), startId)
        /\ oldAddress = Latest(past, SetsAddress, AddressesOf(past), startAddress)
        /\ oldNumber = Latest(past, SetsPhoneNumber, PhoneNumbersOf(past), startNumber)
  OBVIOUS
<1>5. PICK newId : newId = IF event.type \in SetsId THEN event.customerId ELSE oldId
  OBVIOUS
<1>5a. Latest(longer, SetsId, IdsOf(longer), startId) = newId
  <2>1. PICK more, values : more = IdsOf(longer) /\ values = IdsOf(past)
    OBVIOUS
  <2>2. /\ \A i \in 1..Len(past) : more[i] = values[i]
        /\ more[Len(past) + 1] = event.customerId
    BY <1>2, <2>1 DEF IdsOf
  <2>3. Latest(longer, SetsId, more, startId)
          = IF longer[Len(past) + 1].type \in SetsId THEN more[Len(past) + 1]
            ELSE Latest(past, SetsId, values, startId)
    BY ONLY <1>2, <2>2, LatestOfLonger
  <2> QED
    BY <1>2, <1>4, <1>5, <2>1, <2>2, <2>3
<1>6. PICK newAddress : newAddress = IF event.type \in SetsAddress THEN event.address ELSE oldAddress
  OBVIOUS
<1>6a. Latest(longer, SetsAddress, AddressesOf(longer), startAddress) = newAddress
  <2>1. PICK more, values : more = AddressesOf(longer) /\ values = AddressesOf(past)
    OBVIOUS
  <2>2. /\ \A i \in 1..Len(past) : more[i] = values[i]
        /\ more[Len(past) + 1] = event.address
    BY <1>2, <2>1 DEF AddressesOf
  <2>3. Latest(longer, SetsAddress, more, startAddress)
          = IF longer[Len(past) + 1].type \in SetsAddress THEN more[Len(past) + 1]
            ELSE Latest(past, SetsAddress, values, startAddress)
    BY ONLY <1>2, <2>2, LatestOfLonger
  <2> QED
    BY <1>2, <1>4, <1>6, <2>1, <2>2, <2>3
<1>7. PICK newNumber : newNumber = IF event.type \in SetsPhoneNumber THEN event.phoneNumber ELSE oldNumber
  OBVIOUS
<1>7a. Latest(longer, SetsPhoneNumber, PhoneNumbersOf(longer), startNumber) = newNumber
  <2>1. PICK more, values : more = PhoneNumbersOf(longer) /\ values = PhoneNumbersOf(past)
    OBVIOUS
  <2>2. /\ \A i \in 1..Len(past) : more[i] = values[i]
        /\ more[Len(past) + 1] = event.phoneNumber
    BY <1>2, <2>1 DEF PhoneNumbersOf
  <2>3. Latest(longer, SetsPhoneNumber, more, startNumber)
          = IF longer[Len(past) + 1].type \in SetsPhoneNumber THEN more[Len(past) + 1]
            ELSE Latest(past, SetsPhoneNumber, values, startNumber)
    BY ONLY <1>2, <2>2, LatestOfLonger
  <2> QED
    BY <1>2, <1>4, <1>7, <2>1, <2>2, <2>3
<1>8. PICK version : version = state.version + Len(past) /\ version \in Int
  BY <1>2
<1>9. After(state, past) = [id |-> oldId, address |-> oldAddress,
                           phoneNumber |-> oldNumber, version |-> version]
  BY <1>3, <1>4, <1>8 DEF After
<1>10. After(state, longer) = [id |-> newId, address |-> newAddress,
                              phoneNumber |-> newNumber, version |-> version + 1]
  BY <1>2, <1>3, <1>5a, <1>6a, <1>7a, <1>8 DEF After
<1>11. On([id |-> oldId, address |-> oldAddress,
           phoneNumber |-> oldNumber, version |-> version], event)
         = [id |-> newId, address |-> newAddress,
            phoneNumber |-> newNumber, version |-> version]
  <2>1. CASE event.type = "CustomerRegistered"
    BY <1>5, <1>6, <1>7, <2>1 DEF On, SetsId, SetsAddress, SetsPhoneNumber
  <2>2. CASE event.type = "CustomerRelocated"
    BY <1>5, <1>6, <1>7, <2>2 DEF On, SetsId, SetsAddress, SetsPhoneNumber
  <2>3. CASE event.type = "CustomerContactInfoChanged"
    BY <1>5, <1>6, <1>7, <2>3 DEF On, SetsId, SetsAddress, SetsPhoneNumber
  <2>4. CASE event.type \notin EventType
    BY <1>5, <1>6, <1>7, <2>4 DEF On, EventType, SetsId, SetsAddress, SetsPhoneNumber
  <2> QED
    BY <2>1, <2>2, <2>3, <2>4 DEF EventType
<1>12. ApplySingle([id |-> oldId, address |-> oldAddress,
                    phoneNumber |-> oldNumber, version |-> version], event)
         = [id |-> newId, address |-> newAddress,
            phoneNumber |-> newNumber, version |-> version + 1]
  BY <1>11 DEF ApplySingle
<1> QED
  BY <1>1, <1>9, <1>10, <1>12

-----------------------------------------------------------------------------
(* The invariant.  A step of the fold is After of one event more, so that   *)
(* what each step keeps is that the state is After of the past; that needs  *)
(* the past to be a sequence.                                               *)

Past == history \o transition.events

FoldInv ==
  /\ history \in Seq(SomeEvent)
  /\ transition.events \in Seq(SomeEvent)
  /\ FoldIsAfter

LEMMA FoldInit == Init => FoldInv
<1> SUFFICES ASSUME Init PROVE FoldInv
  OBVIOUS
<1>1. /\ history = <<>>
      /\ transition.events = <<>>
      /\ transition.state = NewState(Id)
  BY DEF Init, WithNoTransitions
<1>2. Past = <<>>
  BY <1>1 DEF Past
<1>3. After(NewState(Id), <<>>) = NewState(Id)
  BY DEF After, NewState, Latest
<1> QED
  BY <1>1, <1>2, <1>3 DEF FoldInv, FoldIsAfter, Past

LEMMA FoldNext == FoldInv /\ [Next]_vars => FoldInv'
<1> SUFFICES ASSUME FoldInv, [Next]_vars PROVE FoldInv'
  OBVIOUS
<1>1. /\ history \in Seq(SomeEvent)
      /\ transition.events \in Seq(SomeEvent)
      /\ Past \in Seq(SomeEvent)
      /\ transition.state = After(NewState(Id), Past)
  BY DEF FoldInv, FoldIsAfter, Past
<1>2. NewState(Id).version \in Int
  BY DEF NewState
<1>3. ASSUME NEW event \in SomeEvent
      PROVE  ApplySingle(transition.state, event)
               = After(NewState(Id), Append(Past, event))
  BY <1>1, <1>2, AfterAppend
<1>4. ASSUME NEW event \in SomeEvent, Load(event) PROVE FoldInv'
  <2>1. /\ transition.events = <<>>
        /\ history' = Append(history, event)
        /\ transition'.events = <<>>
        /\ transition'.state = ApplySingle(transition.state, event)
    BY <1>4 DEF Load, WithNoTransitions
  <2>2. Past = history /\ Past' = Append(Past, event)
    BY <1>1, <2>1 DEF Past
  <2>3. history' \in Seq(SomeEvent) /\ transition'.events \in Seq(SomeEvent)
    BY <1>1, <2>1
  <2> QED
    BY <1>3, <2>1, <2>2, <2>3 DEF FoldInv, FoldIsAfter, Past
<1>5. ASSUME NEW event \in SomeEvent, Apply(event) PROVE FoldInv'
  <2>1. /\ history' = history
        /\ transition'.events = Append(transition.events, event)
        /\ transition'.state = ApplySingle(transition.state, event)
    BY <1>5 DEF Apply
  <2>2. Past' = Append(Past, event)
    BY <1>1, <2>1 DEF Past
  <2>3. history' \in Seq(SomeEvent) /\ transition'.events \in Seq(SomeEvent)
    BY <1>1, <2>1
  <2> QED
    BY <1>3, <2>1, <2>2, <2>3 DEF FoldInv, FoldIsAfter, Past
<1>6. CASE UNCHANGED vars
  BY <1>6 DEF vars, FoldInv, FoldIsAfter
<1> QED
  BY <1>4, <1>5, <1>6 DEF Next

-----------------------------------------------------------------------------
(* The theorems.                                                            *)

\* Whatever is loaded and applied, one event at a time and over any number of
\* operations: the state is the one that After, in which the rest of the write
\* side is stated, gives for the whole past at once.
THEOREM FoldIsExact == Spec => []FoldIsAfter
<1>1. FoldInv => FoldIsAfter
  BY DEF FoldInv
<1> QED
  BY <1>1, FoldInit, FoldNext, PTL DEF Spec

\* The version that an append expects, which is computed from the state and the
\* changes, is the number of the last event that was loaded, also when there are
\* events among them that no On method handles.
THEOREM VersionIsLoaded == Spec => []ExpectedVersionIsLoaded
<1>1. FoldInv => ExpectedVersionIsLoaded
  <2> SUFFICES ASSUME FoldInv PROVE ExpectedVersionIsLoaded
    OBVIOUS
  <2>1. /\ Len(history) \in Nat /\ Len(transition.events) \in Nat
        /\ Len(Past) = Len(history) + Len(transition.events)
    BY DEF FoldInv, Past
  <2>2. transition.state.version = -1 + Len(Past)
    BY DEF FoldInv, FoldIsAfter, Past, After, NewState
  <2> QED
    BY <2>1, <2>2 DEF ExpectedVersionIsLoaded
<1> QED
  BY <1>1, FoldInit, FoldNext, PTL DEF Spec
=============================================================================
