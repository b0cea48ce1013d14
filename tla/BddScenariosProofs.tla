-------------------------- MODULE BddScenariosProofs --------------------------
(***************************************************************************)
(* Proofs about BddScenarios, for any events a scenario may be given, any  *)
(* commands it may tell and any number of steps: what the verdict of       *)
(* ScenariosOfStories says of the storage of the program.                  *)
(***************************************************************************)
EXTENDS BddScenarios, CustomerProofs, FiniteSetTheorems

-----------------------------------------------------------------------------
(* The events of one customer in a list of events.                          *)

\* The places among the first n do not depend on what comes after.
LEMMA PlacesOfLonger ==
  ASSUME NEW S, NEW events \in Seq(S), NEW more \in Seq(S), NEW id,
         NEW n \in 0 .. Len(events)
  PROVE  Places(events \o more, id, n) = Places(events, id, n)
<1>1. PICK longer : longer = events \o more
  OBVIOUS
<1>2. \A i \in 1..n : longer[i] = events[i]
  BY <1>1, ConcatProperties
<1> QED
  BY <1>1, <1>2 DEF Places

\* There are finitely many.
LEMMA PlacesAreFinite ==
  ASSUME NEW events, NEW id, NEW n \in Nat
  PROVE  IsFiniteSet(Places(events, id, n)) /\ Cardinality(Places(events, id, n)) \in Nat
<1>1. IsFiniteSet(1..n)
  BY FS_Interval
<1>2. Places(events, id, n) \in SUBSET (1..n)
  BY DEF Places
<1> QED
  BY <1>1, <1>2, FS_Subset, FS_CardinalityType

\* Where more events of the customer follow, they are counted on.
LEMMA PlacesOfOwn ==
  ASSUME NEW S, NEW events \in Seq(S), NEW more \in Seq(S), NEW id,
         \A i \in 1 .. Len(more) : more[i].customerId = id,
         NEW k \in 0 .. Len(more)
  PROVE  Cardinality(Places(events \o more, id, Len(events) + k))
           = Cardinality(Places(events, id, Len(events))) + k
<1> DEFINE n == Len(events)
<1>1. PICK longer : longer = events \o more
  OBVIOUS
<1>2. /\ n \in Nat /\ Len(more) \in Nat /\ k \in Nat
      /\ \A i \in 1 .. n : longer[i] = events[i]
      /\ \A i \in n + 1 .. n + k : longer[i] = more[i - n]
  BY <1>1, ConcatProperties
<1>3. Places(longer, id, n + k) = Places(events, id, n) \cup (n + 1 .. n + k)
  <2>1. \A i \in n + 1 .. n + k : longer[i].customerId = id
    BY <1>2
  <2>2. \A i \in 1 .. n + k : i \in 1 .. n \/ i \in n + 1 .. n + k
    BY <1>2
  <2>3. \A i : i \in Places(longer, id, n + k)
                 <=> i \in Places(events, id, n) \/ i \in n + 1 .. n + k
    BY <1>2, <2>1, <2>2 DEF Places
  <2> QED
    BY <2>3
<1>4. IsFiniteSet(n + 1 .. n + k) /\ Cardinality(n + 1 .. n + k) = k
  <2>1. n + 1 \in Int /\ n + k \in Int /\ (n + 1 > n + k <=> k = 0) /\ (n + k) - (n + 1) + 1 = k
    BY <1>2
  <2>2. PICK a \in Int, b \in Int : a = n + 1 /\ b = n + k
    BY <2>1
  <2>3. IsFiniteSet(a .. b) /\ Cardinality(a .. b) = IF a > b THEN 0 ELSE b - a + 1
    BY <2>2, FS_Interval
  <2> QED
    BY <2>1, <2>2, <2>3
<1>5. Places(events, id, n) \cap (n + 1 .. n + k) = {}
  BY <1>2 DEF Places
<1>6. IsFiniteSet(Places(events, id, n)) /\ Cardinality(Places(events, id, n)) \in Nat
  BY <1>2, PlacesAreFinite
<1>7. PICK before, after : before = Places(events, id, n) /\ after = n + 1 .. n + k
  OBVIOUS
<1>8. Cardinality(before \cup after) = Cardinality(before) + Cardinality(after)
  <2>1. Cardinality(before \cup after)
          = Cardinality(before) + Cardinality(after) - Cardinality(before \cap after)
    BY <1>4, <1>6, <1>7, FS_Union
  <2>2. Cardinality(before \cap after) = 0
    BY <1>5, <1>7, FS_EmptySet
  <2> QED
    BY <1>2, <1>4, <1>6, <1>7, <2>1, <2>2
<1> QED
  BY <1>1, <1>3, <1>4, <1>7, <1>8

\* The customer's own events extend its stream.
LEMMA OwnEventsFollow ==
  ASSUME NEW S, NEW s \in Seq(S), NEW events \in Seq(S), NEW more \in Seq(S), NEW id,
         \A i \in 1 .. Len(more) : more[i].customerId = id,
         AreOfCustomer(s, events, id)
  PROVE  AreOfCustomer(s \o more, events \o more, id)
<1> DEFINE n == Len(events)
           count == Cardinality(Places(events, id, n))
<1>1. PICK longer, extended : longer = events \o more /\ extended = s \o more
  OBVIOUS
<1>2. /\ n \in Nat /\ Len(more) \in Nat /\ Len(s) = count /\ count \in Nat
      /\ Len(longer) = n + Len(more) /\ Len(extended) = count + Len(more)
      /\ \A i \in 1 .. n : longer[i] = events[i]
      /\ \A i \in n + 1 .. n + Len(more) : longer[i] = more[i - n]
      /\ \A i \in 1 .. count : extended[i] = s[i]
      /\ \A i \in count + 1 .. count + Len(more) : extended[i] = more[i - count]
  <2>1. n \in Nat /\ Len(more) \in Nat /\ Len(s) = count /\ count \in Nat
    BY DEF AreOfCustomer
  <2>2. /\ Len(longer) = n + Len(more)
        /\ \A i \in 1 .. n : longer[i] = events[i]
        /\ \A i \in n + 1 .. n + Len(more) : longer[i] = more[i - n]
    BY <1>1, <2>1, ConcatProperties
  <2>3. /\ Len(extended) = count + Len(more)
        /\ \A i \in 1 .. count : extended[i] = s[i]
        /\ \A i \in count + 1 .. count + Len(more) : extended[i] = more[i - count]
    <3> HIDE DEF count
    <3>1. Len(extended) = Len(s) + Len(more)
      BY <1>1, ConcatProperties
    <3>2. \A i \in 1 .. Len(s) + Len(more) :
            extended[i] = IF i <= Len(s) THEN s[i] ELSE more[i - Len(s)]
      BY <1>1, ConcatProperties
    <3> QED
      BY <2>1, <3>1, <3>2
  <2> QED
    BY <2>1, <2>2, <2>3
<1>3. \A k \in 0 .. Len(more) : Cardinality(Places(longer, id, n + k)) = count + k
  BY <1>1, PlacesOfOwn
<1>4. Len(extended) = Cardinality(Places(longer, id, Len(longer)))
  BY <1>2, <1>3
<1>5. ASSUME NEW i \in Places(longer, id, Len(longer))
      PROVE  extended[Cardinality(Places(longer, id, i))] = longer[i]
  <2>1. i \in 1 .. n + Len(more) /\ longer[i].customerId = id
    BY <1>2 DEF Places
  <2>2. CASE i <= n
    <3>1. i \in 0 .. n /\ i \in 1 .. n /\ i \in Nat
      BY <1>2, <2>1, <2>2
    <3>2. Places(longer, id, i) = Places(events, id, i)
      BY <1>1, <3>1, PlacesOfLonger
    <3>3. i \in Places(events, id, n) /\ longer[i] = events[i]
      BY <1>2, <2>1, <3>1 DEF Places
    <3>4. s[Cardinality(Places(events, id, i))] = events[i]
      BY <3>3 DEF AreOfCustomer
    <3>5. Cardinality(Places(events, id, i)) \in 1 .. count
      <4>1. IsFiniteSet(Places(events, id, n)) /\ IsFiniteSet(Places(events, id, i))
        BY <1>2, <3>1, PlacesAreFinite
      <4>2. Places(events, id, i) \in SUBSET Places(events, id, n)
        BY <1>2, <3>1 DEF Places
      <4>3. Cardinality(Places(events, id, i)) <= count
        BY <4>1, <4>2, FS_Subset
      <4>4. Places(events, id, i) # {}
        BY <3>1, <3>3 DEF Places
      <4>5. Cardinality(Places(events, id, i)) \in Nat
        BY <3>1, PlacesAreFinite
      <4>6. Cardinality(Places(events, id, i)) # 0
        BY <4>1, <4>4, FS_EmptySet
      <4> QED
        BY <1>2, <4>3, <4>5, <4>6
    <3> QED
      BY <1>2, <3>2, <3>3, <3>4, <3>5
  <2>3. CASE ~ (i <= n)
    <3>1. PICK k \in 0 .. Len(more) : i = n + k /\ k > 0
      <4>1. i - n \in 0 .. Len(more) /\ i = n + (i - n) /\ i - n > 0
        BY <1>2, <2>1, <2>3
      <4> QED
        BY <4>1
    <3>2. Cardinality(Places(longer, id, i)) = count + k
      BY <1>3, <3>1
    <3>3. longer[i] = more[k] /\ extended[count + k] = more[k]
      <4> HIDE DEF count, n
      <4>1. /\ k \in Nat /\ (n + k) - n = k /\ (count + k) - count = k
            /\ n + k \in n + 1 .. n + Len(more)
            /\ count + k \in count + 1 .. count + Len(more)
        BY <1>2, <3>1
      <4> QED
        BY <1>2, <3>1, <4>1
    <3> QED
      BY <3>2, <3>3
  <2> QED
    BY <1>2, <2>1, <2>2, <2>3
<1> QED
  BY <1>1, <1>4, <1>5 DEF AreOfCustomer

\* The events of others do not.
LEMMA OthersEventsPass ==
  ASSUME NEW S, NEW s, NEW events \in Seq(S), NEW more \in Seq(S), NEW id,
         \A i \in 1 .. Len(more) : more[i].customerId # id,
         AreOfCustomer(s, events, id)
  PROVE  AreOfCustomer(s, events \o more, id)
<1> DEFINE n == Len(events)
<1>1. PICK longer : longer = events \o more
  OBVIOUS
<1>2. /\ n \in Nat /\ Len(more) \in Nat /\ Len(longer) = n + Len(more)
      /\ \A i \in 1 .. n : longer[i] = events[i]
      /\ \A i \in n + 1 .. n + Len(more) : longer[i] = more[i - n]
  BY <1>1, ConcatProperties
<1>3. Places(longer, id, Len(longer)) = Places(events, id, n)
  <2>1. \A i \in n + 1 .. n + Len(more) : longer[i].customerId # id
    BY <1>2
  <2>2. \A i \in 1 .. Len(longer) : i \in 1 .. n \/ i \in n + 1 .. n + Len(more)
    BY <1>2
  <2>3. \A i : i \in Places(longer, id, Len(longer)) <=> i \in Places(events, id, n)
    BY <1>2, <2>1, <2>2 DEF Places
  <2> QED
    BY <2>3
<1>4. ASSUME NEW i \in Places(events, id, n)
      PROVE  Places(longer, id, i) = Places(events, id, i) /\ longer[i] = events[i]
  <2>1. i \in 0 .. n /\ i \in 1 .. n
    BY <1>2 DEF Places
  <2> QED
    BY <1>1, <1>2, <2>1, PlacesOfLonger
<1>5. /\ Len(s) = Cardinality(Places(events, id, n))
      /\ \A i \in Places(events, id, n) : s[Cardinality(Places(events, id, i))] = events[i]
  BY DEF AreOfCustomer
<1> QED
  BY <1>1, <1>3, <1>4, <1>5 DEF AreOfCustomer

\* Where all events are the customer's, its stream is the list.
LEMMA AllOfCustomer ==
  ASSUME NEW S, NEW s \in Seq(S), NEW events \in Seq(S), NEW id,
         \A i \in 1 .. Len(events) : events[i].customerId = id,
         AreOfCustomer(s, events, id)
  PROVE  s = events
<1>1. ASSUME NEW n \in 0 .. Len(events)
      PROVE  Places(events, id, n) = 1 .. n /\ Cardinality(Places(events, id, n)) = n
  <2>1. Places(events, id, n) = 1 .. n
    BY DEF Places
  <2>2. Cardinality(1 .. n) = n
    BY FS_Interval
  <2> QED
    BY <2>1, <2>2
<1>2. Len(events) \in 0 .. Len(events) /\ Len(events) \in Nat
  OBVIOUS
<1>3. Len(s) = Len(events)
  BY <1>1, <1>2 DEF AreOfCustomer
<1>4. ASSUME NEW i \in 1 .. Len(events) PROVE s[i] = events[i]
  <2>1. i \in 0 .. Len(events) /\ i \in Places(events, id, Len(events))
    BY <1>1, <1>2
  <2> QED
    BY <1>1, <2>1 DEF AreOfCustomer
<1> QED
  BY <1>2, <1>3, <1>4

-----------------------------------------------------------------------------
(* What a command decides on a list of events.                              *)

\* The events are of the command's customer, or of one that the list names; of
\* the command's alone, if the list names no other.
LEMMA Decided ==
  ASSUME NEW cmd \in AnyCommand, NEW past \in Seq(Event)
  PROVE  LET events == Decide(cmd, past) IN
         /\ events \in Seq(Event)
         /\ \A i \in 1 .. Len(events) :
              \/ events[i].customerId = cmd.customerId
              \/ \E j \in 1 .. Len(past) : events[i].customerId = past[j].customerId
         /\ cmd.type = "RegisterCustomer"
               \/ (\A j \in 1 .. Len(past) : past[j].customerId = cmd.customerId)
             => \A i \in 1 .. Len(events) : events[i].customerId = cmd.customerId
<1>1. CASE cmd.type = "RegisterCustomer"
  <2>1. Decide(cmd, past) = RegisterStory(cmd).events
    BY <1>1 DEF Decide
  <2>2. /\ RegisterStory(cmd).events \in Seq(Event)
        /\ Len(RegisterStory(cmd).events) = 1
        /\ RegisterStory(cmd).events[1].customerId = cmd.customerId
    BY RegisterDecision
  <2>3. \A i \in 1 .. 1 : i = 1
    OBVIOUS
  <2> QED
    BY <2>1, <2>2, <2>3
<1>2. CASE cmd.type # "RegisterCustomer"
  <2>1. PICK customer : customer = After(NewState(cmd.customerId), past)
    OBVIOUS
  <2>2. /\ NewState(cmd.customerId) \in State
        /\ NewState(cmd.customerId).id = cmd.customerId
    BY CommandFields, NewStateType DEF StateId, NewState
  <2>3. customer \in State
    BY <2>1, <2>2, AfterType
  <2>4. \/ customer.id = cmd.customerId
        \/ \E j \in 1 .. Len(past) : customer.id = past[j].customerId
    <3>1. customer.id = Latest(past, SetsId, IdsOf(past), cmd.customerId)
      BY <2>1, <2>2 DEF After
    <3> QED
      BY <3>1, LatestCases DEF IdsOf
  <2>5. PICK events : events = Relocate(customer, cmd.address, cmd.phoneNumber).events
    OBVIOUS
  <2>6. /\ events \in Seq(Event)
        /\ \A i \in 1 .. Len(events) : events[i].customerId = customer.id
    BY <2>3, <2>5, CommandFields, RelocateDecision
  <2>7. Decide(cmd, past) = events
    BY <1>2, <2>1, <2>5 DEF Decide, RelocateStory
  <2>8. (\A j \in 1 .. Len(past) : past[j].customerId = cmd.customerId)
          => customer.id = cmd.customerId
    BY <2>4
  <2> QED
    BY <1>2, <2>4, <2>6, <2>7, <2>8
<1> QED
  BY <1>1, <1>2

\* What a registration is does not depend on the past.
LEMMA RegistrationIsOne ==
  ASSUME NEW cmd, cmd.type = "RegisterCustomer", NEW past, NEW other
  PROVE  Decide(cmd, past) = Decide(cmd, other)
BY DEF Decide

-----------------------------------------------------------------------------
(* The invariant.                                                           *)

\* The list has events of the customers that were named, and of no other.
OnlyNamed ==
  /\ IsFiniteSet(Named) /\ Named \subseteq CustomerId
  /\ \A i \in 1 .. Len(db) : db[i].customerId \in Named

\* A stream has events of its customer.
OwnStreams ==
  \A id \in CustomerId : \A i \in 1 .. Len(stream[id]) : stream[id][i].customerId = id

\* While the scenario means something, the one list has the streams in it.
ListHasStreams ==
  IsSound => \A id \in CustomerId : AreOfCustomer(stream[id], db, id)

\* A verdict is that of Then about the events it expected.
VerdictIsThens ==
  /\ verdict = "passed" => Holds(expected)
  /\ verdict = "failed" => ~ Holds(expected)

ScenarioInv == TypeOK /\ OnlyNamed /\ OwnStreams /\ ListHasStreams /\ VerdictIsThens

LEMMA ScenarioInit == Init => ScenarioInv
<1> SUFFICES ASSUME Init PROVE ScenarioInv
  OBVIOUS
<1>1. TypeOK
  <2>1. <<>> \in Seq(Event) /\ Len(<<>>) = 0 /\ 0 \in 0 .. MaxSteps
    BY StepAssumption
  <2>2. stream \in [CustomerId -> Seq(Event)]
    BY <2>1 DEF Init
  <2>3. /\ db \in Seq(Event) /\ given \in Seq(Event) /\ expected \in Seq(Event)
        /\ Len(given) <= Len(db)
    BY <2>1 DEF Init
  <2>4. /\ verdict \in {"none", "passed", "failed", "threw"} /\ refused \in BOOLEAN
        /\ told \subseteq Command /\ steps \in 0 .. MaxSteps
    BY <2>1 DEF Init
  <2> QED
    BY <2>2, <2>3, <2>4 DEF TypeOK
<1>2. Named = {}
  BY DEF Init, Named
<1>3. OnlyNamed
  BY <1>2, FS_EmptySet DEF Init, OnlyNamed
<1>4. ASSUME NEW id \in CustomerId PROVE AreOfCustomer(stream[id], db, id)
  <2>1. Places(db, id, 0) = {}
    BY DEF Places
  <2>2. Len(db) = 0 /\ Len(stream[id]) = 0
    BY <1>4 DEF Init
  <2> QED
    BY <2>1, <2>2, FS_EmptySet DEF AreOfCustomer
<1> QED
  BY <1>1, <1>3, <1>4 DEF Init, ScenarioInv, OwnStreams, ListHasStreams, VerdictIsThens

\* What is sound was sound before: customers that are named, commands that are
\* told and refusals are not undone.
LEMMA SoundBefore ==
  ASSUME OnlyNamed', Named \subseteq Named', told \subseteq told',
         refused => refused', IsSound'
  PROVE  IsSound
<1>1. Cardinality(Named') <= 1 => Cardinality(Named) <= 1
  <2>1. PICK larger, smaller : larger = Named' /\ smaller = Named
    OBVIOUS
  <2>2. IsFiniteSet(larger) /\ smaller \in SUBSET larger
    BY <2>1 DEF OnlyNamed
  <2>3. IsFiniteSet(smaller) /\ Cardinality(smaller) <= Cardinality(larger)
    BY <2>2, FS_Subset
  <2>4. Cardinality(smaller) \in Nat /\ Cardinality(larger) \in Nat
    BY <2>2, <2>3, FS_CardinalityType
  <2> QED
    BY <2>1, <2>3, <2>4
<1> QED
  BY <1>1 DEF IsSound

\* In a set with at most one member, there is but one.
LEMMA OneNamed ==
  ASSUME NEW S, IsFiniteSet(S), Cardinality(S) <= 1, NEW x \in S, NEW y \in S
  PROVE  x = y
<1>1. Cardinality(S) \in Nat /\ Cardinality(S) # 0
  BY FS_CardinalityType, FS_EmptySet
<1>2. \E z : S = {z}
  BY <1>1, FS_Singleton
<1> QED
  BY <1>2

LEMMA GivenKeeps ==
  ASSUME ScenarioInv, NEW event \in GivenEvent, Given(event)
  PROVE  ScenarioInv'
<1> DEFINE c == event.customerId
<1>1. /\ event \in Event /\ c \in CustomerId
      /\ db \in Seq(Event) /\ given \in Seq(Event)
      /\ stream \in [CustomerId -> Seq(Event)]
  BY StepAssumption DEF ScenarioInv, TypeOK
<1>2. /\ verdict = "none" /\ steps < MaxSteps /\ steps' = steps + 1
      /\ given' = Append(given, event) /\ db' = Append(db, event)
      /\ stream' = [stream EXCEPT ![c] = Append(@, event)]
      /\ expected' = expected /\ verdict' = verdict /\ refused' = refused /\ told' = told
  BY DEF Given, GoesOn
<1>3. /\ stream' \in [CustomerId -> Seq(Event)]
      /\ stream'[c] = Append(stream[c], event)
      /\ \A id \in CustomerId : id # c => stream'[id] = stream[id]
  BY <1>1, <1>2
<1>4. /\ db' \in Seq(Event) /\ Len(db') = Len(db) + 1 /\ Len(db) \in Nat
      /\ \A i \in 1 .. Len(db) : db'[i] = db[i]
      /\ db'[Len(db) + 1] = event
  BY <1>1, <1>2, AppendProperties
<1>5. /\ given' \in Seq(Event) /\ Len(given') = Len(given) + 1 /\ Len(given) \in Nat
      /\ \A i \in 1 .. Len(given) : given'[i] = given[i]
      /\ given'[Len(given) + 1] = event
  BY <1>1, <1>2, AppendProperties
<1>6. TypeOK'
  BY <1>2, <1>3, <1>4, <1>5, StepAssumption DEF ScenarioInv, TypeOK
<1>7. Named' = Named \cup {c}
  <2>1. {given'[i].customerId : i \in 1 .. Len(given')}
          = {given[i].customerId : i \in 1 .. Len(given)} \cup {c}
    <3>1. \A i \in 1 .. Len(given') : i \in 1 .. Len(given) \/ i = Len(given) + 1
      BY <1>5
    <3>2. \A i \in 1 .. Len(given) : i \in 1 .. Len(given')
      BY <1>5
    <3>3. Len(given) + 1 \in 1 .. Len(given')
      BY <1>5
    <3> QED
      BY <1>5, <3>1, <3>2, <3>3
  <2> QED
    BY <1>2, <2>1 DEF Named
<1>8. OnlyNamed'
  <2>1. IsFiniteSet(Named \cup {c})
    BY FS_AddElement DEF ScenarioInv, OnlyNamed
  <2>2. \A i \in 1 .. Len(db') : i \in 1 .. Len(db) \/ i = Len(db) + 1
    BY <1>4
  <2> QED
    BY <1>1, <1>4, <1>7, <2>1, <2>2 DEF ScenarioInv, OnlyNamed
<1>9. OwnStreams'
  <2> SUFFICES ASSUME NEW id \in CustomerId, NEW i \in 1 .. Len(stream'[id])
               PROVE  stream'[id][i].customerId = id
    BY DEF OwnStreams
  <2>1. \A j \in 1 .. Len(stream[id]) : stream[id][j].customerId = id
    BY DEF ScenarioInv, OwnStreams
  <2>2. CASE id = c
    <3>1. PICK s \in Seq(Event) : s = stream[c]
      BY <1>1
    <3>2. /\ Len(Append(s, event)) = Len(s) + 1
          /\ \A j \in 1 .. Len(s) : Append(s, event)[j] = s[j]
          /\ Append(s, event)[Len(s) + 1] = event
      BY <1>1, <3>1, AppendProperties
    <3>3. i \in 1 .. Len(s) \/ i = Len(s) + 1
      BY <1>3, <2>2, <3>1, <3>2
    <3> QED
      BY <1>3, <2>1, <2>2, <3>1, <3>2, <3>3
  <2>3. CASE id # c
    BY <1>3, <2>1, <2>3
  <2> QED
    BY <2>2, <2>3
<1>10. ListHasStreams'
  <2> SUFFICES ASSUME IsSound', NEW id \in CustomerId
               PROVE  AreOfCustomer(stream'[id], db', id)
    BY DEF ListHasStreams
  <2>1. IsSound
    BY <1>2, <1>7, <1>8, SoundBefore
  <2>2. AreOfCustomer(stream[id], db, id)
    BY <2>1 DEF ScenarioInv, ListHasStreams
  <2>3. PICK s \in Seq(Event), more \in Seq(Event) :
          s = stream[id] /\ more = <<event>> /\ Len(more) = 1 /\ more[1] = event
    <3>1. /\ stream[id] \in Seq(Event) /\ <<event>> \in Seq(Event)
          /\ Len(<<event>>) = 1 /\ <<event>>[1] = event
      BY <1>1
    <3> QED
      BY <3>1
  <2>4. db' = db \o more
    BY <1>1, <1>2, <2>3, AppendIsConcat
  <2>5. \A i \in 1 .. Len(more) : more[i] = event
    BY <2>3
  <2>6. CASE id = c
    <3>1. stream'[id] = s \o more
      BY <1>1, <1>3, <2>3, <2>6, AppendIsConcat
    <3>2. AreOfCustomer(s \o more, db \o more, id)
      BY <1>1, <2>2, <2>3, <2>5, <2>6, OwnEventsFollow
    <3> QED
      BY <2>4, <3>1, <3>2
  <2>7. CASE id # c
    <3>1. AreOfCustomer(s, db \o more, id)
      BY <1>1, <2>2, <2>3, <2>5, <2>7, OthersEventsPass
    <3> QED
      BY <1>3, <2>3, <2>4, <2>7, <3>1
  <2> QED
    BY <2>6, <2>7
<1>11. VerdictIsThens'
  BY <1>2 DEF VerdictIsThens
<1> QED
  BY <1>6, <1>8, <1>9, <1>10, <1>11 DEF ScenarioInv

LEMMA WhenKeeps ==
  ASSUME ScenarioInv, NEW cmd \in Command, When(cmd)
  PROVE  ScenarioInv'
<1> DEFINE c == cmd.customerId
<1>1. /\ cmd \in AnyCommand /\ c \in CustomerId
      /\ db \in Seq(Event) /\ given \in Seq(Event)
      /\ stream \in [CustomerId -> Seq(Event)]
  BY StepAssumption, CommandFields DEF ScenarioInv, TypeOK
<1>2. PICK decided, kept :
        /\ decided = Decide(cmd, db)
        /\ kept = IF Refuses(cmd) THEN <<>> ELSE Decide(cmd, stream[c])
  OBVIOUS
<1>3. /\ verdict = "none" /\ steps < MaxSteps /\ steps' = steps + 1
      /\ told' = told \cup {cmd}
      /\ db' = db \o decided
      /\ refused' = (refused \/ Refuses(cmd))
      /\ given' = given /\ expected' = expected /\ verdict' = verdict
  BY <1>2 DEF When, GoesOn, ReadEvents
<1>4. /\ decided \in Seq(Event)
      /\ \A i \in 1 .. Len(decided) :
           \/ decided[i].customerId = c
           \/ \E j \in 1 .. Len(db) : decided[i].customerId = db[j].customerId
  BY <1>1, <1>2, Decided
<1>5. /\ kept \in Seq(Event)
      /\ \A i \in 1 .. Len(kept) : kept[i].customerId = c
  <2>1. CASE Refuses(cmd)
    BY <1>2, <2>1
  <2>2. CASE ~ Refuses(cmd)
    <3>1. stream[c] \in Seq(Event)
      BY <1>1
    <3>2. \A j \in 1 .. Len(stream[c]) : stream[c][j].customerId = c
      BY <1>1 DEF ScenarioInv, OwnStreams
    <3> QED
      BY <1>1, <1>2, <2>2, <3>1, <3>2, Decided
  <2> QED
    BY <2>1, <2>2
<1>6. stream' = [stream EXCEPT ![c] = stream[c] \o kept]
  <2>1. CASE Refuses(cmd)
    <3>1. stream[c] \o kept = stream[c]
      BY <1>1, <1>2, <2>1, ConcatEmptySeq
    <3> QED
      BY <1>1, <2>1, <3>1 DEF When
  <2>2. CASE ~ Refuses(cmd)
    BY <1>2, <2>2 DEF When
  <2> QED
    BY <2>1, <2>2
<1>7. /\ stream'[c] = stream[c] \o kept
      /\ stream' \in [CustomerId -> Seq(Event)]
      /\ \A id \in CustomerId : id # c => stream'[id] = stream[id]
  <2>1. stream[c] \o kept \in Seq(Event)
    BY <1>1, <1>5, ConcatProperties
  <2> QED
    BY <1>1, <1>6, <2>1
<1>8. /\ db' \in Seq(Event) /\ Len(db') = Len(db) + Len(decided)
      /\ Len(db) \in Nat /\ Len(decided) \in Nat
      /\ \A i \in 1 .. Len(db') :
           db'[i] = IF i <= Len(db) THEN db[i] ELSE decided[i - Len(db)]
  BY <1>1, <1>3, <1>4, ConcatProperties
<1>9. TypeOK'
  <2>1. Len(given) \in Nat /\ Len(given) <= Len(db')
    BY <1>1, <1>8 DEF ScenarioInv, TypeOK
  <2>2. refused' \in BOOLEAN
    BY <1>3 DEF ScenarioInv, TypeOK, Refuses
  <2> QED
    BY <1>3, <1>7, <1>8, <2>1, <2>2, StepAssumption DEF ScenarioInv, TypeOK
<1>10. Named' = Named \cup {c}
  BY <1>3 DEF Named
<1>11. OnlyNamed'
  <2>1. IsFiniteSet(Named \cup {c})
    BY FS_AddElement DEF ScenarioInv, OnlyNamed
  <2>2. ASSUME NEW i \in 1 .. Len(db') PROVE db'[i].customerId \in Named \cup {c}
    <3>1. CASE i <= Len(db)
      <4>1. i \in 1 .. Len(db) /\ db'[i] = db[i]
        BY <1>8, <3>1
      <4> QED
        BY <4>1 DEF ScenarioInv, OnlyNamed
    <3>2. CASE ~ (i <= Len(db))
      <4>1. i - Len(db) \in 1 .. Len(decided) /\ db'[i] = decided[i - Len(db)]
        BY <1>8, <3>2
      <4> QED
        BY <1>4, <4>1 DEF ScenarioInv, OnlyNamed
    <3> QED
      BY <3>1, <3>2
  <2> QED
    BY <1>1, <1>10, <2>1, <2>2 DEF ScenarioInv, OnlyNamed
<1>12. OwnStreams'
  <2> SUFFICES ASSUME NEW id \in CustomerId, NEW i \in 1 .. Len(stream'[id])
               PROVE  stream'[id][i].customerId = id
    BY DEF OwnStreams
  <2>1. \A j \in 1 .. Len(stream[id]) : stream[id][j].customerId = id
    BY DEF ScenarioInv, OwnStreams
  <2>2. CASE id = c
    <3>1. PICK s \in Seq(Event) : s = stream[c]
      BY <1>1
    <3>2. /\ Len(s \o kept) = Len(s) + Len(kept)
          /\ Len(s) \in Nat /\ Len(kept) \in Nat
          /\ \A j \in 1 .. Len(s) + Len(kept) :
               (s \o kept)[j] = IF j <= Len(s) THEN s[j] ELSE kept[j - Len(s)]
      BY <1>5, <3>1, ConcatProperties
    <3>3. \/ i \in 1 .. Len(s) /\ stream'[id][i] = s[i]
          \/ i - Len(s) \in 1 .. Len(kept) /\ stream'[id][i] = kept[i - Len(s)]
      BY <1>7, <2>2, <3>1, <3>2
    <3> QED
      BY <1>5, <2>1, <2>2, <3>1, <3>3
  <2>3. CASE id # c
    BY <1>7, <2>1, <2>3
  <2> QED
    BY <2>2, <2>3
<1>13. ListHasStreams'
  <2> SUFFICES ASSUME IsSound'
               PROVE  \A id \in CustomerId : AreOfCustomer(stream'[id], db', id)
    BY DEF ListHasStreams
  <2>1. IsSound
    BY <1>3, <1>10, <1>11, SoundBefore
  <2>2. \A id \in CustomerId : AreOfCustomer(stream[id], db, id)
    BY <2>1 DEF ScenarioInv, ListHasStreams
  <2>3. ~ Refuses(cmd)
    BY <1>3 DEF IsSound
  <2>4. decided = kept
    <3>1. CASE cmd.type = "RegisterCustomer"
      BY <1>2, <2>3, <3>1, RegistrationIsOne
    <3>2. CASE cmd.type # "RegisterCustomer"
      <4>1. Cardinality(Named') <= 1
        BY <1>3, <3>2 DEF IsSound
      <4>2. ASSUME NEW i \in 1 .. Len(db) PROVE db[i].customerId = c
        <5>1. PICK S : S = Named'
          OBVIOUS
        <5>2. IsFiniteSet(S) /\ Cardinality(S) <= 1 /\ c \in S
          BY <1>10, <1>11, <4>1, <5>1 DEF OnlyNamed
        <5>3. db[i].customerId \in S
          BY <1>10, <4>2, <5>1 DEF ScenarioInv, OnlyNamed
        <5> QED
          BY <5>2, <5>3, OneNamed
      <4>3. PICK s \in Seq(Event) : s = stream[c]
        BY <1>1
      <4>4. s = db
        BY <1>1, <2>2, <4>2, <4>3, AllOfCustomer
      <4> QED
        BY <1>2, <2>3, <4>3, <4>4
    <3> QED
      BY <3>1, <3>2
  <2>5. ASSUME NEW id \in CustomerId PROVE AreOfCustomer(stream'[id], db \o kept, id)
    <3>1. PICK s \in Seq(Event) : s = stream[id]
      BY <1>1
    <3>2. CASE id = c
      <4>1. AreOfCustomer(s \o kept, db \o kept, id)
        BY <1>1, <1>5, <2>2, <3>1, <3>2, OwnEventsFollow
      <4> QED
        BY <1>7, <3>1, <3>2, <4>1
    <3>3. CASE id # c
      <4>1. AreOfCustomer(s, db \o kept, id)
        BY <1>1, <1>5, <2>2, <3>1, <3>3, OthersEventsPass
      <4> QED
        BY <1>7, <3>1, <3>3, <4>1
    <3> QED
      BY <3>2, <3>3
  <2> QED
    BY <1>3, <2>4, <2>5
<1>14. VerdictIsThens'
  BY <1>3 DEF VerdictIsThens
<1> QED
  BY <1>9, <1>11, <1>12, <1>13, <1>14 DEF ScenarioInv

LEMMA ScenarioNext == ScenarioInv /\ [Next]_vars => ScenarioInv'
<1> SUFFICES ASSUME ScenarioInv, [Next]_vars PROVE ScenarioInv'
  OBVIOUS
<1>1. CASE \E event \in GivenEvent : Given(event)
  BY <1>1, GivenKeeps
<1>2. CASE \E cmd \in Command : When(cmd)
  BY <1>2, WhenKeeps
<1>3. CASE \E cmd \in Command : WhenUnknown(cmd)
  <2>1. /\ steps < MaxSteps /\ steps' = steps + 1 /\ verdict' = "threw"
        /\ UNCHANGED <<db, given, expected, stream, refused, told>>
    BY <1>3 DEF WhenUnknown, GoesOn
  <2>2. TypeOK'
    BY <2>1, StepAssumption DEF ScenarioInv, TypeOK
  <2>3. OnlyNamed' /\ OwnStreams' /\ ListHasStreams'
    BY <2>1 DEF ScenarioInv, OnlyNamed, OwnStreams, ListHasStreams, IsSound, Named
  <2> QED
    BY <2>1, <2>2, <2>3 DEF ScenarioInv, VerdictIsThens
<1>4. CASE \E events \in Expectation : Then(events)
  <2>1. PICK events \in Expectation : Then(events)
    BY <1>4
  <2>2. /\ expected' = events /\ verdict' = IF Holds(events) THEN "passed" ELSE "failed"
        /\ UNCHANGED <<db, given, stream, refused, told, steps>>
    BY <2>1 DEF Then
  <2>3. TypeOK'
    BY <2>2, StepAssumption DEF ScenarioInv, TypeOK
  <2>4. OnlyNamed' /\ OwnStreams' /\ ListHasStreams'
    BY <2>2 DEF ScenarioInv, OnlyNamed, OwnStreams, ListHasStreams, IsSound, Named
  <2>5. VerdictIsThens'
    BY <2>2 DEF VerdictIsThens, Holds, IsIn
  <2> QED
    BY <2>3, <2>4, <2>5 DEF ScenarioInv
<1>5. CASE UNCHANGED vars
  BY <1>5 DEF vars, ScenarioInv, TypeOK, OnlyNamed, OwnStreams, ListHasStreams, IsSound,
              Named, VerdictIsThens, Holds, IsIn
<1> QED
  BY <1>1, <1>2, <1>3, <1>4, <1>5 DEF Next

-----------------------------------------------------------------------------
(* The theorems.                                                            *)

\* Whatever a scenario is given and tells, the one list has events of the named
\* customers only, and while the scenario means something the streams of the
\* program are in it.
THEOREM ScenarioInvariant == Spec => []ScenarioInv
<1> QED
  BY ScenarioInit, ScenarioNext, PTL DEF Spec

\* The list, the streams and the verdict keep their types.
THEOREM TypeCorrect == Spec => []TypeOK
<1>1. ScenarioInv => TypeOK
  BY DEF ScenarioInv
<1> QED
  BY <1>1, ScenarioInvariant, PTL

\* The verdict of ScenariosOfStories on a scenario of one customer, or of
\* registrations of new customers, is about what the program stores.
THEOREM Faithful ==
  ASSUME Tool = "ScenariosOfStories"
  PROVE  Spec => []ScenarioIsFaithful
<1>1. ScenarioInv => ScenarioIsFaithful
  <2> SUFFICES ASSUME ScenarioInv, IsSound PROVE ScenarioIsFaithful
    BY DEF ScenarioIsFaithful
  <2>1. \A id \in CustomerId : AreOfCustomer(stream[id], db, id)
    BY DEF ScenarioInv, ListHasStreams
  <2>2. ASSUME verdict = "passed", NEW id \in CustomerId
        PROVE  AreOfCustomer(stream[id], given \o expected, id)
    <3>1. db = given \o expected
      BY <2>2 DEF ScenarioInv, VerdictIsThens, Holds
    <3> QED
      BY <2>1, <3>1
  <2>3. ASSUME verdict = "failed", Cardinality(Named) = 1
        PROVE  \E id \in Named : stream[id] # given \o expected
    <3>1. PICK id \in Named : TRUE
      BY <2>3, FS_EmptySet
    <3>2. id \in CustomerId /\ db \in Seq(Event) /\ stream[id] \in Seq(Event)
      BY <3>1 DEF ScenarioInv, OnlyNamed, TypeOK
    <3>3. \A i \in 1 .. Len(db) : db[i].customerId = id
      <4>1. PICK S : S = Named
        OBVIOUS
      <4>2. IsFiniteSet(S) /\ Cardinality(S) <= 1 /\ id \in S
        BY <2>3, <3>1, <4>1 DEF ScenarioInv, OnlyNamed
      <4>3. \A i \in 1 .. Len(db) : db[i].customerId \in S
        BY <4>1 DEF ScenarioInv, OnlyNamed
      <4> QED
        BY <4>2, <4>3, OneNamed
    <3>4. stream[id] = db
      BY <2>1, <3>2, <3>3, AllOfCustomer
    <3>5. db # given \o expected
      BY <2>3 DEF ScenarioInv, VerdictIsThens, Holds
    <3> QED
      BY <3>4, <3>5
  <2> QED
    BY <2>2, <2>3 DEF ScenarioIsFaithful
<1> QED
  BY <1>1, ScenarioInvariant, PTL
=============================================================================
