---------------------------- MODULE BddScenarios ----------------------------
(***************************************************************************)
(* A scenario of the BDD tools: Given, When and Then over                  *)
(* InMemoryEventStorage, which is one list of events whatever the name of  *)
(* the stream and the version.  Beside it goes what the program's storage  *)
(* would hold after the same events and commands, where each customer has  *)
(* a stream and a registration expects an empty one (AtomicCommands).      *)
(*                                                                         *)
(* Then is that of ScenariosOfStories, or the one of TestAdapter in the    *)
(* tests of the sample.                                                    *)
(***************************************************************************)
EXTENDS Customer, FiniteSets

CONSTANTS
  Tool,         \* "ScenariosOfStories" or "TestAdapter"
  GivenEvent,   \* the events a scenario may be given
  Command,      \* the commands it may tell
  Expectation,  \* the sequences of events it may expect
  MaxSteps      \* how often Given and When are called

ASSUME ToolAssumption == Tool \in {"ScenariosOfStories", "TestAdapter"}
ASSUME StepAssumption ==
  /\ GivenEvent \subseteq Event
  /\ \A event \in GivenEvent : event.customerId \in CustomerId
  /\ Command \subseteq AnyCommand
  /\ Expectation \subseteq Seq(Event)
  /\ MaxSteps \in Nat

VARIABLES
  db,        \* InMemoryEventStorage.db
  given,     \* the events that were given
  expected,  \* the events that Then expects
  verdict,   \* "none" yet, "passed", "failed", or "threw" before it came to Then
  stream,    \* what the program's storage would hold for each customer
  refused,   \* whether it would have refused a command
  told,      \* the commands that were told
  steps      \* how often Given and When were called

vars == <<db, given, expected, verdict, stream, refused, told, steps>>

Init ==
  /\ db = <<>>
  /\ given = <<>>
  /\ expected = <<>>
  /\ verdict = "none"
  /\ stream = [id \in CustomerId |-> <<>>]
  /\ refused = FALSE
  /\ told = {}
  /\ steps = 0

GoesOn ==
  /\ verdict = "none"
  /\ steps < MaxSteps
  /\ steps' = steps + 1

-----------------------------------------------------------------------------
\* Mistake: a story finds the stream of its customer, where no given event is.
ReadEventsOfStream == <<>>

\* Every stream is the whole list.
ReadEvents == db

\* Mistake: the given events are remembered, and not stored.
GivenOnly(event) ==
  /\ GoesOn
  /\ given' = Append(given, event)
  /\ stream' = [stream EXCEPT ![event.customerId] = Append(@, event)]
  /\ UNCHANGED <<db, expected, verdict, refused, told>>

\* Events given in one call and in several are stored alike.
Given(event) ==
  /\ GoesOn
  /\ given' = Append(given, event)
  /\ db' = Append(db, event)
  /\ stream' = [stream EXCEPT ![event.customerId] = Append(@, event)]
  /\ UNCHANGED <<expected, verdict, refused, told>>

Refuses(cmd) == cmd.type = "RegisterCustomer" /\ stream[cmd.customerId] # <<>>

When(cmd) ==
  /\ GoesOn
  /\ CanTell(cmd)
  /\ told' = told \cup {cmd}
  /\ db' = db \o Decide(cmd, ReadEvents)
  /\ stream' = IF Refuses(cmd) THEN stream
               ELSE [stream EXCEPT ![cmd.customerId] = @ \o Decide(cmd, @)]
  /\ refused' = (refused \/ Refuses(cmd))
  /\ UNCHANGED <<given, expected, verdict>>

\* Wait throws what the stories throw, and the scenario ends.
WhenUnknown(cmd) ==
  /\ GoesOn
  /\ ~CanTell(cmd)
  /\ verdict' = "threw"
  /\ UNCHANGED <<db, given, expected, stream, refused, told>>

-----------------------------------------------------------------------------
IsIn(event, events) == \E i \in 1..Len(events) : events[i] = event

\* Then of TestAdapter asks for one of the expected events, Then of
\* ScenariosOfStories for the given and the expected ones in their order.
Holds(events) ==
  IF Tool = "TestAdapter"
  THEN \E i \in 1..Len(events) : IsIn(events[i], db)
  ELSE db = given \o events

Then(events) ==
  /\ verdict = "none"
  /\ expected' = events
  /\ verdict' = IF Holds(events) THEN "passed" ELSE "failed"
  /\ UNCHANGED <<db, given, stream, refused, told, steps>>

Next ==
  \/ \E event \in GivenEvent : Given(event)
  \/ \E cmd \in Command : When(cmd) \/ WhenUnknown(cmd)
  \/ \E events \in Expectation : Then(events)

Spec == Init /\ [][Next]_vars

-----------------------------------------------------------------------------
(* Properties. *)

\* Every variable keeps its type; what was given is stored.
TypeOK ==
  /\ db \in Seq(Event)
  /\ given \in Seq(Event)
  /\ Len(given) <= Len(db)
  /\ expected \in Seq(Event)
  /\ verdict \in {"none", "passed", "failed", "threw"}
  /\ stream \in [CustomerId -> Seq(Event)]
  /\ refused \in BOOLEAN
  /\ told \subseteq Command
  /\ steps \in 0..MaxSteps

Named == {given[i].customerId : i \in 1..Len(given)} \cup {cmd.customerId : cmd \in told}

\* The places of the customer's events among the first n.
Places(events, id, n) == {i \in 1..n : events[i].customerId = id}

\* s are the customer's events, in their order.
AreOfCustomer(s, events, id) ==
  /\ Len(s) = Cardinality(Places(events, id, Len(events)))
  /\ \A i \in Places(events, id, Len(events)) :
       s[Cardinality(Places(events, id, i))] = events[i]

\* The scenarios whose verdict means something for the program: none of the
\* commands would be refused, and a relocation has only one customer's events
\* to read.
IsSound ==
  /\ ~refused
  /\ Cardinality(Named) <= 1 \/ \A cmd \in told : cmd.type = "RegisterCustomer"

\* A scenario of the kind above that passes tells what the program stores: the
\* stream of each customer is that of the given and then the expected events.
\* One that fails about one customer tells that it is not.
ScenarioIsFaithful ==
  IsSound =>
    /\ verdict = "passed" =>
         \A id \in CustomerId : AreOfCustomer(stream[id], given \o expected, id)
    /\ verdict = "failed" /\ Cardinality(Named) = 1 =>
         \E id \in Named : stream[id] # given \o expected

\* What EventsDidNotHappenException says: a test passes only if the events that
\* it expects happened.
PassedEventsHappened ==
  verdict = "passed" => \A i \in 1..Len(expected) : IsIn(expected[i], db)
=============================================================================
