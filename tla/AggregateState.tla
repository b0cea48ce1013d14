--------------------------- MODULE AggregateState ---------------------------
(***************************************************************************)
(* AggregateState.cs as it runs: one event at a time, first the recorded   *)
(* events of Repository.Load, then the changes of one or several Apply.    *)
(* Module Customer says in one expression what these steps compute; here   *)
(* the two are compared over every short sequence of events, with events   *)
(* among them that the customer has no On method for.                      *)
(***************************************************************************)
EXTENDS Customer

CONSTANTS
  Id,         \* the id of the customer that is loaded
  SomeEvent,  \* the events that may be recorded or applied
  MaxEvents   \* how many of them, in all

VARIABLES
  history,    \* the events that were loaded
  transition  \* the transition the operations have built so far

vars == <<history, transition>>

\* Mistake: a change of the contact info clears the address.
OnContactInfoClears(state, event) ==
  CASE event.type = "CustomerRegistered" ->
         [state EXCEPT !.id = event.customerId, !.address = event.address,
                       !.phoneNumber = event.phoneNumber]
    [] event.type = "CustomerRelocated" ->
         [state EXCEPT !.address = event.address]
    [] event.type = "CustomerContactInfoChanged" ->
         [state EXCEPT !.address = event.address,
                       !.phoneNumber = event.phoneNumber]
    [] OTHER -> state

\* The On methods of Customer.State; a type without one leaves the state.
On(state, event) ==
  CASE event.type = "CustomerRegistered" ->
         [state EXCEPT !.id = event.customerId, !.address = event.address,
                       !.phoneNumber = event.phoneNumber]
    [] event.type = "CustomerRelocated" ->
         [state EXCEPT !.address = event.address]
    [] event.type = "CustomerContactInfoChanged" ->
         [state EXCEPT !.phoneNumber = event.phoneNumber]
    [] OTHER -> state

\* Mistake: an event without an On method is not counted.
ApplyHandled(state, event) ==
  IF event.type \in EventType
  THEN [On(state, event) EXCEPT !.version = @ + 1]
  ELSE state

\* The version is counted before the method is looked at.
ApplySingle(state, event) == [On(state, event) EXCEPT !.version = @ + 1]

WithNoTransitions(state) == [state |-> state, events |-> <<>>]

Init ==
  /\ history = <<>>
  /\ transition = WithNoTransitions(NewState(Id))

HasRoom == Len(history) + Len(transition.events) < MaxEvents

\* ReadAndFold takes the next recorded event.
Load(event) ==
  /\ HasRoom
  /\ transition.events = <<>>
  /\ history' = Append(history, event)
  /\ transition' = WithNoTransitions(ApplySingle(transition.state, event))

\* Apply(transition, event).
Apply(event) ==
  /\ HasRoom
  /\ transition' = [state |-> ApplySingle(transition.state, event),
                    events |-> Append(transition.events, event)]
  /\ UNCHANGED history

Next == \E event \in SomeEvent : Load(event) \/ Apply(event)

Spec == Init /\ [][Next]_vars

-----------------------------------------------------------------------------
\* Folding step by step, over any number of operations, gives the state that
\* After gives for the whole past at once.
FoldIsAfter ==
  transition.state = After(NewState(Id), history \o transition.events)

\* The expected version UseCasesOf computes from a transition is the number
\* of the last event that was loaded, whatever the events are.
ExpectedVersionIsLoaded ==
  transition.state.version - Len(transition.events) = Len(history) - 1
=============================================================================
