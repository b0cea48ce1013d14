------------------------------ MODULE ReadSide ------------------------------
(***************************************************************************)
(* The read side as a whole: the subscription of CatchUpSubscription, the  *)
(* MessageBroadcaster it dispatches to, CustomerEventListener, and the     *)
(* documents that RaventDbAtomicWriter keeps in RavenDB.  The write side   *)
(* is there by what it promises (AtomicCommands): a command that succeeds  *)
(* records what it decides on the whole history of its customer.           *)
(*                                                                         *)
(* SubscriptionIntegrator.On does not await the task of Dispatch, so the   *)
(* writes of a listener go on while later events are dispatched, and no    *)
(* one learns of a write that fails.                                       *)
(***************************************************************************)
EXTENDS CatchUpSubscription, Customer, SequencesExt

CONSTANT Command   \* the commands that succeed

ASSUME CommandAssumption == Command \subseteq AnyCommand
ASSUME SchemaAssumption == DomainEvent = Event

VARIABLES
  documents,  \* the customer documents of RavenDB
  writes,     \* the listeners' tasks that have not completed
  overlapped, \* a listener was told of an event while a write was under way
  lost        \* a write was under way when it failed or its process ended

projection == <<documents, writes, overlapped, lost>>
readVars == <<vars, projection>>

\* What CustomerViewModel has besides its id, which is its key, and the name.
Document == [address : AnyAddress, phoneNumber : AnyPhoneNumber]
NoDocument == [none |-> TRUE]

\* A task awaits SaveChangesAsync to save its document, or LoadAsync.
Saving(id, document) == [step |-> "saving", id |-> id, document |-> document]
Loading(event) == [step |-> "loading", id |-> event.customerId, event |-> event]

\* Where the events of a customer are in $all, in the order of which they are
\* its history.
PlacesOf(id) == {p \in PositionsOf("domain") : log[p].event.customerId = id}
Nth(places, n) == CHOOSE p \in places : Cardinality({q \in places : q <= p}) = n
HistoryOf(id) ==
  [n \in 1..Cardinality(PlacesOf(id)) |-> log[Nth(PlacesOf(id), n)].event]

-----------------------------------------------------------------------------
ReadInit ==
  /\ Init
  /\ documents = [id \in CustomerId |-> NoDocument]
  /\ writes = <<>>
  /\ overlapped = FALSE
  /\ lost = FALSE

\* A command succeeds: what it decides is stored in one append.
Publish(cmd) ==
  LET past == HistoryOf(cmd.customerId)
      events == Decide(cmd, past)
  IN /\ Cardinality(PositionsOf("domain") \cup PositionsOf("foreign")) < MaxEvents
     /\ cmd.type = "RegisterCustomer" => past = <<>>
     /\ events # <<>>
     /\ log' = log \o [i \in 1..Len(events) |-> DomainEntry(events[i])]
     /\ UNCHANGED <<phase, position, dispatched, late, failures, projection>>

-----------------------------------------------------------------------------
(* CustomerEventListener, one task for each registered listener: Startup   *)
(* registers the listener of CustomerRegistered twice.                     *)

\* Mistake: two arguments change places.
SwappedRegistration(e) ==
  Saving(e.customerId, [address |-> e.phoneNumber, phoneNumber |-> e.address])

Registration(e) ==
  Saving(e.customerId, [address |-> e.address, phoneNumber |-> e.phoneNumber])

\* Mistake: nobody is registered for registrations.
TasksOfChanges(event) ==
  IF event.type = "CustomerRegistered" THEN <<>> ELSE <<Loading(event)>>

TasksOf(event) ==
  IF event.type = "CustomerRegistered"
  THEN <<Registration(event), Registration(event)>>
  ELSE <<Loading(event)>>

\* Mistake: every field of the document is taken from the event.
UpdatedWhole(document, event) ==
  [address |-> event.address, phoneNumber |-> event.phoneNumber]

\* The Action that On gives to UpdateAsync.
Updated(document, event) ==
  IF event.type = "CustomerRelocated"
  THEN [document EXCEPT !.address = event.address]
  ELSE [document EXCEPT !.phoneNumber = event.phoneNumber]

\* _messenger.Dispatch: every listener runs up to its first request.
Dispatch(event) ==
  /\ writes' = writes \o TasksOf(event)
  /\ overlapped' = (overlapped \/ writes # <<>>)
  /\ UNCHANGED <<documents, lost>>

\* SaveChangesAsync replaces the document, whatever it has become since.
SaveChanges(i) ==
  /\ writes[i].step = "saving"
  /\ documents' = [documents EXCEPT ![writes[i].id] = writes[i].document]
  /\ writes' = RemoveAt(writes, i)
  /\ UNCHANGED <<vars, overlapped, lost>>

\* Mistake: the changes of the session are not saved.
LoadAndForget(i) ==
  /\ writes[i].step = "loading"
  /\ writes' = RemoveAt(writes, i)
  /\ UNCHANGED <<vars, documents, overlapped, lost>>

\* Mistake: a document that is missing is created.
LoadOrCreate(i) ==
  LET document == IF documents[writes[i].id] = NoDocument
                  THEN [address |-> Blank, phoneNumber |-> Blank]
                  ELSE documents[writes[i].id]
  IN /\ writes[i].step = "loading"
     /\ writes' = [writes EXCEPT ![i] =
                      Saving(writes[i].id, Updated(document, writes[i].event))]
     /\ UNCHANGED <<vars, documents, overlapped, lost>>

\* LoadAsync returns.  The update of no document throws; one that changes
\* nothing is not saved.
LoadAndUpdate(i) ==
  LET document == documents[writes[i].id] IN
  /\ writes[i].step = "loading"
  /\ writes' =
       IF document = NoDocument \/ Updated(document, writes[i].event) = document
       THEN RemoveAt(writes, i)
       ELSE [writes EXCEPT ![i] =
               Saving(writes[i].id, Updated(document, writes[i].event))]
  /\ UNCHANGED <<vars, documents, overlapped, lost>>

\* A request to RavenDB fails; the task of Dispatch is not observed.
WriteFails(i) ==
  /\ failures < MaxFailures
  /\ failures' = failures + 1
  /\ writes' = RemoveAt(writes, i)
  /\ lost' = TRUE
  /\ UNCHANGED <<log, phase, position, dispatched, late, documents, overlapped>>

Write(i) == SaveChanges(i) \/ LoadAndUpdate(i)

-----------------------------------------------------------------------------
EventAppearsAndIsDispatched == EventAppears /\ Dispatch(log[position + 1].event)

\* The tasks end with their process.
StopAndLoseWrites ==
  /\ Stop
  /\ writes' = <<>>
  /\ lost' = (lost \/ writes # <<>>)
  /\ UNCHANGED <<documents, overlapped>>

ReadNext ==
  \/ \E cmd \in Command : Publish(cmd)
  \/ EventAppearsAndIsDispatched
  \/ Proceed /\ UNCHANGED projection
  \/ Fail /\ UNCHANGED projection
  \/ StopAndLoseWrites
  \/ \E i \in 1..Len(writes) : Write(i) \/ WriteFails(i)

ReadSpec == ReadInit /\ [][ReadNext]_readVars

\* As for the subscription; and RavenDB answers.
FairReadSpec ==
  /\ ReadSpec
  /\ WF_readVars(EventAppearsAndIsDispatched \/ (Proceed /\ UNCHANGED projection))
  /\ WF_readVars(\E i \in 1..Len(writes) : Write(i))

-----------------------------------------------------------------------------
(* Properties. *)

TaskType ==
  [step : {"saving"}, id : StateId, document : Document]
    \cup [step : {"loading"}, id : StateId, event : Event]

\* Every variable of the projection keeps its type.
ReadTypeOK ==
  /\ documents \in [CustomerId -> Document \cup {NoDocument}]
  /\ writes \in Seq(TaskType)
  /\ overlapped \in BOOLEAN
  /\ lost \in BOOLEAN

\* Nothing is left to dispatch or to write.
AtRest ==
  /\ phase = "subscribed"
  /\ position = Len(log)
  /\ writes = <<>>

\* The document of a customer that was registered, by the same history from
\* which the write side decides; relocated only, it has none.
Expected(id) ==
  LET past == HistoryOf(id)
      customer == After(NewState(id), past)
  IN IF past # <<>> /\ past[1].type = "CustomerRegistered"
     THEN [address |-> customer.address, phoneNumber |-> customer.phoneNumber]
     ELSE NoDocument

\* No abandoned checkpoint was stored after later ones.
CheckpointsInOrder ==
  \A i, j \in PositionsOf("$checkpoint") :
    i < j => log[i].checkpoint <= log[j].checkpoint

\* Whatever was dropped or replayed, the documents at rest are
\* what the aggregates have become, if no write was lost, none was under
\* way when the next event was dispatched, and no late checkpoint has taken the
\* subscription back; for a second one may then take it forward again, past
\* events whose replay is not done.
ConsistentUnlessOverlapped ==
  AtRest /\ ~overlapped /\ ~lost /\ CheckpointsInOrder =>
    \A id \in CustomerId : documents[id] = Expected(id)

\* Even with overlapping writes, the documents at rest are those of the
\* registered customers, if no write was lost.
ExactlyTheRegistered ==
  AtRest /\ ~lost =>
    \A id \in CustomerId : documents[id] = NoDocument <=> Expected(id) = NoDocument

\* No race mixes up customers or fields: what a document says was said by a
\* dispatched event of its own customer.
DocumentsAreSourced ==
  \A id \in CustomerId : documents[id] # NoDocument =>
    \E i, j \in dispatched :
      /\ log[i].event.customerId = id /\ log[i].event.type \in SetsAddress
      /\ log[i].event.address = documents[id].address
      /\ log[j].event.customerId = id /\ log[j].event.type \in SetsPhoneNumber
      /\ log[j].event.phoneNumber = documents[id].phoneNumber

\* A registered customer is shown in the end, unless a write was lost or the
\* subscription has died.
EveryRegistrationIsShown ==
  \A id \in CustomerId :
    Expected(id) # NoDocument
      ~> documents[id] # NoDocument \/ lost \/ phase = "dead"

\* "Registration/Relocation will be consistent eventually" (All.cshtml).
EventuallyConsistent == <>[](\A id \in CustomerId : documents[id] = Expected(id))
=============================================================================
