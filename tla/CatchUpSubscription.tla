------------------------ MODULE CatchUpSubscription ------------------------
(***************************************************************************)
(* The read side's subscription to $all: SubscriptionIntegrator.cs and     *)
(* EsCheckpointStore.cs in Vlerx.Es.EventStore/Subscription.  The stream   *)
(* of checkpoints is on the same server, so every checkpoint it stores     *)
(* appears in $all too, and comes back to the subscription.                *)
(*                                                                         *)
(* Positions are counted from 1, the position of an event being its index  *)
(* in the log; AllStart is the position before the first event.  The Event *)
(* Store client hands over one event at a time, the next one when the task *)
(* of EventAppeared has completed.  An append whose reply is lost is sent  *)
(* again under the same event id and stored once; one that the client gave *)
(* up on, or that was on its way in a crash, may still be stored later.    *)
(***************************************************************************)
EXTENDS Integers, Sequences, FiniteSets

CONSTANTS
  DomainEvent,   \* events whose type the event schema maps
  ForeignEvent,  \* events of other writers, whose type it does not map
  NoEvent,       \* what an entry of the server's own bookkeeping carries
  MaxEvents,     \* how many events the writers record
  MaxFailures    \* how many drops, crashes and failing starts happen

ASSUME EventAssumption ==
  /\ NoEvent \notin DomainEvent \cup ForeignEvent
  /\ DomainEvent \cap ForeignEvent = {}
ASSUME BoundAssumption == MaxEvents \in Nat /\ MaxFailures \in Nat

VARIABLES
  log,         \* $all: the entries of all streams in the order they were stored
  phase,       \* where the subscription is
  position,    \* the last event it was given
  dispatched,  \* the positions whose events were given to the messenger
  late,        \* abandoned appends of checkpoints, which may still be stored
  failures     \* the drops, crashes and failing starts so far

vars == <<log, phase, position, dispatched, late, failures>>

AllStart == 0

\* "fetching", "initialising", "limiting": awaits of Start, in its order.
\* "storing": EventAppeared awaits StoreCheckpoint.  "dead": an exception of
\* Start, in a task that nobody observes.
Starting == {"fetching", "initialising", "limiting"}
Phase == {"stopped", "subscribed", "storing", "dead"} \cup Starting

\* An event type that starts with "$" is the server's own.
SystemKind == {"$checkpoint", "$metadata"}

DomainEntry(event) == [kind |-> "domain", checkpoint |-> AllStart, event |-> event]
ForeignEntry(event) == [kind |-> "foreign", checkpoint |-> AllStart, event |-> event]
CheckpointEntry(p) == [kind |-> "$checkpoint", checkpoint |-> p, event |-> NoEvent]
MetadataEntry == [kind |-> "$metadata", checkpoint |-> AllStart, event |-> NoEvent]

EntryType ==
  [kind : {"domain", "foreign"} \cup SystemKind, checkpoint : Nat,
   event : DomainEvent \cup ForeignEvent \cup {NoEvent}]

PositionsOf(kind) == {i \in 1..Len(log) : log[i].kind = kind}

\* The last entry of the stream of checkpoints.
IsLastCheckpoint(i) ==
  /\ i \in PositionsOf("$checkpoint")
  /\ \A j \in PositionsOf("$checkpoint") : j <= i

HasCheckpoint == PositionsOf("$checkpoint") # {}

-----------------------------------------------------------------------------
Init ==
  /\ log = <<>>
  /\ phase = "stopped"
  /\ position = AllStart
  /\ dispatched = {}
  /\ late = {}
  /\ failures = 0

\* A writer, this program's write side or another, stores an event.
Record(entry) ==
  /\ Cardinality(PositionsOf("domain") \cup PositionsOf("foreign")) < MaxEvents
  /\ log' = Append(log, entry)
  /\ UNCHANGED <<phase, position, dispatched, late, failures>>

\* EventStoreService.StartAsync; Start asks for the checkpoint.
Start ==
  /\ phase = "stopped"
  /\ phase' = "fetching"
  /\ UNCHANGED <<log, position, dispatched, late, failures>>

\* Mistake: the subscription resumes with the live events.
ResumeAtEnd ==
  /\ phase = "fetching"
  /\ HasCheckpoint
  /\ phase' = "subscribed"
  /\ position' = Len(log)
  /\ UNCHANGED <<log, dispatched, late, failures>>

\* GetCheckpoint returns one: SubscribeToAllFrom resumes after it.
Resume ==
  /\ phase = "fetching"
  /\ phase' = "subscribed"
  /\ \E i \in 1..Len(log) :
       IsLastCheckpoint(i) /\ position' = log[i].checkpoint
  /\ UNCHANGED <<log, dispatched, late, failures>>

\* GetCheckpoint finds none, and stores AllStart.
Initialise ==
  /\ phase = "fetching"
  /\ ~HasCheckpoint
  /\ phase' = "initialising"
  /\ UNCHANGED <<log, position, dispatched, late, failures>>

StartStored ==
  /\ phase = "initialising"
  /\ log' = Append(log, CheckpointEntry(AllStart))
  /\ phase' = "limiting"
  /\ UNCHANGED <<position, dispatched, late, failures>>

\* SetStreamMaxCount, unless a count was set; GetCheckpoint returns AllStart.
SetStreamMaxCount ==
  /\ phase = "limiting"
  /\ log' = IF PositionsOf("$metadata") = {} THEN Append(log, MetadataEntry) ELSE log
  /\ phase' = "subscribed"
  /\ position' = AllStart
  /\ UNCHANGED <<dispatched, late, failures>>

-----------------------------------------------------------------------------
(* EventAppeared. *)

\* The next event of the log appears, and has one of these kinds.
Appears(kinds) ==
  /\ phase = "subscribed"
  /\ position < Len(log)
  /\ log[position + 1].kind \in kinds

\* Passed over, without a checkpoint.
SystemEventAppears ==
  /\ Appears(SystemKind)
  /\ position' = position + 1
  /\ UNCHANGED <<log, phase, dispatched, late, failures>>

\* Mistake: the checkpoints in $all are dispatched as events are.
EventOfAnyKindAppears ==
  /\ Appears({"domain", "$checkpoint"})
  /\ position' = position + 1
  /\ dispatched' = dispatched \cup {position + 1}
  /\ phase' = "storing"
  /\ UNCHANGED <<log, late, failures>>

\* On deserializes the event, starts its dispatch and the append of its
\* position to the stream of checkpoints.
EventAppears ==
  /\ Appears({"domain"})
  /\ position' = position + 1
  /\ dispatched' = dispatched \cup {position + 1}
  /\ phase' = "storing"
  /\ UNCHANGED <<log, late, failures>>

\* Mistake: an event that cannot be deserialized is passed over.
SkipForeignEvent ==
  /\ Appears({"foreign"})
  /\ position' = position + 1
  /\ UNCHANGED <<log, phase, dispatched, late, failures>>

\* Deserialize throws: the client drops the subscription, which starts again.
ForeignEventAppears ==
  /\ Appears({"foreign"})
  /\ phase' = "fetching"
  /\ position' = AllStart
  /\ UNCHANGED <<log, dispatched, late, failures>>

\* Mistake: the checkpoint is the position of the next event.
NextPositionStored ==
  /\ phase = "storing"
  /\ log' = Append(log, CheckpointEntry(position + 1))
  /\ phase' = "subscribed"
  /\ UNCHANGED <<position, dispatched, late, failures>>

CheckpointStored ==
  /\ phase = "storing"
  /\ log' = Append(log, CheckpointEntry(position))
  /\ phase' = "subscribed"
  /\ UNCHANGED <<position, dispatched, late, failures>>

-----------------------------------------------------------------------------
(* Failures. *)

\* What becomes of the checkpoint that is being stored when its task ends
\* without a reply.  The number of the failure tells abandoned appends apart.
Abandon ==
  /\ failures < MaxFailures
  /\ failures' = failures + 1
  /\ position' = AllStart
  /\ late' = late \cup
       (IF phase \in {"storing", "initialising"}
        THEN {[checkpoint |-> IF phase = "storing" THEN position ELSE AllStart,
               failure |-> failures]}
        ELSE {})

\* Mistake: SubscriptionDropped does not start again.
DropForGood ==
  /\ phase \in {"subscribed", "storing"}
  /\ Abandon
  /\ phase' = "dropped"
  /\ UNCHANGED <<log, dispatched>>

\* The client drops the subscription: its connection was lost, its queue was
\* full, or StoreCheckpoint failed.  SubscriptionDropped starts again.
Drop ==
  /\ phase \in {"subscribed", "storing"}
  /\ Abandon
  /\ phase' = "fetching"
  /\ UNCHANGED <<log, dispatched>>

\* A request of Start fails.  Task.Run drops the exception.
StartFails ==
  /\ phase \in Starting
  /\ Abandon
  /\ phase' = "dead"
  /\ UNCHANGED <<log, dispatched>>

\* The process ends, by StopAsync or by a crash.
Stop ==
  /\ phase # "stopped"
  /\ Abandon
  /\ phase' = "stopped"
  /\ UNCHANGED <<log, dispatched>>

\* An abandoned append reaches the server.
CheckpointStoredLate(append) ==
  /\ log' = Append(log, CheckpointEntry(append.checkpoint))
  /\ late' = late \ {append}
  /\ UNCHANGED <<phase, position, dispatched, failures>>

-----------------------------------------------------------------------------
Entry == {DomainEntry(e) : e \in DomainEvent} \cup {ForeignEntry(e) : e \in ForeignEvent}

\* The steps that dispatch nothing and end no process.
Proceed ==
  \/ Start \/ Resume \/ Initialise \/ StartStored \/ SetStreamMaxCount
  \/ SystemEventAppears \/ ForeignEventAppears \/ CheckpointStored

Fail ==
  \/ Drop \/ StartFails
  \/ \E append \in late : CheckpointStoredLate(append)

Next ==
  \/ \E entry \in Entry : Record(entry)
  \/ EventAppears \/ Proceed \/ Fail \/ Stop

Spec == Init /\ [][Next]_vars

\* The host starts its services, a request that the client repeats is
\* answered, and the events of the log are handed over; nothing needs to fail.
FairSpec == Spec /\ WF_vars(EventAppears \/ Proceed)

-----------------------------------------------------------------------------
(* Properties. *)

AbandonedAppend == [checkpoint : Nat, failure : Nat]

\* Every variable keeps its type.
TypeOK ==
  /\ log \in Seq(EntryType)
  /\ phase \in Phase
  /\ position \in 0..Len(log)
  /\ dispatched \subseteq 1..Len(log)
  /\ late \subseteq AbandonedAppend
  /\ failures \in 0..MaxFailures

\* Every event up to p was dispatched.
DispatchedUpTo(p) ==
  \A i \in 1..Len(log) :
    i <= p => log[i].kind # "foreign" /\ (log[i].kind = "domain" => i \in dispatched)

\* A subscription that starts again misses no event, whatever was dropped,
\* crashed or stored late (On dispatches before it stores the checkpoint).
NothingSkipped ==
  \A i \in 1..Len(log) :
    IsLastCheckpoint(i) => DispatchedUpTo(log[i].checkpoint)

\* An event is dispatched only when all events before it have been, so a
\* listener never meets a change of something it was not told of.
DispatchedInOrder == \A p \in dispatched : DispatchedUpTo(p)

\* A checkpoint is AllStart or the position of an event: those that come back
\* in $all are not stored in turn, or the subscription would feed itself
\* forever (the test for "$" in EventAppeared).
NoFeedback ==
  \A i \in PositionsOf("$checkpoint") :
    log[i].checkpoint \in {AllStart} \cup PositionsOf("domain")

BehindForeignEvent(p) == \E q \in PositionsOf("foreign") : q < p

\* Every event is dispatched in the end, unless an exception of Start has
\* ended the subscription, or an event of another writer before it makes the
\* subscription start over and over again: again and again nothing is left.
EveryEventIsDispatched ==
  []<>(\/ phase = "dead"
       \/ \A p \in PositionsOf("domain") : p \in dispatched \/ BehindForeignEvent(p))

-----------------------------------------------------------------------------
(* The subscription implements AtLeastOnce: a step that dispatches hands over, *)
(* a step that sets the position otherwise resumes or passes no event by.      *)

DomainUpTo(p) == {q \in PositionsOf("domain") : q <= p}

Abstract ==
  INSTANCE AtLeastOnce WITH stored <- Cardinality(PositionsOf("domain")),
                            handed <- Cardinality(DomainUpTo(position)),
                            reached <- Cardinality(dispatched)

\* Listeners see no more than an at-least-once delivery in order, whatever becomes
\* of checkpoints, connections and processes.
ImplementsAtLeastOnce == Abstract!Spec

-----------------------------------------------------------------------------
(* What they follow from. *)

\* Wherever the subscription is, or may resume, all events were dispatched.
ResumesAreSafe ==
  /\ phase \in {"subscribed", "storing"} => DispatchedUpTo(position)
  /\ phase = "storing" => position \in PositionsOf("domain")
  /\ \A i \in PositionsOf("$checkpoint") :
       i > log[i].checkpoint /\ DispatchedUpTo(log[i].checkpoint)
  /\ \A append \in late : /\ append.checkpoint \in {AllStart} \cup PositionsOf("domain")
                           /\ DispatchedUpTo(append.checkpoint)

IInv == TypeOK /\ ResumesAreSafe /\ DispatchedInOrder /\ NoFeedback
=============================================================================
