------------------------------ MODULE UseCases ------------------------------
(***************************************************************************)
(* The write side: calls of Stories.Tell (Vlerx.Es/StoryBroker) that run   *)
(* concurrently in the threads of the web server, each through UseCasesOf, *)
(* Repository, UnitOfWork and EventStorage, against streams of one Event   *)
(* Store server.                                                           *)
(*                                                                         *)
(* The code has no retry of its own.  The Event Store client transmits a   *)
(* request again when its reply is lost, with the same event ids, and gives*)
(* up after a bounded number of times with an exception; the last request  *)
(* may still reach the server afterwards.                                  *)
(***************************************************************************)
EXTENDS Customer, EventStreams, SequencesExt

CONSTANTS
  Call,        \* the calls, each with its own thread and unit of work
  Command,     \* the commands they may carry
  SliceSize,   \* events per read: 4096 in ReadToEnd
  MaxRetries   \* transmissions of an append beyond the first

ASSUME CommandAssumption == Command \subseteq AnyCommand
ASSUME SliceSizeAssumption == SliceSize \in Nat \ {0}
ASSUME MaxRetriesAssumption == MaxRetries \in Nat

VARIABLES
  streams,   \* the recorded events of every stream of the server
  phase,     \* where each call is
  command,   \* the command each call carries
  position,  \* where the next slice of the call's ReadToEnd starts
  loaded,    \* the events the call's ReadToEnd has collected
  unit,      \* the unit of work the call saves, once it has decided
  retries    \* the replies the call's client has lost

vars == <<streams, phase, command, position, loaded, unit, retries>>

Stream == StateId

\* "succeeded": the task completed.  "conflict": it failed with a wrong
\* expected version.  "refused": no story.  "failed": the load failed.
\* "abandoned": the client gave up on the append, which may land or not.
Phase == {"idle", "reading", "saving",
          "succeeded", "conflict", "refused", "failed", "abandoned"}

Returned == {"succeeded", "conflict", "refused", "failed", "abandoned"}

\* The changes of a unit of work, each in an envelope with an id of its own
\* (Guid.NewGuid()).
Envelopes(c, events) ==
  [i \in 1..Len(events) |-> [id |-> <<c, i>>, body |-> events[i]]]

Bodies(recorded) == [i \in 1..Len(recorded) |-> recorded[i].body]

EmptyUnit == [stream |-> NewGuid, version |-> NoStream, changes |-> <<>>]

\* Mistake: the version after the changes is expected, not the one before.
FinalVersionUnitOf(c, transition) ==
  [stream |-> transition.state.id,
   version |-> transition.state.version,
   changes |-> Envelopes(c, transition.events)]

\* uow.Track and the expected version computed after it.
UnitOf(c, transition) ==
  [stream |-> transition.state.id,
   version |-> transition.state.version - Len(transition.events),
   changes |-> Envelopes(c, transition.events)]

-----------------------------------------------------------------------------
Init ==
  /\ streams = [s \in Stream |-> <<>>]
  /\ phase = [c \in Call |-> "idle"]
  /\ command \in [Call -> Command]
  /\ position = [c \in Call |-> 0]
  /\ loaded = [c \in Call |-> <<>>]
  /\ unit = [c \in Call |-> EmptyUnit]
  /\ retries = [c \in Call |-> 0]

\* _repository.Save: AppendEvents completes at once when nothing changed and
\* sends the append otherwise.
Save(c, transition) ==
  /\ unit' = [unit EXCEPT ![c] = UnitOf(c, transition)]
  /\ phase' = [phase EXCEPT ![c] =
                 IF transition.events = <<>> THEN "succeeded" ELSE "saving"]

\* Stories.ContinueWith throws NoStoryException.
TellUnknown(c) ==
  /\ phase[c] = "idle"
  /\ ~CanTell(command[c])
  /\ phase' = [phase EXCEPT ![c] = "refused"]
  /\ UNCHANGED <<streams, command, position, loaded, unit, retries>>

\* Mistake: a registration expects whatever version the stream has.
TellAndSaveAtCurrentVersion(c) ==
  LET story == RegisterStory(command[c])
      id == story.state.id
  IN /\ phase[c] = "idle"
     /\ command[c].type = "RegisterCustomer"
     /\ unit' = [unit EXCEPT ![c] =
                   [UnitOf(c, story) EXCEPT !.version = LastEventNumber(streams[id])]]
     /\ phase' = [phase EXCEPT ![c] = "saving"]
     /\ UNCHANGED <<streams, command, position, loaded, retries>>

\* A story that does not load: RegisterCustomer.
TellAndSaveWithoutLoading(c) ==
  /\ phase[c] = "idle"
  /\ command[c].type = "RegisterCustomer"
  /\ Save(c, RegisterStory(command[c]))
  /\ UNCHANGED <<streams, command, position, loaded, retries>>

\* A story that loads: RelocateCustomer.  It awaits the first slice.
LoadTellAndSave(c) ==
  /\ phase[c] = "idle"
  /\ command[c].type = "RelocateCustomer"
  /\ phase' = [phase EXCEPT ![c] = "reading"]
  /\ UNCHANGED <<streams, command, position, loaded, unit, retries>>

\* The slice a reading call is given, and the events it then has.
Source(c) == streams[command[c].customerId]

WithSlice(c) == loaded[c] \o ReadForward(Source(c), position[c], SliceSize)

\* Mistake: the next slice starts at the last event of this one.
ReadOverlappingSlice(c) ==
  /\ phase[c] = "reading"
  /\ ~IsEndOfStream(Source(c), position[c], SliceSize)
  /\ loaded' = [loaded EXCEPT ![c] = WithSlice(c)]
  /\ position' = [position EXCEPT ![c] = @ + SliceSize - 1]
  /\ UNCHANGED <<streams, phase, command, unit, retries>>

\* A slice arrives and is not the last one.
ReadSlice(c) ==
  /\ phase[c] = "reading"
  /\ ~IsEndOfStream(Source(c), position[c], SliceSize)
  /\ loaded' = [loaded EXCEPT ![c] = WithSlice(c)]
  /\ position' = [position EXCEPT ![c] = @ + SliceSize]
  /\ UNCHANGED <<streams, phase, command, unit, retries>>

\* Mistake: the loop does not end with an empty slice.
ReadLastFullSlice(c) ==
  /\ phase[c] = "reading"
  /\ IsEndOfStream(Source(c), position[c], SliceSize)
  /\ position[c] < Len(Source(c))
  /\ loaded' = [loaded EXCEPT ![c] = WithSlice(c)]
  /\ Save(c, RelocateStory(Bodies(WithSlice(c)), command[c]))
  /\ UNCHANGED <<streams, command, position, retries>>

\* The last slice arrives: the events are folded, the command decides, and
\* its decision is saved.
ReadLastSlice(c) ==
  /\ phase[c] = "reading"
  /\ IsEndOfStream(Source(c), position[c], SliceSize)
  /\ loaded' = [loaded EXCEPT ![c] = WithSlice(c)]
  /\ Save(c, RelocateStory(Bodies(WithSlice(c)), command[c]))
  /\ UNCHANGED <<streams, command, position, retries>>

-----------------------------------------------------------------------------
\* Mistake: nothing bounds the retries.
UnboundedReply(c, outcome) ==
  \/ /\ phase' = [phase EXCEPT ![c] = outcome]
     /\ UNCHANGED retries
  \/ /\ retries' = [retries EXCEPT ![c] = @ + 1]
     /\ UNCHANGED phase

\* The server's reply to an append completes the call, or is lost and the
\* client transmits the append again.
Reply(c, outcome) ==
  \/ /\ phase' = [phase EXCEPT ![c] = outcome]
     /\ UNCHANGED retries
  \/ /\ retries[c] < MaxRetries
     /\ retries' = [retries EXCEPT ![c] = @ + 1]
     /\ UNCHANGED phase

Target(c) == streams[unit[c].stream]

Extend(c) ==
  streams' = [streams EXCEPT ![unit[c].stream] = @ \o unit[c].changes]

\* Mistake: ExpectedVersion.Any.
AppendAnyVersion(c) ==
  /\ phase[c] = "saving"
  /\ Extend(c)
  /\ Reply(c, "succeeded")
  /\ UNCHANGED <<command, position, loaded, unit>>

AppendEvents(c) ==
  /\ phase[c] = "saving"
  /\ Accepts(Target(c), unit[c].version)
  /\ Extend(c)
  /\ Reply(c, "succeeded")
  /\ UNCHANGED <<command, position, loaded, unit>>

\* The append was stored before, and its reply lost.
AppendAgain(c) ==
  /\ phase[c] = "saving"
  /\ AlreadyAppended(Target(c), unit[c].version, unit[c].changes)
  /\ Reply(c, "succeeded")
  /\ UNCHANGED <<streams, command, position, loaded, unit>>

\* Mistake: new ids for each transmission, by which none is recognised.
RejectOwnAppend(c) ==
  /\ phase[c] = "saving"
  /\ ~Accepts(Target(c), unit[c].version)
  /\ Reply(c, "conflict")
  /\ UNCHANGED <<streams, command, position, loaded, unit>>

RejectAppend(c) ==
  /\ phase[c] = "saving"
  /\ ~Accepts(Target(c), unit[c].version)
  /\ ~AlreadyAppended(Target(c), unit[c].version, unit[c].changes)
  /\ Reply(c, "conflict")
  /\ UNCHANGED <<streams, command, position, loaded, unit>>

\* The client gives up: out of retries, timed out or closed.
GiveUp(c) ==
  /\ \/ /\ phase[c] = "reading"
        /\ phase' = [phase EXCEPT ![c] = "failed"]
     \/ /\ phase[c] = "saving"
        /\ phase' = [phase EXCEPT ![c] = "abandoned"]
  /\ UNCHANGED <<streams, command, position, loaded, unit, retries>>

\* The append of a call that has already failed reaches the server.
AppendLate(c) ==
  /\ phase[c] = "abandoned"
  /\ Accepts(Target(c), unit[c].version)
  /\ Extend(c)
  /\ UNCHANGED <<phase, command, position, loaded, unit, retries>>

-----------------------------------------------------------------------------
Tell(c) == TellUnknown(c) \/ TellAndSaveWithoutLoading(c) \/ LoadTellAndSave(c)
Read(c) == ReadSlice(c) \/ ReadLastSlice(c)
Answer(c) == AppendEvents(c) \/ AppendAgain(c) \/ RejectAppend(c)

Next == \E c \in Call :
          \/ Tell(c) \/ Read(c) \/ Answer(c) \/ GiveUp(c) \/ AppendLate(c)

Spec == Init /\ [][Next]_vars

\* A thread of the server runs on, and a request that is repeated until it is
\* answered is answered; nobody is obliged to make a call or to give up.
FairSpec == Spec /\ \A c \in Call : WF_vars(Read(c)) /\ WF_vars(Answer(c))

-----------------------------------------------------------------------------
(* Properties. *)

RecordedEvent == [id : Call \X Nat, body : Event]

\* Every variable keeps its type; no append is transmitted more than
\* MaxRetries times beyond the first.
TypeOK ==
  /\ streams \in [Stream -> Seq(RecordedEvent)]
  /\ phase \in [Call -> Phase]
  /\ command \in [Call -> Command]
  /\ position \in [Call -> Nat]
  /\ loaded \in [Call -> Seq(RecordedEvent)]
  /\ unit \in [Call -> [stream : Stream, version : Int,
                        changes : Seq(RecordedEvent)]]
  /\ retries \in [Call -> 0..MaxRetries]

\* The unit of work of call c is in its stream, whole and where it expected.
Stored(c) ==
  /\ unit[c].changes # <<>>
  /\ AlreadyAppended(Target(c), unit[c].version, unit[c].changes)

\* Some event of call c is in the stream s.
HasTraceIn(c, s) == \E i \in 1..Len(streams[s]) : streams[s][i].id[1] = c

\* ReadToEnd collects a prefix of the stream, with no gap and no repetition
\* between its slices, whatever is appended while it reads.
LoadIsPrefix == \A c \in Call : IsPrefix(loaded[c], Source(c))

\* No event is in the streams twice, however often its append was sent
\* (AppendEvents, UnitOfWork's ids).
AppliedAtMostOnce ==
  \A s, t \in Stream :
    \A i \in 1..Len(streams[s]), j \in 1..Len(streams[t]) :
      streams[s][i].id = streams[t][j].id => s = t /\ i = j

\* A caller learns what happened: a task that completes has stored all its
\* events or had none; one that fails with a wrong expected version left no
\* trace and was overtaken by another call; no unit is stored in part.
OutcomesAreTruthful ==
  \A c \in Call :
    /\ phase[c] = "succeeded" => unit[c].changes = <<>> \/ Stored(c)
    /\ phase[c] = "conflict" => Len(Target(c)) > unit[c].version + 1
    /\ \A s \in Stream : HasTraceIn(c, s) =>
         /\ phase[c] \in {"saving", "succeeded", "abandoned"}
         /\ s = unit[c].stream
         /\ Stored(c)

\* A customer is registered at most once, before anything else happens to it
\* (TellAndSaveWithoutLoading expects version -1).
RegisteredOnlyFirst ==
  \A s \in Stream : \A i \in 1..Len(streams[s]) :
    streams[s][i].body.type = "CustomerRegistered" => i = 1

\* The events of a stream are those of the customer that names it, and the
\* id a state is created with by Register never becomes a stream.
OwnStream ==
  /\ streams[NewGuid] = <<>>
  /\ \A s \in Stream : \A i \in 1..Len(streams[s]) :
       streams[s][i].body.customerId = s

\* A customer relocates only to an address it did not have at that point of
\* its history, though calls decide on histories they read earlier.
NoRedundantRelocation ==
  \A s \in Stream : \A i \in 1..Len(streams[s]) :
    streams[s][i].body.type = "CustomerRelocated" =>
      streams[s][i].body.address
        # After(NewState(s), SubSeq(Bodies(streams[s]), 1, i - 1)).address

\* Every call that is under way returns.
EveryCommandReturns ==
  \A c \in Call : phase[c] \in {"reading", "saving"} ~> phase[c] \in Returned

-----------------------------------------------------------------------------
(* What the safety properties follow from: an invariant that every step    *)
(* preserves.                                                              *)

\* What is loaded is a prefix of the stream, and a call that reads is one that
\* loads and has read up to its position.
LoadIsExact ==
  \A c \in Call :
    /\ IsPrefix(loaded[c], Source(c))
    /\ phase[c] \in {"idle", "reading"} => position[c] = Len(loaded[c])
    /\ phase[c] = "idle" => loaded[c] = <<>>
    /\ phase[c] = "reading" => command[c].type = "RelocateCustomer"

\* A unit of work is what its command decides on what its call has loaded.
UnitIsDecided ==
  \A c \in Call :
    IF phase[c] \in {"saving", "succeeded", "conflict", "abandoned"}
    THEN /\ CanTell(command[c])
         /\ command[c].type = "RegisterCustomer" => loaded[c] = <<>>
         /\ unit[c] = [stream |-> command[c].customerId,
                       version |-> Len(loaded[c]) - 1,
                       changes |-> Envelopes(c, Decide(command[c],
                                                       Bodies(loaded[c])))]
         /\ phase[c] # "succeeded" => unit[c].changes # <<>>
    ELSE unit[c] = EmptyUnit

\* The i-th event of a stream is the change of a unit of work that is stored
\* as a whole, at the place the unit has for it.
ComesFrom(s, i, c) ==
  /\ phase[c] \in {"saving", "succeeded", "abandoned"}
  /\ s = unit[c].stream
  /\ Stored(c)
  /\ i - unit[c].version - 1 \in 1..Len(unit[c].changes)
  /\ streams[s][i] = unit[c].changes[i - unit[c].version - 1]

Provenance ==
  \A s \in Stream : \A i \in 1..Len(streams[s]) :
    ComesFrom(s, i, streams[s][i].id[1])

ReturnsAreJustified ==
  \A c \in Call :
    /\ phase[c] = "succeeded" => unit[c].changes = <<>> \/ Stored(c)
    /\ phase[c] = "conflict" => Len(Target(c)) > unit[c].version + 1

IInv ==
  /\ TypeOK
  /\ LoadIsExact
  /\ UnitIsDecided
  /\ OwnStream
  /\ Provenance
  /\ ReturnsAreJustified

-----------------------------------------------------------------------------
(* The write side implements AtomicCommands: an append that is stored is   *)
(* the instant at which its call takes effect, and for a call without      *)
(* events that instant is the last slice of its load.                      *)

History == [id \in CustomerId |-> Bodies(streams[id])]

Effect ==
  [c \in Call |->
     IF phase[c] = "succeeded" \/ Stored(c) THEN "applied"
     ELSE IF phase[c] \in {"conflict", "refused", "failed"} THEN "refused"
     ELSE "pending"]

Atomic == INSTANCE AtomicCommands WITH history <- History, effect <- Effect

\* The calls have the effects of calls executed one at a time.
ImplementsAtomicCommands == Atomic!Spec
=============================================================================
