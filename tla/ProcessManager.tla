--------------------------- MODULE ProcessManager ---------------------------
(***************************************************************************)
(* A process manager in the place of the read side: ProcessMessenger hands *)
(* the events of the subscription to a process, ProcessOf (Vlerx.Es.       *)
(* Process) or ProcessWithState (Processes of the web sample), which keeps *)
(* a state in SampleStateRepository and tells commands to the stories.     *)
(*                                                                         *)
(* The subscription is AtLeastOnce, which CatchUpSubscription implements:  *)
(* it hands over the events in order, and goes back when it is dropped or  *)
(* its process ends, to a checkpoint that may be a late one.  The          *)
(* repository answers at once, and Task.WaitAll blocks, so a reaction ends *)
(* before its checkpoint is stored, though nobody awaits the task of       *)
(* Dispatch.                                                               *)
(***************************************************************************)
EXTENDS Integers, Sequences, FiniteSets

CONSTANTS
  Kind,        \* the kinds of events
  CommandsOf,  \* what the process tells on an event of the kinds it reacts to,
               \* each command named by the kind of event it stores
  Storied,     \* the commands that have a story
  MaxEvents,   \* how many events are stored by commands of users
  MaxFailures  \* how many drops and crashes happen

ASSUME KindAssumption ==
  /\ DOMAIN CommandsOf \subseteq Kind
  /\ \A kind \in DOMAIN CommandsOf : CommandsOf[kind] \in Seq(Kind)
  /\ Storied \subseteq Kind
ASSUME BoundAssumption == MaxEvents \in Nat /\ MaxFailures \in Nat

VARIABLES
  reactor,     \* the kind of process, which never changes
  log,         \* the events that are stored, each identified by its index
  phase,       \* "ready" for the next event, "reacting" to it, or "storing"
               \* its checkpoint
  position,    \* the last event that was handed over
  reached,     \* how many events were handed over at some time
  repository,  \* SampleStateRepository.State
  reaction,    \* the state a reaction is to save, and what went wrong
  running,     \* the commands that are under way
  reactions,   \* how many reactions there were, the present one included
  saves,       \* since the repository is empty, how many have saved,
  fails,       \* and how many, from the first save, have failed
  failures     \* the drops and crashes so far

history == <<reactions, saves, fails>>
vars == <<reactor, log, phase, position, reached, repository, reaction, running,
          history, failures>>

\* The events are identified by their index, so that they are counted by it.
Subscription == INSTANCE AtLeastOnce WITH stored <- Len(log), handed <- position

NoState == [none |-> TRUE]
NoMessage == 0

\* new TState().WithId(processId).
InitialState(processId) == [id |-> processId, count |-> 0, version |-> -1]

NoReaction == [state |-> NoState, refused |-> FALSE, failed |-> FALSE]

ReactsTo == DOMAIN CommandsOf

\* WaitAll waits for the commands of the present reaction; those of one that
\* ended early go on beside it.
Own == {command \in running : command.reaction = reactions}

-----------------------------------------------------------------------------
Init ==
  /\ reactor \in {"ProcessOf", "ProcessWithState"}
  /\ log = <<>>
  /\ phase = "ready"
  /\ position = 0
  /\ reached = 0
  /\ repository = NoState
  /\ reaction = NoReaction
  /\ running = {}
  /\ reactions = 0
  /\ saves = 0
  /\ fails = 0
  /\ failures = 0

\* A command of a user, enveloped by MessageChainInfo.Init, stores an event:
\* the correlation is the command's own id, which is as new as the event's.
Originate(kind) ==
  /\ Cardinality({i \in 1..Len(log) : log[i].causation = NoMessage}) < MaxEvents
  /\ log' = Append(log, [kind |-> kind, correlation |-> Len(log) + 1,
                         causation |-> NoMessage])
  /\ UNCHANGED <<phase, position, reached, repository, reaction, running,
                 history, failures>>

-----------------------------------------------------------------------------
(* ReactTo. *)

Event == log[position + 1]

Loaded == IF repository = NoState THEN InitialState(Event.correlation) ELSE repository

\* Mistake: there is no clone.
ChangedWithoutClone(state) == [state EXCEPT !.count = @ + 1, !.version = @ + 1]

\* What an event makes of the state that was loaded: ProcessOf applies it to a
\* clone and counts the version of the original, ProcessWithState changes the
\* original.  The repository refers to the original, unless it was empty.
Changed(state) ==
  IF reactor = "ProcessOf" THEN [state EXCEPT !.version = @ + 1]
                           ELSE [state EXCEPT !.count = @ + 1]

\* The commands up to the first without a story, at which ContinueWith throws.
Told(commands) ==
  {i \in 1..Len(commands) : \A j \in 1..i : commands[j] \in Storied}

\* Mistake: the message is taken for the head of a chain of its own.
EnvelopeOfNewChain(kind, i) ==
  [kind |-> kind, index |-> i, reaction |-> reactions + 1,
   correlation |-> position + 1, causation |-> position + 1]

\* The correlation of the event, and its id as the causation.
Envelope(kind, i) ==
  [kind |-> kind, index |-> i, reaction |-> reactions + 1,
   correlation |-> Event.correlation, causation |-> position + 1]

ReactTo ==
  /\ phase = "ready"
  /\ Subscription!HandOver
  /\ Event.kind \in ReactsTo
  /\ LET commands == CommandsOf[Event.kind] IN
       /\ running' = running \cup {Envelope(commands[i], i) : i \in Told(commands)}
       /\ reaction' = [state |-> [Loaded EXCEPT !.count = @ + 1],
                       refused |-> Told(commands) # 1..Len(commands),
                       failed |-> FALSE]
  /\ repository' = IF repository = NoState THEN NoState ELSE Changed(repository)
  /\ phase' = "reacting"
  /\ reactions' = reactions + 1
  /\ UNCHANGED <<log, saves, fails, failures>>

\* ProcessMessenger finds no process that can react.
PassOver ==
  /\ phase = "ready"
  /\ Subscription!HandOver
  /\ Event.kind \notin ReactsTo
  /\ phase' = "storing"
  /\ UNCHANGED <<log, repository, reaction, running, history, failures>>

\* Mistake: the command is told again when it has succeeded.
CommandSucceedsAgain(command) ==
  /\ log' = Append(log, [kind |-> command.kind, correlation |-> command.correlation,
                         causation |-> command.causation])
  /\ UNCHANGED <<phase, position, reached, repository, reaction, running,
                 history, failures>>

\* The event of a command has the metadata of the command: its correlation and
\* its causation.
CommandSucceeds(command) ==
  /\ log' = Append(log, [kind |-> command.kind, correlation |-> command.correlation,
                         causation |-> command.causation])
  /\ running' = running \ {command}
  /\ UNCHANGED <<phase, position, reached, repository, reaction, history, failures>>

\* Its exception is that of WaitAll, if the reaction still waits.
CommandFails(command) ==
  /\ running' = running \ {command}
  /\ reaction' = IF phase = "reacting" /\ command \in Own
                 THEN [reaction EXCEPT !.failed = TRUE] ELSE reaction
  /\ UNCHANGED <<log, phase, position, reached, repository, history, failures>>

Save ==
  /\ phase = "reacting"
  /\ ~reaction.refused
  /\ ~reaction.failed
  /\ Own = {}
  /\ repository' = reaction.state
  /\ phase' = "storing"
  /\ saves' = saves + 1
  /\ reaction' = NoReaction
  /\ UNCHANGED <<log, position, reached, running, reactions, fails, failures>>

\* Mistake: nothing tells the waiting thread that a command has failed.
FailRefused ==
  /\ phase = "reacting"
  /\ reaction.refused
  /\ phase' = "storing"
  /\ fails' = IF repository = NoState THEN fails ELSE fails + 1
  /\ reaction' = NoReaction
  /\ UNCHANGED <<log, position, reached, repository, running, reactions, saves, failures>>

\* The task ends in an exception that nobody observes, at once when a command
\* has no story, and else when all commands are done.
Fail ==
  /\ phase = "reacting"
  /\ reaction.refused \/ (reaction.failed /\ Own = {})
  /\ phase' = "storing"
  /\ fails' = IF repository = NoState THEN fails ELSE fails + 1
  /\ reaction' = NoReaction
  /\ UNCHANGED <<log, position, reached, repository, running, reactions, saves, failures>>

-----------------------------------------------------------------------------
\* EventAppeared has completed, and the client hands over the next event.
StoreCheckpoint ==
  /\ phase = "storing"
  /\ phase' = "ready"
  /\ UNCHANGED <<log, position, reached, repository, reaction, running, history, failures>>

\* The subscription is dropped and starts again; the state stays in memory.
Drop ==
  /\ failures < MaxFailures
  /\ phase \in {"ready", "storing"}
  /\ failures' = failures + 1
  /\ Subscription!Resume
  /\ phase' = "ready"
  /\ UNCHANGED <<log, repository, reaction, running, history>>

\* Mistake: the reaction of the process that ended is still there.
CrashKeepingReaction ==
  /\ failures < MaxFailures
  /\ failures' = failures + 1
  /\ Subscription!Resume
  /\ phase' = "ready"
  /\ repository' = NoState
  /\ running' = {}
  /\ saves' = 0
  /\ fails' = 0
  /\ UNCHANGED <<log, reaction, reactions>>

\* The process ends and starts again, and its memory is gone.
Crash ==
  /\ failures < MaxFailures
  /\ failures' = failures + 1
  /\ Subscription!Resume
  /\ phase' = "ready"
  /\ repository' = NoState
  /\ reaction' = NoReaction
  /\ running' = {}
  /\ saves' = 0
  /\ fails' = 0
  /\ UNCHANGED <<log, reactions>>

-----------------------------------------------------------------------------
Answer == \E command \in running : CommandSucceeds(command) \/ CommandFails(command)

Proceed == ReactTo \/ PassOver \/ Save \/ Fail \/ StoreCheckpoint

Next ==
  /\ \/ \E kind \in Kind : Originate(kind)
     \/ Answer \/ Proceed \/ Drop \/ Crash
  /\ UNCHANGED reactor

Spec == Init /\ [][Next]_vars

\* A command that is told returns (EveryCommandReturns of UseCases), and the
\* threads of the program run on.
FairSpec ==
  /\ Spec
  /\ WF_vars(Answer /\ UNCHANGED reactor)
  /\ WF_vars(Proceed /\ UNCHANGED reactor)

-----------------------------------------------------------------------------
(* Properties. *)

State == [id : Nat, count : Nat, version : Int]
Message == [kind : Kind, correlation : Nat, causation : Nat]
Command == [kind : Kind, index : Nat, reaction : Nat, correlation : Nat, causation : Nat]

\* Every variable keeps its type; the subscription is among the events it has
\* handed over, and waits for one reaction at most.
TypeOK ==
  /\ reactor \in {"ProcessOf", "ProcessWithState"}
  /\ log \in Seq(Message)
  /\ phase \in {"ready", "reacting", "storing"}
  /\ reached \in 0..Len(log)
  /\ position \in 0..reached
  /\ repository \in State \cup {NoState}
  /\ IF phase = "reacting"
     THEN reaction \in [state : State, refused : BOOLEAN, failed : BOOLEAN]
     ELSE reaction = NoReaction
  /\ running \subseteq Command
  /\ reactions \in Nat /\ saves \in Nat /\ fails \in Nat
  /\ failures \in 0..MaxFailures

\* What an event says of its cause is true: the cause was stored before, the
\* process tells such a command on it, and both belong to the same chain.
\* Going from cause to cause leads to a command of a user, whose chain it is.
ChainsLeadBack ==
  \A q \in 1..Len(log) :
    LET cause == log[q].causation IN
    IF cause = NoMessage
    THEN log[q].correlation = q
    ELSE /\ cause < q
         /\ log[cause].correlation = log[q].correlation
         /\ log[cause].kind \in ReactsTo
         /\ \E i \in 1..Len(CommandsOf[log[cause].kind]) :
              CommandsOf[log[cause].kind][i] = log[q].kind

\* Only drops and crashes make a process tell a command again: an event that is
\* handed over once has each of its commands stored at most once.
RepeatsAreReplays ==
  \A p \in 1..Len(log) :
    log[p].kind \in ReactsTo =>
      Cardinality({q \in 1..Len(log) : log[q].causation = p})
        <= Len(CommandsOf[log[p].kind]) * (1 + failures)

UnderWay == IF phase = "reacting" THEN 1 ELSE 0

\* What the state in the repository tells of the reactions.  With ProcessOf it
\* counts those whose commands all succeeded, and a reaction that fails leaves
\* nothing but a version, which counts only those.  With ProcessWithState it
\* counts those that failed too, and the version says nothing.
StateTellsReactions ==
  repository # NoState =>
    IF reactor = "ProcessOf"
    THEN /\ repository.count = saves
         /\ repository.version = fails + UnderWay - 1
    ELSE /\ repository.count = saves + fails + UnderWay
         /\ repository.version = -1

\* No reaction holds up the subscription forever: in the end every event has
\* been handed over, and its checkpoint is stored.
CatchesUp == <>[](position = Len(log) /\ phase = "ready")
=============================================================================
