------------------------ MODULE ProcessManagerProofs ------------------------
(***************************************************************************)
(* Proofs about ProcessManager, for any kinds of events, any commands that *)
(* the process tells on them, and any number of drops and crashes: IInv is *)
(* inductive, and the safety properties follow from it.                    *)
(***************************************************************************)
EXTENDS ProcessManager, FiniteSetTheorems, SequenceTheorems, TLAPS

-----------------------------------------------------------------------------
(* The invariant.                                                           *)

\* A command under way is one that the process tells on a stored event, in the
\* chain of that event.
CommandsAreTrue ==
  \A command \in running :
    /\ command.causation \in 1..Len(log)
    /\ log[command.causation].correlation = command.correlation
    /\ log[command.causation].kind \in ReactsTo
    /\ \E i \in 1..Len(CommandsOf[log[command.causation].kind]) :
         CommandsOf[log[command.causation].kind][i] = command.kind

\* What a reaction is to save counts itself, and not the failures that the
\* version of the loaded state is going to count.
ReactionTells ==
  /\ repository = NoState => saves = 0 /\ fails = 0
  /\ phase = "reacting" =>
       IF reactor = "ProcessOf"
       THEN reaction.state.count = saves + 1 /\ reaction.state.version = fails - 1
       ELSE reaction.state.count = saves + fails + 1 /\ reaction.state.version = -1

\* The events that an event has caused, and the commands under way on it.
StoredFor(p) == {q \in 1..Len(log) : log[q].causation = p}
RunningFor(p) == {command \in running : command.causation = p}

\* How often an event was handed over at most.
Rounds(p) == failures + (IF p <= position THEN 1 ELSE 0)

\* Every time an event was handed over, its commands were told at most once.
ToldInRounds ==
  /\ IsFiniteSet(running)
  /\ \A p \in 1..Len(log) : log[p].kind \in ReactsTo =>
       Cardinality(StoredFor(p)) + Cardinality(RunningFor(p))
         <= Len(CommandsOf[log[p].kind]) * Rounds(p)

\* What every step preserves.
IInv ==
  /\ TypeOK /\ CommandsAreTrue /\ ChainsLeadBack
  /\ StateTellsReactions /\ ReactionTells /\ ToldInRounds

-----------------------------------------------------------------------------
(* Types.                                                                   *)

\* A state differs from none.
LEMMA NoStateIsNone == NoState \notin State
BY DEF NoState, State

\* The process tells commands of known kinds, on events of known kinds.
LEMMA Constants ==
  /\ ReactsTo \subseteq Kind
  /\ \A kind \in ReactsTo : CommandsOf[kind] \in Seq(Kind)
BY KindAssumption DEF ReactsTo

\* What an append leaves of the log.
LEMMA AppendedLog ==
  ASSUME NEW s \in Seq(Message), NEW e \in Message
  PROVE  /\ Append(s, e) \in Seq(Message)
         /\ Len(s) \in Nat
         /\ Len(Append(s, e)) = Len(s) + 1
         /\ \A i \in 1..Len(s) : Append(s, e)[i] = s[i]
         /\ Append(s, e)[Len(s) + 1] = e
OBVIOUS

\* The event that is handed over next.
LEMMA NextEvent ==
  ASSUME TypeOK, position < Len(log)
  PROVE  /\ position + 1 \in 1..Len(log)
         /\ Event \in Message
         /\ position \in Nat /\ Len(log) \in Nat
<1>1. log \in Seq(Message) /\ position \in 0..Len(log)
  BY DEF TypeOK
<1>2. position + 1 \in 1..Len(log) /\ position \in Nat /\ Len(log) \in Nat
  BY <1>1
<1> QED
  BY <1>1, <1>2 DEF Event

\* What a reaction loads is a state.
LEMMA LoadedType ==
  ASSUME TypeOK, position < Len(log)
  PROVE  Loaded \in State
<1>1. Event.correlation \in Nat
  BY NextEvent DEF Message
<1>2. InitialState(Event.correlation) \in State
  BY <1>1 DEF InitialState, State
<1> QED
  BY <1>2 DEF Loaded, TypeOK

\* A reaction changes the object in the repository by one count or one version.
LEMMA ChangedState ==
  ASSUME NEW s \in State
  PROVE  /\ Changed(s) \in State
         /\ reactor = "ProcessOf" =>
              Changed(s).count = s.count /\ Changed(s).version = s.version + 1
         /\ reactor # "ProcessOf" =>
              Changed(s).count = s.count + 1 /\ Changed(s).version = s.version
<1>1. CASE reactor = "ProcessOf"
  <2>1. Changed(s) = [s EXCEPT !.version = @ + 1]
    BY <1>1 DEF Changed
  <2> QED
    BY <1>1, <2>1 DEF State
<1>2. CASE reactor # "ProcessOf"
  <2>1. Changed(s) = [s EXCEPT !.count = @ + 1]
    BY <1>2 DEF Changed
  <2> QED
    BY <1>2, <2>1 DEF State
<1> QED
  BY <1>1, <1>2

\* What a reaction tells is a command.
LEMMA EnvelopeType ==
  ASSUME TypeOK, position < Len(log), NEW kind \in Kind, NEW i \in Nat
  PROVE  Envelope(kind, i) \in Command
<1>1. Event.correlation \in Nat /\ position + 1 \in Nat /\ reactions + 1 \in Nat
  BY NextEvent DEF Message, TypeOK
<1> QED
  BY <1>1 DEF Envelope, Command

\* The initial types.
LEMMA InitType == Init => TypeOK
<1> SUFFICES ASSUME Init PROVE TypeOK
  OBVIOUS
<1>1. log \in Seq(Message) /\ Len(log) = 0
  BY DEF Init
<1>2. failures \in 0..MaxFailures
  BY BoundAssumption DEF Init
<1> QED
  BY <1>1, <1>2 DEF Init, TypeOK

\* An event is handed over, or the subscription resumes.
LEMMA SubscriptionSteps ==
  ASSUME TypeOK, log' = log
  PROVE  /\ Subscription!HandOver =>
              /\ position < Len(log) /\ position' = position + 1
              /\ position' \in 0..reached' /\ reached' \in 0..Len(log')
         /\ Subscription!Resume =>
              /\ position' \in 0..reached' /\ reached' \in 0..Len(log')
<1>1. /\ Len(log) \in Nat /\ reached \in 0..Len(log) /\ position \in 0..reached
  BY DEF TypeOK
<1> QED
  BY <1>1 DEF Subscription!HandOver, Subscription!Resume

\* A reaction keeps the types.
LEMMA ReactToType ==
  ASSUME TypeOK, ReactTo, UNCHANGED reactor
  PROVE  TypeOK'
<1> DEFINE commands == CommandsOf[Event.kind]
<1>1. /\ position < Len(log) /\ Event.kind \in ReactsTo
      /\ running' = running \cup {Envelope(commands[i], i) : i \in Told(commands)}
      /\ reaction' = [state |-> [Loaded EXCEPT !.count = @ + 1],
                      refused |-> Told(commands) # 1..Len(commands),
                      failed |-> FALSE]
      /\ repository' = IF repository = NoState THEN NoState ELSE Changed(repository)
      /\ phase' = "reacting" /\ position' = position + 1 /\ reactions' = reactions + 1
      /\ UNCHANGED <<log, saves, fails, failures>>
  BY SubscriptionSteps DEF ReactTo
<1>2. commands \in Seq(Kind)
  BY <1>1, Constants
<1> HIDE DEF commands
<1>3. \A i \in Told(commands) : commands[i] \in Kind /\ i \in Nat
  BY <1>2 DEF Told
<1>4. running' \subseteq Command
  BY <1>1, <1>3, EnvelopeType DEF TypeOK
<1>5. [Loaded EXCEPT !.count = @ + 1] \in State
  BY <1>1, LoadedType DEF State
<1>6. reaction' \in [state : State, refused : BOOLEAN, failed : BOOLEAN]
  <2> DEFINE told == Told(commands) # 1..Len(commands)
  <2>1. told \in BOOLEAN
    OBVIOUS
  <2>2. reaction' = [state |-> [Loaded EXCEPT !.count = @ + 1], refused |-> told, failed |-> FALSE]
    BY <1>1
  <2> HIDE DEF told
  <2> QED
    BY <1>5, <2>1, <2>2
<1>7. repository' \in State \cup {NoState}
  BY <1>1, ChangedState DEF TypeOK
<1>8. reached' \in 0..Len(log') /\ position' \in 0..reached'
  BY <1>1, SubscriptionSteps DEF ReactTo
<1>9. reactions' \in Nat
  BY <1>1 DEF TypeOK
<1> QED
  BY <1>1, <1>4, <1>6, <1>7, <1>8, <1>9 DEF TypeOK

\* An event is stored, and the rest keeps its type.
LEMMA StoreType ==
  ASSUME TypeOK, NEW message \in Message, log' = Append(log, message),
         UNCHANGED <<reactor, phase, position, reached, repository, reaction,
                     history, failures>>,
         running' \subseteq running
  PROVE  TypeOK'
<1>1. log' \in Seq(Message) /\ Len(log') = Len(log) + 1 /\ Len(log) \in Nat
  BY AppendedLog DEF TypeOK
<1>2. reached' \in 0..Len(log') /\ position' \in 0..reached'
  BY <1>1 DEF TypeOK
<1> QED
  BY <1>1, <1>2 DEF TypeOK, history

\* The events that steps store.
LEMMA StoredMessages ==
  ASSUME TypeOK
  PROVE  /\ \A kind \in Kind :
              [kind |-> kind, correlation |-> Len(log) + 1, causation |-> NoMessage] \in Message
         /\ \A command \in running :
              [kind |-> command.kind, correlation |-> command.correlation,
               causation |-> command.causation] \in Message
<1>1. Len(log) + 1 \in Nat
  BY DEF TypeOK
<1>2. \A command \in running : command \in Command
  BY DEF TypeOK
<1> QED
  BY <1>1, <1>2 DEF Message, Command, NoMessage

\* Every step keeps the types.
LEMMA TypeStep == TypeOK /\ [Next]_vars => TypeOK'
<1> SUFFICES ASSUME TypeOK, [Next]_vars PROVE TypeOK'
  OBVIOUS
<1>1. CASE UNCHANGED vars
  BY <1>1 DEF vars, history, TypeOK
<1> SUFFICES ASSUME Next PROVE TypeOK'
  BY <1>1
<1>0. UNCHANGED reactor
  BY DEF Next
<1>2. CASE \E kind \in Kind : Originate(kind)
  BY <1>0, <1>2, StoredMessages, StoreType DEF Originate
<1>3. CASE Answer
  <2>1. PICK command \in running : CommandSucceeds(command) \/ CommandFails(command)
    BY <1>3 DEF Answer
  <2>2. CASE CommandSucceeds(command)
    BY <1>0, <2>2, StoredMessages, StoreType DEF CommandSucceeds
  <2>3. CASE CommandFails(command)
    <3>1. IF phase' = "reacting"
          THEN reaction' \in [state : State, refused : BOOLEAN, failed : BOOLEAN]
          ELSE reaction' = NoReaction
      BY <2>3 DEF CommandFails, TypeOK
    <3> QED
      BY <1>0, <2>3, <3>1 DEF CommandFails, TypeOK, history
  <2> QED
    BY <2>1, <2>2, <2>3
<1>4. CASE ReactTo
  BY <1>0, <1>4, ReactToType
<1>5. CASE PassOver
  <2>1. reached' \in 0..Len(log') /\ position' \in 0..reached'
    BY <1>5, SubscriptionSteps DEF PassOver
  <2> QED
    BY <1>0, <1>5, <2>1 DEF PassOver, TypeOK, history
<1>6. CASE Save
  <2>1. repository' \in State
    BY <1>6 DEF Save, TypeOK
  <2> QED
    BY <1>0, <1>6, <2>1 DEF Save, TypeOK
<1>7. CASE Fail
  BY <1>0, <1>7 DEF Fail, TypeOK
<1>8. CASE StoreCheckpoint
  <2> QED
    BY <1>0, <1>8 DEF StoreCheckpoint, TypeOK, history
<1>9. CASE Drop \/ Crash
  <2>1. reached' \in 0..Len(log') /\ position' \in 0..reached'
    BY <1>9, SubscriptionSteps DEF Drop, Crash
  <2>2. failures' \in 0..MaxFailures
    BY <1>9, BoundAssumption DEF Drop, Crash, TypeOK
  <2> QED
    BY <1>0, <1>9, <2>1, <2>2 DEF Drop, Crash, TypeOK, history
<1> QED
  BY <1>2, <1>3, <1>4, <1>5, <1>6, <1>7, <1>8, <1>9 DEF Next, Proceed

-----------------------------------------------------------------------------
(* Chains.                                                                  *)

\* An event is stored: the earlier ones keep their places.
LEMMA LogGrows ==
  ASSUME TypeOK, NEW message \in Message, log' = Append(log, message)
  PROVE  /\ Len(log) \in Nat /\ Len(log') = Len(log) + 1
         /\ \A i \in 1..Len(log) : i \in 1..Len(log') /\ log'[i] = log[i]
         /\ log'[Len(log) + 1] = message
         /\ \A i \in 1..Len(log') : i \in 1..Len(log) \/ i = Len(log) + 1
<1>1. log \in Seq(Message)
  BY DEF TypeOK
<1>2. Len(log) \in Nat /\ Len(log') = Len(log) + 1
  BY <1>1, AppendedLog
<1> QED
  BY <1>1, <1>2, AppendedLog

\* A step that tells no command leaves the causes of the others true.
LEMMA CausesStay ==
  ASSUME TypeOK, CommandsAreTrue, running' \subseteq running,
         \/ log' = log
         \/ \E message \in Message : log' = Append(log, message)
  PROVE  CommandsAreTrue'
<1> SUFFICES ASSUME NEW command \in running'
             PROVE  /\ command.causation \in 1..Len(log')
                    /\ log'[command.causation] = log[command.causation]
  BY DEF CommandsAreTrue
<1>1. command.causation \in 1..Len(log)
  BY DEF CommandsAreTrue
<1> QED
  BY <1>1, LogGrows

\* An event with a true cause, or none, is stored.
LEMMA ChainsGrow ==
  ASSUME TypeOK, ChainsLeadBack, NEW message \in Message,
         log' = Append(log, message),
         \/ message.causation = NoMessage /\ message.correlation = Len(log) + 1
         \/ /\ message.causation \in 1..Len(log)
            /\ log[message.causation].correlation = message.correlation
            /\ log[message.causation].kind \in ReactsTo
            /\ \E i \in 1..Len(CommandsOf[log[message.causation].kind]) :
                 CommandsOf[log[message.causation].kind][i] = message.kind
  PROVE  ChainsLeadBack'
<1> SUFFICES ASSUME NEW q \in 1..Len(log')
             PROVE  LET cause == log'[q].causation IN
                    IF cause = NoMessage
                    THEN log'[q].correlation = q
                    ELSE /\ cause < q
                         /\ log'[cause].correlation = log'[q].correlation
                         /\ log'[cause].kind \in ReactsTo
                         /\ \E i \in 1..Len(CommandsOf[log'[cause].kind]) :
                              CommandsOf[log'[cause].kind][i] = log'[q].kind
  BY DEF ChainsLeadBack
<1> DEFINE cause == log'[q].causation
<1>1. CASE q \in 1..Len(log)
  <2>1. log'[q] = log[q] /\ log[q] \in Message
    BY <1>1, LogGrows DEF TypeOK
  <2>2. CASE cause = NoMessage
    BY <1>1, <2>1, <2>2 DEF ChainsLeadBack
  <2>3. CASE cause # NoMessage
    <3>1. cause \in Nat /\ cause < q
      BY <1>1, <2>1, <2>3 DEF ChainsLeadBack, Message
    <3>2. cause \in 1..Len(log)
      BY <1>1, <2>3, <3>1, LogGrows DEF NoMessage
    <3>3. log'[cause] = log[cause]
      BY <3>2, LogGrows
    <3> QED
      BY <1>1, <2>1, <2>3, <3>3 DEF ChainsLeadBack
  <2> QED
    BY <2>2, <2>3
<1>2. CASE q = Len(log) + 1
  <2>1. log'[q] = message /\ Len(log) \in Nat
    BY <1>2, LogGrows
  <2>2. CASE message.causation = NoMessage /\ message.correlation = Len(log) + 1
    BY <1>2, <2>1, <2>2
  <2>3. CASE message.causation # NoMessage \/ message.correlation # Len(log) + 1
    <3>1. cause \in 1..Len(log) /\ cause # NoMessage /\ cause < q
      BY <1>2, <2>1, <2>3 DEF NoMessage
    <3>2. log'[cause] = log[cause]
      BY <3>1, LogGrows
    <3> QED
      BY <2>1, <2>3, <3>1, <3>2 DEF NoMessage
  <2> QED
    BY <2>2, <2>3
<1> QED
  BY <1>1, <1>2, LogGrows

\* The commands of a reaction are told on its event.
LEMMA ReactToCauses ==
  ASSUME TypeOK, CommandsAreTrue, ReactTo
  PROVE  CommandsAreTrue'
<1> DEFINE commands == CommandsOf[Event.kind]
<1>1. /\ position < Len(log) /\ Event.kind \in ReactsTo /\ log' = log
      /\ running' = running \cup {Envelope(commands[i], i) : i \in Told(commands)}
  BY SubscriptionSteps DEF ReactTo
<1> SUFFICES ASSUME NEW command \in running', command \notin running
             PROVE  /\ command.causation \in 1..Len(log)
                    /\ log[command.causation].correlation = command.correlation
                    /\ log[command.causation].kind \in ReactsTo
                    /\ \E i \in 1..Len(CommandsOf[log[command.causation].kind]) :
                         CommandsOf[log[command.causation].kind][i] = command.kind
  BY <1>1 DEF CommandsAreTrue
<1>2. PICK i \in Told(commands) : command = Envelope(commands[i], i)
  BY <1>1
<1>3. /\ command.causation = position + 1 /\ command.correlation = Event.correlation
      /\ command.kind = commands[i]
  BY <1>2 DEF Envelope
<1>4. i \in 1..Len(commands)
  BY <1>2 DEF Told
<1>5. position + 1 \in 1..Len(log) /\ log[position + 1] = Event
  BY <1>1, NextEvent DEF Event
<1> QED
  BY <1>1, <1>3, <1>4, <1>5

\* Every step keeps the chains true.
LEMMA ChainStep ==
  ASSUME TypeOK, CommandsAreTrue, ChainsLeadBack, [Next]_vars
  PROVE  CommandsAreTrue' /\ ChainsLeadBack'
<1>1. CASE log' = log /\ running' \subseteq running
  <2>1. CommandsAreTrue'
    BY <1>1, CausesStay
  <2> QED
    BY <1>1, <2>1 DEF ChainsLeadBack
<1>2. CASE \E kind \in Kind : Originate(kind)
  <2>1. PICK kind \in Kind :
          /\ log' = Append(log, [kind |-> kind, correlation |-> Len(log) + 1,
                                 causation |-> NoMessage])
          /\ running' = running
    BY <1>2 DEF Originate
  <2> DEFINE message == [kind |-> kind, correlation |-> Len(log) + 1,
                         causation |-> NoMessage]
  <2>2. message \in Message
    BY StoredMessages
  <2>3. message.causation = NoMessage /\ message.correlation = Len(log) + 1
    OBVIOUS
  <2>4. log' = Append(log, message)
    BY <2>1
  <2> HIDE DEF message
  <2> QED
    BY <2>1, <2>2, <2>3, <2>4, CausesStay, ChainsGrow
<1>3. CASE \E command \in running : CommandSucceeds(command)
  <2>1. PICK command \in running :
          /\ log' = Append(log, [kind |-> command.kind, correlation |-> command.correlation,
                                 causation |-> command.causation])
          /\ running' = running \ {command}
    BY <1>3 DEF CommandSucceeds
  <2> DEFINE message == [kind |-> command.kind, correlation |-> command.correlation,
                         causation |-> command.causation]
  <2>2. message \in Message
    BY StoredMessages
  <2>3. /\ message.causation = command.causation /\ message.kind = command.kind
        /\ message.correlation = command.correlation
    OBVIOUS
  <2>4. log' = Append(log, message)
    BY <2>1
  <2> HIDE DEF message
  <2>5. CommandsAreTrue'
    BY <2>1, <2>2, <2>4, CausesStay
  <2>6. /\ message.causation \in 1..Len(log)
        /\ log[message.causation].correlation = message.correlation
        /\ log[message.causation].kind \in ReactsTo
        /\ \E i \in 1..Len(CommandsOf[log[message.causation].kind]) :
             CommandsOf[log[message.causation].kind][i] = message.kind
    BY <2>3 DEF CommandsAreTrue
  <2>7. ChainsLeadBack'
    BY <2>2, <2>4, <2>6, ChainsGrow
  <2> QED
    BY <2>5, <2>7
<1>4. CASE ReactTo
  <2>1. log' = log
    BY <1>4 DEF ReactTo
  <2> QED
    BY <1>4, <2>1, ReactToCauses DEF ChainsLeadBack
<1>5. CASE \E command \in running : CommandFails(command)
  BY <1>1, <1>5 DEF CommandFails
<1>6. CASE PassOver \/ Save \/ Fail \/ StoreCheckpoint
  BY <1>1, <1>6 DEF PassOver, Save, Fail, StoreCheckpoint
<1>7. CASE Drop \/ Crash
  BY <1>1, <1>7 DEF Drop, Crash
<1>8. CASE UNCHANGED vars
  BY <1>1, <1>8 DEF vars
<1> QED
  BY <1>2, <1>3, <1>4, <1>5, <1>6, <1>7, <1>8 DEF Next, Answer, Proceed


-----------------------------------------------------------------------------
(* What the state tells of the reactions.                                   *)

\* The parts of these two that a step leaves alone.
LEMMA TellsUnchanged ==
  ASSUME StateTellsReactions, ReactionTells,
         UNCHANGED <<reactor, repository, saves, fails>>,
         \/ phase # "reacting" /\ phase' # "reacting"
         \/ phase = "reacting" /\ phase' = "reacting" /\ reaction'.state = reaction.state
  PROVE  StateTellsReactions' /\ ReactionTells'
<1>1. UnderWay' = UnderWay
  BY DEF UnderWay
<1> QED
  BY <1>1 DEF StateTellsReactions, ReactionTells

\* A reaction begins from what the state tells.
LEMMA ReactToTells ==
  ASSUME TypeOK, StateTellsReactions, ReactionTells, ReactTo, UNCHANGED reactor
  PROVE  StateTellsReactions' /\ ReactionTells'
<1>1. /\ position < Len(log) /\ phase = "ready" /\ phase' = "reacting"
      /\ reaction'.state = [Loaded EXCEPT !.count = @ + 1]
      /\ repository' = IF repository = NoState THEN NoState ELSE Changed(repository)
      /\ UNCHANGED <<saves, fails>>
  BY SubscriptionSteps DEF ReactTo
<1>2. UnderWay = 0 /\ UnderWay' = 1
  BY <1>1 DEF UnderWay
<1>3. saves \in Nat /\ fails \in Nat
  BY DEF TypeOK
<1>4. Loaded \in State
  BY <1>1, LoadedType
<1>5. /\ reaction'.state.count = Loaded.count + 1
      /\ reaction'.state.version = Loaded.version
  BY <1>1, <1>4 DEF State
<1>6. CASE repository = NoState
  <2>1. Loaded.count = 0 /\ Loaded.version = -1
    BY <1>6 DEF Loaded, InitialState
  <2>2. saves = 0 /\ fails = 0 /\ repository' = NoState
    BY <1>1, <1>6 DEF ReactionTells
  <2> QED
    BY <1>1, <1>5, <2>1, <2>2 DEF StateTellsReactions, ReactionTells
<1>7. CASE repository # NoState
  <2>1. repository \in State /\ Loaded = repository
    BY <1>7 DEF TypeOK, Loaded
  <2>2. repository' = Changed(repository) /\ repository' \in State /\ repository' # NoState
    BY <1>1, <1>7, <2>1, ChangedState, NoStateIsNone
  <2>3. CASE reactor = "ProcessOf"
    <3>1. repository.count = saves /\ repository.version = fails - 1
      BY <1>2, <1>3, <1>7, <2>3 DEF StateTellsReactions
    <3>2. repository'.count = saves /\ repository'.version = fails + UnderWay' - 1
      BY <1>2, <1>3, <2>1, <2>2, <2>3, <3>1, ChangedState
    <3> QED
      BY <1>1, <1>5, <2>1, <2>2, <2>3, <3>1, <3>2 DEF StateTellsReactions, ReactionTells
  <2>4. CASE reactor # "ProcessOf"
    <3>1. repository.count = saves + fails /\ repository.version = -1
      BY <1>2, <1>3, <1>7, <2>4 DEF StateTellsReactions
    <3>2. repository'.count = saves + fails + UnderWay' /\ repository'.version = -1
      BY <1>2, <1>3, <2>1, <2>2, <2>4, <3>1, ChangedState
    <3> QED
      BY <1>1, <1>5, <2>1, <2>2, <2>4, <3>1, <3>2 DEF StateTellsReactions, ReactionTells
  <2> QED
    BY <2>3, <2>4
<1> QED
  BY <1>6, <1>7

\* A reaction that saves is counted, and one that fails leaves its mark.
LEMMA EndTells ==
  ASSUME TypeOK, StateTellsReactions, ReactionTells, Save \/ Fail, UNCHANGED reactor
  PROVE  StateTellsReactions' /\ ReactionTells'
<1>1. /\ phase = "reacting" /\ phase' = "storing"
      /\ saves \in Nat /\ fails \in Nat
  BY DEF Save, Fail, TypeOK
<1>2. UnderWay = 1 /\ UnderWay' = 0
  BY <1>1 DEF UnderWay
<1>3. CASE Save
  <2>1. /\ repository' = reaction.state /\ saves' = saves + 1 /\ fails' = fails
        /\ reaction.state \in State
    BY <1>3 DEF Save, TypeOK
  <2>2. repository' # NoState
    BY <2>1, NoStateIsNone
  <2> QED
    BY <1>1, <1>2, <2>1, <2>2 DEF StateTellsReactions, ReactionTells
<1>4. CASE Fail
  <2>1. /\ repository' = repository /\ saves' = saves
        /\ fails' = IF repository = NoState THEN fails ELSE fails + 1
    BY <1>4 DEF Fail
  <2> QED
    BY <1>1, <1>2, <2>1 DEF StateTellsReactions, ReactionTells
<1> QED
  BY <1>3, <1>4

\* Every step keeps what the state tells.
LEMMA TellsStep ==
  ASSUME TypeOK, StateTellsReactions, ReactionTells, [Next]_vars
  PROVE  StateTellsReactions' /\ ReactionTells'
<1>1. CASE UNCHANGED vars
  BY <1>1, TellsUnchanged DEF vars, history
<1> SUFFICES ASSUME Next PROVE StateTellsReactions' /\ ReactionTells'
  BY <1>1
<1>0. UNCHANGED reactor
  BY DEF Next
<1>2. CASE \E kind \in Kind : Originate(kind)
  BY <1>0, <1>2, TellsUnchanged DEF Originate, history
<1>3. CASE Answer
  <2>1. PICK command \in running : CommandSucceeds(command) \/ CommandFails(command)
    BY <1>3 DEF Answer
  <2>2. CASE CommandSucceeds(command)
    BY <1>0, <2>2, TellsUnchanged DEF CommandSucceeds, history
  <2>3. CASE CommandFails(command)
    <3>1. reaction'.state = reaction.state
      BY <2>3 DEF CommandFails, TypeOK
    <3> QED
      BY <1>0, <2>3, <3>1, TellsUnchanged DEF CommandFails, history
  <2> QED
    BY <2>1, <2>2, <2>3
<1>4. CASE ReactTo
  BY <1>0, <1>4, ReactToTells
<1>5. CASE PassOver \/ StoreCheckpoint \/ Drop
  BY <1>0, <1>5, TellsUnchanged DEF PassOver, StoreCheckpoint, Drop, history
<1>6. CASE Save \/ Fail
  BY <1>0, <1>6, EndTells
<1>7. CASE Crash
  BY <1>7 DEF Crash, StateTellsReactions, ReactionTells
<1> QED
  BY <1>2, <1>3, <1>4, <1>5, <1>6, <1>7 DEF Next, Proceed

-----------------------------------------------------------------------------
(* Commands are told once a round.                                          *)

\* Products of natural numbers, which the SMT solver needs spelt out.
LEMMA Product ==
  ASSUME NEW a \in Nat, NEW b \in Nat, NEW c \in Nat
  PROVE  /\ a * b \in Nat
         /\ b <= c => a * b <= a * c
         /\ a * (b + 1) = a * b + a
<1>1. a * b \in Nat /\ a * (b + 1) = a * b + a
  OBVIOUS
<1>2. ASSUME b <= c PROVE a * b <= a * c
  <2>1. c - b \in Nat /\ a * (c - b) \in Nat
    BY <1>2
  <2>2. a * c = a * b + a * (c - b)
    OBVIOUS
  <2> QED
    BY <2>1, <2>2
<1> QED
  BY <1>1, <1>2

\* What ToldInRounds counts can be counted.
LEMMA RoundNumbers ==
  ASSUME TypeOK, IsFiniteSet(running), NEW p \in 1..Len(log)
  PROVE  /\ IsFiniteSet(StoredFor(p)) /\ Cardinality(StoredFor(p)) \in Nat
         /\ IsFiniteSet(RunningFor(p)) /\ Cardinality(RunningFor(p)) \in Nat
         /\ Rounds(p) \in Nat /\ Rounds(p) <= 1 + failures /\ failures \in Nat
         /\ log[p].kind \in ReactsTo => Len(CommandsOf[log[p].kind]) \in Nat
<1>1. Len(log) \in Nat /\ position \in Int /\ failures \in Nat
  BY BoundAssumption DEF TypeOK
<1>2. IsFiniteSet(1..Len(log))
  BY <1>1, FS_Interval
<1>3. IsFiniteSet(StoredFor(p)) /\ Cardinality(StoredFor(p)) \in Nat
  BY <1>2, FS_Subset, FS_CardinalityType DEF StoredFor
<1>4. IsFiniteSet(RunningFor(p)) /\ Cardinality(RunningFor(p)) \in Nat
  BY FS_Subset, FS_CardinalityType DEF RunningFor
<1>5. Rounds(p) \in Nat /\ Rounds(p) <= 1 + failures
  BY <1>1 DEF Rounds
<1>6. log[p].kind \in ReactsTo => Len(CommandsOf[log[p].kind]) \in Nat
  BY Constants
<1> QED
  BY <1>1, <1>3, <1>4, <1>5, <1>6

\* A step that stores and tells nothing, after which no event has been handed
\* over less often.
LEMMA NothingTold ==
  ASSUME TypeOK, TypeOK', ToldInRounds, log' = log, running' \subseteq running,
         \/ failures' = failures /\ position' >= position
         \/ failures' = failures + 1
  PROVE  ToldInRounds'
<1>0. IsFiniteSet(running) /\ IsFiniteSet(running')
  BY FS_Subset DEF ToldInRounds
<1> SUFFICES ASSUME NEW p \in 1..Len(log), log[p].kind \in ReactsTo
             PROVE  Cardinality(StoredFor(p)') + Cardinality(RunningFor(p)')
                      <= Len(CommandsOf[log[p].kind]) * Rounds(p)'
  BY <1>0 DEF ToldInRounds
<1>1. StoredFor(p)' = StoredFor(p)
  BY DEF StoredFor
<1>2. RunningFor(p)' \subseteq RunningFor(p)
  BY DEF RunningFor
<1>3. /\ Cardinality(StoredFor(p)) \in Nat
      /\ IsFiniteSet(RunningFor(p)) /\ Cardinality(RunningFor(p)) \in Nat
      /\ Rounds(p) \in Nat /\ Len(CommandsOf[log[p].kind]) \in Nat
  BY <1>0, RoundNumbers
<1>4. Cardinality(RunningFor(p)') <= Cardinality(RunningFor(p))
      /\ Cardinality(RunningFor(p)') \in Nat
  BY <1>2, <1>3, FS_Subset, FS_CardinalityType
<1>5. Rounds(p)' \in Nat /\ Rounds(p) <= Rounds(p)'
  <2>1. position \in Nat /\ position' \in Nat /\ failures \in Nat
    BY BoundAssumption DEF TypeOK
  <2> QED
    BY <2>1 DEF Rounds
<1>6. Len(CommandsOf[log[p].kind]) * Rounds(p) <= Len(CommandsOf[log[p].kind]) * Rounds(p)'
  BY <1>3, <1>5, Product
<1>7. Len(CommandsOf[log[p].kind]) * Rounds(p) \in Nat
      /\ Len(CommandsOf[log[p].kind]) * Rounds(p)' \in Nat
  BY <1>3, <1>5, Product
<1>8. Cardinality(StoredFor(p)) + Cardinality(RunningFor(p))
        <= Len(CommandsOf[log[p].kind]) * Rounds(p)
  BY DEF ToldInRounds
<1> QED
  BY <1>1, <1>3, <1>4, <1>6, <1>7, <1>8

\* A reaction tells at most all commands of its event.
LEMMA ToldCommands ==
  ASSUME TypeOK, position < Len(log), Event.kind \in ReactsTo
  PROVE  LET commands == CommandsOf[Event.kind]
             told == {Envelope(commands[i], i) : i \in Told(commands)} IN
         /\ IsFiniteSet(told)
         /\ Cardinality(told) \in Nat
         /\ Cardinality(told) <= Len(commands)
         /\ \A command \in told : command.causation = position + 1
<1> DEFINE commands == CommandsOf[Event.kind]
           told == {Envelope(commands[i], i) : i \in Told(commands)}
           envelope == [i \in Told(commands) |-> Envelope(commands[i], i)]
<1>1. Len(commands) \in Nat
  BY Constants
<1>2. Told(commands) \in SUBSET (1..Len(commands))
  BY DEF Told
<1>3. /\ IsFiniteSet(Told(commands)) /\ Cardinality(Told(commands)) \in Nat
      /\ Cardinality(Told(commands)) <= Len(commands)
  <2> HIDE DEF commands
  <2>0. \A n \in Nat : IsFiniteSet(1..n) /\ Cardinality(1..n) = n
    BY FS_Interval
  <2>1. IsFiniteSet(1..Len(commands)) /\ Cardinality(1..Len(commands)) = Len(commands)
    BY <1>1, <2>0
  <2> QED
    BY <1>2, <2>1, FS_Subset, FS_CardinalityType
<1>4. envelope \in Surjection(Told(commands), told)
  BY DEF Surjection
<1>5. IsFiniteSet(told) /\ Cardinality(told) <= Cardinality(Told(commands))
  <2> HIDE DEF commands, told, envelope
  <2> QED
    BY <1>3, <1>4, FS_Surjection
<1>6. Cardinality(told) \in Nat
  <2> HIDE DEF told
  <2> QED
    BY <1>5, FS_CardinalityType
<1>7. \A command \in told : command.causation = position + 1
  BY DEF Envelope
<1>8. Cardinality(told) <= Len(commands)
  <2> HIDE DEF commands, told
  <2> QED
    BY <1>1, <1>3, <1>5, <1>6
<1> QED
  BY <1>5, <1>6, <1>7, <1>8

\* The event that is handed over has one round more, and the others stay.
LEMMA ReactToRounds ==
  ASSUME TypeOK, TypeOK', ToldInRounds, ReactTo
  PROVE  ToldInRounds'
<1> DEFINE commands == CommandsOf[Event.kind]
           told == {Envelope(commands[i], i) : i \in Told(commands)}
<1>1. /\ position < Len(log) /\ Event.kind \in ReactsTo
      /\ running' = running \cup told
      /\ position' = position + 1
      /\ log' = log /\ failures' = failures
  BY SubscriptionSteps DEF ReactTo
<1>2. /\ IsFiniteSet(told) /\ Cardinality(told) \in Nat
      /\ Cardinality(told) <= Len(commands)
      /\ \A command \in told : command.causation = position + 1
  BY <1>1, ToldCommands
<1> HIDE DEF commands, told
<1>3. IsFiniteSet(running) /\ IsFiniteSet(running')
  BY <1>1, <1>2, FS_Union DEF ToldInRounds
<1>4. position \in Nat /\ failures \in Nat
  BY BoundAssumption DEF TypeOK
<1> SUFFICES ASSUME NEW p \in 1..Len(log), log[p].kind \in ReactsTo
             PROVE  Cardinality(StoredFor(p)') + Cardinality(RunningFor(p)')
                      <= Len(CommandsOf[log[p].kind]) * Rounds(p)'
  BY <1>1, <1>3 DEF ToldInRounds
<1>5. StoredFor(p)' = StoredFor(p)
  BY <1>1 DEF StoredFor
<1>6. /\ Cardinality(StoredFor(p)) \in Nat
      /\ IsFiniteSet(RunningFor(p)) /\ Cardinality(RunningFor(p)) \in Nat
      /\ Rounds(p) \in Nat /\ Len(CommandsOf[log[p].kind]) \in Nat
  BY <1>3, RoundNumbers
<1>7. Cardinality(StoredFor(p)) + Cardinality(RunningFor(p))
        <= Len(CommandsOf[log[p].kind]) * Rounds(p)
  BY DEF ToldInRounds
<1>8. CASE p = position + 1
  <2>1. RunningFor(p)' = RunningFor(p) \cup told
    BY <1>1, <1>2, <1>8 DEF RunningFor
  <2>2. Cardinality(RunningFor(p)') <= Cardinality(RunningFor(p)) + Cardinality(told)
        /\ Cardinality(RunningFor(p)') \in Nat
    <3>1. /\ IsFiniteSet(RunningFor(p) \cup told)
          /\ Cardinality(RunningFor(p) \cup told) =
               Cardinality(RunningFor(p)) + Cardinality(told)
                 - Cardinality(RunningFor(p) \cap told)
      BY <1>2, <1>6, FS_Union
    <3>2. Cardinality(RunningFor(p) \cap told) \in Nat
      BY <1>2, <1>6, FS_Intersection, FS_CardinalityType
    <3>3. Cardinality(RunningFor(p) \cup told) \in Nat
      BY <3>1, FS_CardinalityType
    <3> QED
      BY <1>2, <1>6, <2>1, <3>1, <3>2, <3>3
  <2>3. Rounds(p)' = Rounds(p) + 1
    BY <1>1, <1>4, <1>8 DEF Rounds
  <2>4. log[p] = Event
    BY <1>8 DEF Event
  <2>5. Len(CommandsOf[log[p].kind]) * (Rounds(p) + 1)
          = Len(CommandsOf[log[p].kind]) * Rounds(p) + Len(CommandsOf[log[p].kind])
        /\ Len(CommandsOf[log[p].kind]) * Rounds(p) \in Nat
    BY <1>6, Product
  <2>6. Cardinality(told) <= Len(CommandsOf[log[p].kind])
    BY <1>2, <2>4 DEF commands
  <2>7. Len(CommandsOf[log[p].kind]) * Rounds(p)'
          = Len(CommandsOf[log[p].kind]) * Rounds(p) + Len(CommandsOf[log[p].kind])
    BY <2>3, <2>5
  <2> DEFINE before == Len(CommandsOf[log[p].kind]) * Rounds(p)
             after == Len(CommandsOf[log[p].kind]) * Rounds(p)'
             all == Len(CommandsOf[log[p].kind])
  <2>8. /\ before \in Nat /\ all \in Nat /\ after = before + all
        /\ Cardinality(StoredFor(p)) + Cardinality(RunningFor(p)) <= before
        /\ Cardinality(told) <= all
    BY <1>6, <1>7, <2>5, <2>6, <2>7
  <2> HIDE DEF before, after, all
  <2>9. Cardinality(StoredFor(p)) + Cardinality(RunningFor(p)') <= after
    BY <1>2, <1>6, <2>2, <2>8
  <2> QED
    BY <1>5, <2>9 DEF after
<1>9. CASE p # position + 1
  <2>1. RunningFor(p)' = RunningFor(p)
    BY <1>1, <1>2, <1>9 DEF RunningFor
  <2>2. Rounds(p)' = Rounds(p)
    BY <1>1, <1>4, <1>9 DEF Rounds
  <2> QED
    BY <1>5, <1>7, <2>1, <2>2
<1> QED
  BY <1>8, <1>9

\* A command becomes an event, or a user's event is stored: a new event has
\* caused nothing yet.
LEMMA StoreRounds ==
  ASSUME TypeOK, TypeOK', CommandsAreTrue, ChainsLeadBack', ToldInRounds,
         NEW message \in Message, log' = Append(log, message),
         UNCHANGED <<position, failures>>,
         \/ message.causation = NoMessage /\ running' = running
         \/ \E command \in running : /\ message.causation = command.causation
                                     /\ running' = running \ {command}
  PROVE  ToldInRounds'
<1>1. IsFiniteSet(running) /\ IsFiniteSet(running')
  BY FS_RemoveElement DEF ToldInRounds
<1>2. /\ Len(log) \in Nat /\ Len(log') = Len(log) + 1
      /\ \A i \in 1..Len(log) : i \in 1..Len(log') /\ log'[i] = log[i]
      /\ log'[Len(log) + 1] = message
      /\ \A i \in 1..Len(log') : i \in 1..Len(log) \/ i = Len(log) + 1
  BY LogGrows
<1> SUFFICES ASSUME NEW p \in 1..Len(log'), log'[p].kind \in ReactsTo
             PROVE  Cardinality(StoredFor(p)') + Cardinality(RunningFor(p)')
                      <= Len(CommandsOf[log'[p].kind]) * Rounds(p)'
  BY <1>1 DEF ToldInRounds
<1>3. Rounds(p)' = Rounds(p)
  BY DEF Rounds
<1>4. CASE p \in 1..Len(log)
  <2>1. /\ IsFiniteSet(StoredFor(p)) /\ Cardinality(StoredFor(p)) \in Nat
        /\ IsFiniteSet(RunningFor(p)) /\ Cardinality(RunningFor(p)) \in Nat
    BY <1>1, <1>4, RoundNumbers
  <2>2. log'[p] = log[p]
    BY <1>2, <1>4
  <2>3. Cardinality(StoredFor(p)) + Cardinality(RunningFor(p))
          <= Len(CommandsOf[log[p].kind]) * Rounds(p)
    BY <1>4, <2>2 DEF ToldInRounds
  <2>4. Len(log) + 1 \notin StoredFor(p)
    BY <1>2 DEF StoredFor
  <2>5. CASE message.causation # p
    <3>1. StoredFor(p)' = StoredFor(p)
      BY <1>2, <2>5 DEF StoredFor
    <3>2. RunningFor(p)' = RunningFor(p)
      BY <2>5 DEF RunningFor
    <3> QED
      BY <1>3, <2>2, <2>3, <3>1, <3>2
  <2>6. CASE message.causation = p
    <3>1. PICK command \in running : /\ message.causation = command.causation
                                     /\ running' = running \ {command}
      BY <1>4, <2>6 DEF NoMessage
    <3>2. StoredFor(p)' = StoredFor(p) \cup {Len(log) + 1}
      BY <1>2, <2>6 DEF StoredFor
    <3>3. RunningFor(p)' = RunningFor(p) \ {command} /\ command \in RunningFor(p)
      BY <2>6, <3>1 DEF RunningFor
    <3>4. Cardinality(StoredFor(p)') = Cardinality(StoredFor(p)) + 1
      BY <2>1, <2>4, <3>2, FS_AddElement
    <3>5. Cardinality(RunningFor(p)') = Cardinality(RunningFor(p)) - 1
      BY <2>1, <3>3, FS_RemoveElement
    <3>6. Cardinality(StoredFor(p)') + Cardinality(RunningFor(p)')
            = Cardinality(StoredFor(p)) + Cardinality(RunningFor(p))
      BY <2>1, <3>4, <3>5
    <3> QED
      BY <1>3, <2>2, <2>3, <3>6
  <2> QED
    BY <2>5, <2>6
<1>5. CASE p = Len(log) + 1
  <2>1. StoredFor(p)' = {}
    <3> SUFFICES ASSUME NEW q \in 1..Len(log'), log'[q].causation = p PROVE FALSE
      BY DEF StoredFor
    <3>1. p # NoMessage
      BY <1>2, <1>5 DEF NoMessage
    <3>2. p < q
      BY <3>1 DEF ChainsLeadBack
    <3> QED
      BY <1>2, <1>5, <3>2
  <2>2. RunningFor(p)' = {}
    <3>1. running' \subseteq running
      OBVIOUS
    <3> QED
      BY <1>2, <1>5, <3>1 DEF RunningFor, CommandsAreTrue
  <2>3. Rounds(p)' \in Nat /\ Len(CommandsOf[log'[p].kind]) \in Nat
    <3>1. position' \in Int /\ failures' \in Nat
      BY BoundAssumption DEF TypeOK
    <3> QED
      BY <3>1, Constants DEF Rounds
  <2>4. Len(CommandsOf[log'[p].kind]) * Rounds(p)' \in Nat
    BY <2>3, Product
  <2> QED
    BY <2>1, <2>2, <2>4, FS_EmptySet
<1> QED
  BY <1>2, <1>4, <1>5

\* Every step keeps the commands within their rounds.
LEMMA RoundStep ==
  ASSUME TypeOK, TypeOK', CommandsAreTrue, ChainsLeadBack', ToldInRounds, [Next]_vars
  PROVE  ToldInRounds'
<1>0. position \in Nat
  BY DEF TypeOK
<1>1. CASE UNCHANGED vars
  BY <1>0, <1>1, NothingTold DEF vars
<1>2. CASE \E kind \in Kind : Originate(kind)
  <2>1. PICK kind \in Kind : Originate(kind)
    BY <1>2
  <2> DEFINE message == [kind |-> kind, correlation |-> Len(log) + 1,
                         causation |-> NoMessage]
  <2>2. message \in Message /\ message.causation = NoMessage
    BY StoredMessages
  <2>3. log' = Append(log, message) /\ UNCHANGED <<position, failures, running>>
    BY <2>1 DEF Originate
  <2> HIDE DEF message
  <2> QED
    BY <2>2, <2>3, StoreRounds
<1>3. CASE \E command \in running : CommandSucceeds(command)
  <2>1. PICK command \in running : CommandSucceeds(command)
    BY <1>3
  <2> DEFINE message == [kind |-> command.kind, correlation |-> command.correlation,
                         causation |-> command.causation]
  <2>2. message \in Message /\ message.causation = command.causation
    BY StoredMessages
  <2>3. /\ log' = Append(log, message) /\ UNCHANGED <<position, failures>>
        /\ running' = running \ {command}
    BY <2>1 DEF CommandSucceeds
  <2> HIDE DEF message
  <2> QED
    BY <2>2, <2>3, StoreRounds
<1>4. CASE \E command \in running : CommandFails(command)
  BY <1>0, <1>4, NothingTold DEF CommandFails
<1>5. CASE ReactTo
  BY <1>5, ReactToRounds
<1>6. CASE PassOver \/ Save \/ Fail \/ StoreCheckpoint
  BY <1>0, <1>6, NothingTold DEF PassOver, Save, Fail, StoreCheckpoint, Subscription!HandOver
<1>7. CASE Drop \/ Crash
  BY <1>7, NothingTold DEF Drop, Crash
<1> QED
  BY <1>1, <1>2, <1>3, <1>4, <1>5, <1>6, <1>7 DEF Next, Answer, Proceed

-----------------------------------------------------------------------------
(* Theorems.                                                                *)

\* Initially nothing was handed over or told.
LEMMA InitInvariant == Init => IInv
<1> SUFFICES ASSUME Init PROVE IInv
  OBVIOUS
<1>1. TypeOK
  BY InitType
<1>2. Len(log) = 0 /\ running = {} /\ repository = NoState /\ phase = "ready"
      /\ saves = 0 /\ fails = 0
  BY DEF Init
<1> QED
  BY <1>1, <1>2, FS_EmptySet DEF IInv, CommandsAreTrue, ChainsLeadBack,
     StateTellsReactions, ReactionTells, ToldInRounds

\* The conjunction that every step preserves: types, the true causes of the
\* commands under way and of the stored events, what the saved state and the
\* state of a reaction tell, and the rounds in which commands are told.
THEOREM Invariant == Spec => []IInv
<1>1. IInv /\ [Next]_vars => IInv'
  BY TypeStep, ChainStep, TellsStep, RoundStep DEF IInv
<1> QED
  BY InitInvariant, <1>1, PTL DEF Spec

\* Every variable keeps its type, the subscription stays among the events that it
\* has handed over, and a reaction is there only while one is under way.
THEOREM TypeCorrect == Spec => []TypeOK
<1>1. IInv => TypeOK
  BY DEF IInv
<1> QED
  BY Invariant, <1>1, PTL

\* However commands of any number of reactions interleave, fail and survive a
\* drop, an event's correlation and causation lead back to a user's command.
THEOREM ChainsAreTrue == Spec => []ChainsLeadBack
<1>1. IInv => ChainsLeadBack
  BY DEF IInv
<1> QED
  BY Invariant, <1>1, PTL

\* The saved state of ProcessOf counts the reactions that saved and its version
\* those that failed; that of ProcessWithState counts both.
THEOREM StateIsTrue == Spec => []StateTellsReactions
<1>1. IInv => StateTellsReactions
  BY DEF IInv
<1> QED
  BY Invariant, <1>1, PTL

\* The commands told on an event are stored no more often than once, and once
\* more for every drop and crash.
THEOREM RepeatsAreBounded == Spec => []RepeatsAreReplays
<1>1. IInv => RepeatsAreReplays
  <2> SUFFICES ASSUME IInv, NEW p \in 1..Len(log), log[p].kind \in ReactsTo
               PROVE  Cardinality(StoredFor(p))
                        <= Len(CommandsOf[log[p].kind]) * (1 + failures)
    BY DEF RepeatsAreReplays, StoredFor
  <2>1. /\ Cardinality(StoredFor(p)) \in Nat /\ Cardinality(RunningFor(p)) \in Nat
        /\ Rounds(p) \in Nat /\ Rounds(p) <= 1 + failures /\ 1 + failures \in Nat
        /\ Len(CommandsOf[log[p].kind]) \in Nat
    BY RoundNumbers DEF IInv, ToldInRounds
  <2>2. /\ Len(CommandsOf[log[p].kind]) * Rounds(p) \in Nat
        /\ Len(CommandsOf[log[p].kind]) * (1 + failures) \in Nat
        /\ Len(CommandsOf[log[p].kind]) * Rounds(p)
             <= Len(CommandsOf[log[p].kind]) * (1 + failures)
    BY <2>1, Product
  <2>3. Cardinality(StoredFor(p)) + Cardinality(RunningFor(p))
          <= Len(CommandsOf[log[p].kind]) * Rounds(p)
    BY DEF IInv, ToldInRounds
  <2> QED
    BY <2>1, <2>2, <2>3
<1> QED
  BY Invariant, <1>1, PTL
=============================================================================
