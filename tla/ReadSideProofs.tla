--------------------------- MODULE ReadSideProofs ---------------------------
(***************************************************************************)
(* Proofs about CatchUpSubscription, and about ReadSide on top of it, for  *)
(* any events of any writers, customers, commands and number of failures:  *)
(* first what the subscription promises by itself; then that it keeps its  *)
(* promises below the listeners, and what the documents say; last that the *)
(* subscription, by itself and there, implements AtLeastOnce.              *)
(***************************************************************************)
EXTENDS ReadSide, CustomerProofs, FiniteSetTheorems

-----------------------------------------------------------------------------
(* The subscription.                                                        *)

LEMMA EntryTypes ==
  /\ \A e \in Entry : e \in EntryType
  /\ \A p \in Nat : CheckpointEntry(p) \in EntryType
  /\ MetadataEntry \in EntryType
BY DEF Entry, EntryType, DomainEntry, ForeignEntry, CheckpointEntry,
       MetadataEntry, SystemKind, AllStart

\* What an append leaves of the log.
LEMMA AppendedLog ==
  ASSUME NEW s \in Seq(EntryType), NEW e \in EntryType
  PROVE  /\ Append(s, e) \in Seq(EntryType)
         /\ Len(s) \in Nat
         /\ Len(Append(s, e)) = Len(s) + 1
         /\ \A i \in 1..Len(s) : Append(s, e)[i] = s[i]
         /\ Append(s, e)[Len(s) + 1] = e
OBVIOUS

\* Every step appends at most one entry, and forgets no dispatch.
LEMMA StepsAppend ==
  ASSUME IInv, [Next]_vars
  PROVE  /\ \/ log' = log
            \/ \E e \in EntryType : log' = Append(log, e)
         /\ dispatched \subseteq dispatched'
<1> USE EntryTypes
<1>1. CASE UNCHANGED vars
  BY <1>1 DEF vars
<1>2. CASE \E entry \in Entry : Record(entry)
  BY <1>2 DEF Record
<1>3. CASE EventAppears
  BY <1>3 DEF EventAppears
<1>4. CASE Proceed
  <2>1. position \in Nat /\ AllStart \in Nat
    BY DEF IInv, TypeOK, AllStart
  <2> QED
    BY <1>4, <2>1 DEF Proceed, Start, Resume, Initialise, StartStored, SetStreamMaxCount,
       SystemEventAppears, ForeignEventAppears, CheckpointStored
<1>5. CASE Fail
  <2>1. \A append \in late : append.checkpoint \in Nat
    BY DEF IInv, TypeOK, AbandonedAppend
  <2> QED
    BY <1>5, <2>1 DEF Fail, Drop, StartFails, CheckpointStoredLate
<1>6. CASE Stop
  BY <1>6 DEF Stop
<1> QED
  BY <1>1, <1>2, <1>3, <1>4, <1>5, <1>6 DEF Next

LEMMA LogGrows ==
  ASSUME IInv, [Next]_vars
  PROVE  /\ log' \in Seq(EntryType)
         /\ Len(log) \in Nat /\ Len(log') \in Nat /\ Len(log) <= Len(log')
         /\ \A i \in 1..Len(log) : log'[i] = log[i]
         /\ dispatched \subseteq dispatched'
<1>1. log \in Seq(EntryType) /\ Len(log) \in Nat
  BY DEF IInv, TypeOK
<1>2. CASE log' = log
  BY <1>1, <1>2, StepsAppend
<1>3. CASE \E e \in EntryType : log' = Append(log, e)
  BY <1>1, <1>3, AppendedLog, StepsAppend
<1> QED
  BY <1>2, <1>3, StepsAppend

\* An event keeps its position.
LEMMA PositionsStable ==
  ASSUME IInv, [Next]_vars, NEW kind
  PROVE  PositionsOf(kind) \subseteq PositionsOf(kind)'
BY LogGrows DEF PositionsOf

\* What was dispatched stays so: new entries come after all earlier positions.
LEMMA DispatchedStable ==
  ASSUME IInv, [Next]_vars, NEW p \in Nat, p <= Len(log), DispatchedUpTo(p)
  PROVE  DispatchedUpTo(p)'
<1> SUFFICES ASSUME NEW i \in 1..Len(log'), i <= p
             PROVE  log'[i].kind # "foreign" /\ (log'[i].kind = "domain" => i \in dispatched')
  BY DEF DispatchedUpTo
<1>1. i \in 1..Len(log) /\ log'[i] = log[i] /\ dispatched \subseteq dispatched'
  BY LogGrows
<1> QED
  BY <1>1 DEF DispatchedUpTo

\* The next entry, once it is dispatched or when there is nothing to dispatch.
LEMMA DispatchedNext ==
  ASSUME IInv, phase = "subscribed", Appears(SystemKind \cup {"domain"}),
         NEW p, p = position + 1, log[p].kind = "domain" => p \in dispatched',
         log' = log, dispatched \subseteq dispatched'
  PROVE  DispatchedUpTo(p)'
<1>1. DispatchedUpTo(position) /\ position \in Nat /\ Len(log) \in Nat
  BY DEF IInv, ResumesAreSafe, TypeOK
<1>2. log[p].kind # "foreign"
  BY DEF Appears, SystemKind
<1> SUFFICES ASSUME NEW i \in 1..Len(log), i <= p
             PROVE  log[i].kind # "foreign" /\ (log[i].kind = "domain" => i \in dispatched')
  BY DEF DispatchedUpTo
<1>3. CASE i = p
  BY <1>2, <1>3
<1>4. CASE i <= position
  BY <1>1, <1>4 DEF DispatchedUpTo
<1> QED
  BY <1>1, <1>3, <1>4

-----------------------------------------------------------------------------
(* The invariant is inductive. *)

LEMMA InitInvariant == Init => IInv
<1> SUFFICES ASSUME Init PROVE IInv
  OBVIOUS
<1>1. log = <<>> /\ Len(log) = 0
  BY DEF Init
<1>2. TypeOK
  BY <1>1, BoundAssumption DEF Init, TypeOK, Phase, AllStart
<1>3. ResumesAreSafe
  BY <1>1 DEF Init, ResumesAreSafe, PositionsOf
<1>4. DispatchedInOrder /\ NoFeedback
  BY <1>1 DEF Init, DispatchedInOrder, NoFeedback, PositionsOf
<1> QED
  BY <1>2, <1>3, <1>4 DEF IInv

\* What an abandoned append may be of.
LEMMA AbandonedType ==
  ASSUME IInv, Abandon, log' = log
  PROVE  /\ position' = AllStart /\ position' \in 0..Len(log')
         /\ late' \subseteq AbandonedAppend
         /\ failures' \in 0..MaxFailures
<1>1. position \in Nat /\ Len(log) \in Nat /\ failures \in Nat /\ failures' \in 0..MaxFailures
  BY BoundAssumption DEF IInv, TypeOK, Abandon
<1>2. \A p \in Nat : [checkpoint |-> p, failure |-> failures] \in AbandonedAppend
  BY <1>1 DEF AbandonedAppend
<1>3. late' \subseteq AbandonedAppend
  BY <1>1, <1>2 DEF Abandon, IInv, TypeOK, AllStart
<1> QED
  BY <1>1, <1>3 DEF Abandon, AllStart

\* The other variables keep their types when the step does as little as this.
LEMMA TypeOfOthers ==
  ASSUME IInv, [Next]_vars, phase' \in Phase,
         position' \in {position, AllStart} \/ position' \in 0..Len(log),
         dispatched' \subseteq dispatched \cup 1..Len(log),
         late' \subseteq AbandonedAppend, failures' \in 0..MaxFailures
  PROVE  TypeOK'
<1>1. /\ log' \in Seq(EntryType) /\ Len(log) \in Nat /\ Len(log') \in Nat
      /\ Len(log) <= Len(log')
  BY LogGrows
<1>2. position \in 0..Len(log) /\ dispatched \subseteq 1..Len(log)
  BY DEF IInv, TypeOK
<1>3. position' \in 0..Len(log') /\ dispatched' \subseteq 1..Len(log')
  BY <1>1, <1>2 DEF AllStart
<1> QED
  BY <1>1, <1>3 DEF TypeOK

LEMMA TypeStep ==
  ASSUME IInv, [Next]_vars
  PROVE  TypeOK'
<1>1. /\ phase \in Phase /\ position \in 0..Len(log) /\ Len(log) \in Nat
      /\ late \subseteq AbandonedAppend /\ failures \in 0..MaxFailures
  BY LogGrows DEF IInv, TypeOK
<1>2. CASE UNCHANGED vars
  BY <1>1, <1>2, TypeOfOthers DEF vars
<1>3. CASE \E entry \in Entry : Record(entry)
  BY <1>1, <1>3, TypeOfOthers DEF Record
<1>4. CASE EventAppears
  <2>1. /\ phase' = "storing" /\ position' = position + 1 /\ position < Len(log)
        /\ dispatched' = dispatched \cup {position + 1}
        /\ UNCHANGED <<late, failures>>
    BY <1>4 DEF EventAppears, Appears
  <2> QED
    BY <1>1, <2>1, TypeOfOthers DEF Phase
<1>5. CASE Proceed
  <2>1. CASE Resume
    <3>1. PICK i \in 1..Len(log) :
            IsLastCheckpoint(i) /\ position' = log[i].checkpoint
      BY <2>1 DEF Resume
    <3>2. log[i] \in EntryType /\ i > log[i].checkpoint
      BY <3>1 DEF IsLastCheckpoint, IInv, TypeOK, ResumesAreSafe
    <3>3. position' \in 0..Len(log)
      BY <1>1, <3>1, <3>2 DEF EntryType
    <3>4. phase' = "subscribed" /\ UNCHANGED <<dispatched, late, failures>>
      BY <2>1 DEF Resume
    <3> QED
      BY <1>1, <3>3, <3>4, TypeOfOthers DEF Phase
  <2>2. CASE Start \/ Initialise \/ StartStored \/ SetStreamMaxCount
    <3>1. /\ phase' \in Phase /\ position' \in {position, AllStart}
          /\ UNCHANGED <<dispatched, late, failures>>
      BY <2>2 DEF Start, Initialise, StartStored, SetStreamMaxCount, Phase, Starting
    <3> QED
      BY <1>1, <3>1, TypeOfOthers
  <2>3. CASE SystemEventAppears \/ ForeignEventAppears \/ CheckpointStored
    <3>1. /\ phase' \in Phase
          /\ position' \in {position, AllStart} \/ (position' = position + 1 /\ position < Len(log))
          /\ UNCHANGED <<dispatched, late, failures>>
      BY <1>1, <2>3 DEF SystemEventAppears, ForeignEventAppears, CheckpointStored,
         Appears, Phase, Starting
    <3> QED
      BY <1>1, <3>1, TypeOfOthers
  <2> QED
    BY <1>5, <2>1, <2>2, <2>3 DEF Proceed
<1>6. CASE Drop \/ StartFails \/ Stop
  <2>1. /\ Abandon /\ log' = log /\ phase' \in Phase /\ dispatched' = dispatched
    BY <1>6 DEF Drop, StartFails, Stop, Phase, Starting
  <2> QED
    BY <2>1, AbandonedType, TypeOfOthers
<1>7. CASE \E append \in late : CheckpointStoredLate(append)
  <2>1. /\ late' \subseteq late /\ UNCHANGED <<phase, position, dispatched, failures>>
    BY <1>7 DEF CheckpointStoredLate
  <2> QED
    BY <1>1, <2>1, TypeOfOthers
<1> QED
  BY <1>2, <1>3, <1>4, <1>5, <1>6, <1>7 DEF Next, Fail

\* The conjuncts of ResumesAreSafe, each for the steps that can disturb it.
LEMMA PositionStep ==
  ASSUME IInv, [Next]_vars
  PROVE  /\ phase' \in {"subscribed", "storing"} => DispatchedUpTo(position)'
         /\ phase' = "storing" => position' \in PositionsOf("domain")'
<1>1. ASSUME phase' \in {"subscribed", "storing"}, position' = position, phase \in {"subscribed", "storing"}
      PROVE  DispatchedUpTo(position)'
  <2>1. DispatchedUpTo(position) /\ position \in Nat /\ position <= Len(log)
    BY <1>1 DEF IInv, ResumesAreSafe, TypeOK
  <2>2. PICK p \in Nat : p = position
    BY <2>1
  <2>3. DispatchedUpTo(p)'
    BY <2>1, <2>2, DispatchedStable
  <2> QED
    BY <1>1, <2>2, <2>3
<1>2. ASSUME phase = "storing", position' = position
      PROVE  position' \in PositionsOf("domain")'
  BY <1>2, PositionsStable DEF IInv, ResumesAreSafe
<1>3. CASE UNCHANGED vars
  BY <1>1, <1>2, <1>3 DEF vars
<1>4. CASE \E entry \in Entry : Record(entry)
  BY <1>1, <1>2, <1>4 DEF Record
<1>5. CASE EventAppears \/ SystemEventAppears
  <2>1. /\ position \in Nat /\ position' = position + 1 /\ log' = log
        /\ phase = "subscribed" /\ position < Len(log) /\ Len(log) \in Nat
        /\ dispatched \subseteq dispatched'
        /\ log[position + 1].kind = "domain" => position + 1 \in dispatched'
        /\ Appears(SystemKind \cup {"domain"})
    BY <1>5 DEF IInv, TypeOK, EventAppears, SystemEventAppears, Appears, SystemKind
  <2>2. PICK p \in Nat : p = position + 1
    BY <2>1
  <2>3. DispatchedUpTo(p)'
    BY <2>1, <2>2, DispatchedNext
  <2>4. phase' = "storing" => position' \in PositionsOf("domain")'
    <3>1. ASSUME phase' = "storing"
          PROVE  log[position + 1].kind = "domain"
      BY <1>5, <2>1, <3>1 DEF EventAppears, SystemEventAppears, Appears
    <3> QED
      BY <2>1, <3>1 DEF PositionsOf
  <2> QED
    BY <2>1, <2>2, <2>3, <2>4
<1>6. CASE Resume
  <2>1. PICK i \in 1..Len(log) :
          IsLastCheckpoint(i) /\ position' = log[i].checkpoint
    BY <1>6 DEF Resume
  <2>2. /\ log[i].checkpoint \in Nat /\ log[i].checkpoint <= Len(log)
        /\ DispatchedUpTo(log[i].checkpoint)
    <3>1. log[i] \in EntryType /\ Len(log) \in Nat
      BY DEF IInv, TypeOK
    <3>2. i > log[i].checkpoint /\ DispatchedUpTo(log[i].checkpoint)
      BY <2>1 DEF IsLastCheckpoint, IInv, ResumesAreSafe
    <3> QED
      BY <3>1, <3>2 DEF EntryType
  <2>3. PICK p \in Nat : p = log[i].checkpoint
    BY <2>2
  <2>4. DispatchedUpTo(p)'
    BY <2>2, <2>3, DispatchedStable
  <2>5. phase' = "subscribed"
    BY <1>6 DEF Resume
  <2> QED
    BY <2>1, <2>3, <2>4, <2>5
<1>7. CASE SetStreamMaxCount
  <2>1. position' = AllStart /\ phase' = "subscribed"
    BY <1>7 DEF SetStreamMaxCount
  <2> QED
    BY <2>1, LogGrows DEF DispatchedUpTo, AllStart
<1>8. CASE Start \/ Initialise \/ StartStored \/ ForeignEventAppears
  BY <1>8 DEF Start, Initialise, StartStored, ForeignEventAppears
<1>9. CASE CheckpointStored
  <2>1. phase = "storing" /\ phase' = "subscribed" /\ position' = position
    BY <1>9 DEF CheckpointStored
  <2> QED
    BY <1>1, <2>1
<1>10. CASE Drop \/ StartFails \/ Stop
  BY <1>10 DEF Drop, StartFails, Stop
<1>11. CASE \E append \in late : CheckpointStoredLate(append)
  <2>1. phase' = phase /\ position' = position
    BY <1>11 DEF CheckpointStoredLate
  <2> QED
    BY <1>1, <1>2, <2>1
<1> QED
  BY <1>3, <1>4, <1>5, <1>6, <1>7, <1>8, <1>9, <1>10, <1>11 DEF Next, Proceed, Fail

\* The checkpoints that may be stored: the start, or an event that was
\* dispatched after all before it.
Earned(p) ==
  /\ p \in {AllStart} \cup PositionsOf("domain")
  /\ DispatchedUpTo(p)

LEMMA EarnedStable ==
  ASSUME IInv, [Next]_vars, NEW p, Earned(p)
  PROVE  p \in Nat /\ p <= Len(log) /\ Earned(p)'
<1>1. p \in Nat /\ p <= Len(log)
  BY LogGrows DEF Earned, AllStart, PositionsOf
<1>2. DispatchedUpTo(p)'
  BY <1>1, DispatchedStable DEF Earned
<1>3. p \in {AllStart} \cup PositionsOf("domain")'
  BY PositionsStable DEF Earned
<1> QED
  BY <1>1, <1>2, <1>3 DEF Earned

LEMMA StartIsEarned == ASSUME IInv PROVE Earned(AllStart)
BY DEF Earned, DispatchedUpTo, AllStart

LEMMA CheckpointsEarned ==
  ASSUME IInv
  PROVE  /\ \A i \in PositionsOf("$checkpoint") : Earned(log[i].checkpoint)
         /\ \A append \in late : Earned(append.checkpoint)
         /\ phase = "storing" => Earned(position)
BY DEF IInv, ResumesAreSafe, NoFeedback, Earned

\* The entry that a step appends, when it is a checkpoint.
LEMMA NewCheckpoint ==
  ASSUME IInv, [Next]_vars, NEW e \in EntryType, log' = Append(log, e),
         e.kind = "$checkpoint"
  PROVE  Earned(e.checkpoint)
<1> USE CheckpointsEarned, StartIsEarned
<1>0. log \in Seq(EntryType) /\ log' # log /\ log'[Len(log) + 1] = e
  BY AppendedLog DEF IInv, TypeOK
<1>1. ASSUME NEW f \in EntryType, log' = Append(log, f)
      PROVE  f = e
  BY <1>0, <1>1, AppendedLog
<1>2. CASE \E entry \in Entry : Record(entry)
  <2>1. PICK entry \in Entry : log' = Append(log, entry)
    BY <1>2 DEF Record
  <2>2. entry = e
    BY <1>1, <2>1, EntryTypes
  <2> QED
    BY <2>2 DEF Entry, DomainEntry, ForeignEntry
<1>3. CASE StartStored
  <2>1. CheckpointEntry(AllStart) = e
    BY <1>1, <1>3, EntryTypes DEF StartStored, AllStart
  <2> QED
    BY <2>1 DEF CheckpointEntry
<1>4. CASE SetStreamMaxCount
  <2>1. MetadataEntry = e
    BY <1>0, <1>1, <1>4, EntryTypes DEF SetStreamMaxCount
  <2> QED
    BY <2>1 DEF MetadataEntry
<1>5. CASE CheckpointStored
  <2>1. position \in Nat /\ Earned(position)
    BY <1>5 DEF CheckpointStored, IInv, TypeOK
  <2>2. CheckpointEntry(position) = e
    BY <1>1, <1>5, <2>1, EntryTypes DEF CheckpointStored
  <2> QED
    BY <2>1, <2>2 DEF CheckpointEntry
<1>6. CASE \E append \in late : CheckpointStoredLate(append)
  <2>1. PICK append \in late : CheckpointStoredLate(append)
    BY <1>6
  <2>2. append.checkpoint \in Nat /\ Earned(append.checkpoint)
    BY DEF IInv, TypeOK, AbandonedAppend
  <2>3. CheckpointEntry(append.checkpoint) = e
    BY <1>1, <2>1, <2>2, EntryTypes DEF CheckpointStoredLate
  <2> QED
    BY <2>2, <2>3 DEF CheckpointEntry
<1>7. CASE \/ UNCHANGED vars \/ EventAppears \/ Start \/ Resume \/ Initialise
           \/ SystemEventAppears \/ ForeignEventAppears \/ Drop \/ StartFails \/ Stop
  BY <1>0, <1>7 DEF vars, EventAppears, Start, Resume, Initialise, SystemEventAppears,
     ForeignEventAppears, Drop, StartFails, Stop
<1> QED
  BY <1>2, <1>3, <1>4, <1>5, <1>6, <1>7 DEF Next, Proceed, Fail

\* Every step appends at most one entry, whose checkpoint is earned.
LEMMA AllCheckpointsEarned ==
  ASSUME IInv, [Next]_vars
  PROVE  \A i \in PositionsOf("$checkpoint")' :
           /\ log'[i].checkpoint \in Nat /\ i > log'[i].checkpoint
           /\ Earned(log[i].checkpoint)'
<1> SUFFICES ASSUME NEW i \in PositionsOf("$checkpoint")'
             PROVE  /\ log'[i].checkpoint \in Nat /\ i > log'[i].checkpoint
                    /\ Earned(log[i].checkpoint)'
  OBVIOUS
<1>1. /\ log \in Seq(EntryType) /\ Len(log) \in Nat
      /\ i \in 1..Len(log') /\ log'[i].kind = "$checkpoint"
  BY LogGrows DEF IInv, TypeOK, PositionsOf
<1>2. ASSUME i \in 1..Len(log)
      PROVE  /\ log'[i].checkpoint \in Nat /\ i > log'[i].checkpoint
             /\ Earned(log[i].checkpoint)'
  <2>1. log'[i] = log[i] /\ i \in PositionsOf("$checkpoint")
    BY <1>1, <1>2, LogGrows DEF PositionsOf
  <2>2. i > log[i].checkpoint /\ Earned(log[i].checkpoint)
    BY <2>1, CheckpointsEarned DEF IInv, ResumesAreSafe
  <2>3. PICK p : p = log[i].checkpoint
    OBVIOUS
  <2>4. p \in Nat /\ Earned(p)'
    BY <2>2, <2>3, EarnedStable
  <2> QED
    BY <2>1, <2>2, <2>3, <2>4
<1>3. ASSUME i \notin 1..Len(log)
      PROVE  /\ log'[i].checkpoint \in Nat /\ i > log'[i].checkpoint
             /\ Earned(log[i].checkpoint)'
  <2>1. PICK e \in EntryType : log' = Append(log, e)
    BY <1>1, <1>3, StepsAppend
  <2>2. i = Len(log) + 1 /\ log'[i] = e
    BY <1>1, <1>3, <2>1, AppendedLog
  <2>3. Earned(e.checkpoint)
    BY <1>1, <2>1, <2>2, NewCheckpoint
  <2>4. PICK p : p = e.checkpoint
    OBVIOUS
  <2>5. p \in Nat /\ p <= Len(log) /\ Earned(p)'
    BY <2>3, <2>4, EarnedStable
  <2> QED
    BY <1>1, <2>2, <2>4, <2>5
<1> QED
  BY <1>2, <1>3

\* An append is abandoned only when its checkpoint is earned.
LEMMA AbandonedAreEarned ==
  ASSUME IInv, [Next]_vars
  PROVE  \A append \in late' : Earned(append.checkpoint)'
<1> SUFFICES ASSUME NEW append \in late'
             PROVE  Earned(append.checkpoint)'
  OBVIOUS
<1>1. CASE append \in late
  <2>1. PICK p : p = append.checkpoint
    OBVIOUS
  <2>2. Earned(p)'
    BY <1>1, <2>1, CheckpointsEarned, EarnedStable
  <2> QED
    BY <2>1, <2>2
<1>2. CASE append \notin late
  <2>1. Abandon
    BY <1>2 DEF Next, Proceed, Fail, vars, Record, Start, Resume, Initialise, StartStored,
       SetStreamMaxCount, EventAppears, SystemEventAppears, ForeignEventAppears,
       CheckpointStored, Drop, StartFails, Stop, CheckpointStoredLate
  <2>2. \/ phase = "storing" /\ append.checkpoint = position
        \/ append.checkpoint = AllStart
    BY <1>2, <2>1 DEF Abandon
  <2>3. PICK p : p = append.checkpoint
    OBVIOUS
  <2>4. Earned(p)
    BY <2>2, <2>3, CheckpointsEarned, StartIsEarned
  <2>5. Earned(p)'
    BY <2>4, EarnedStable
  <2> QED
    BY <2>3, <2>5
<1> QED
  BY <1>1, <1>2

LEMMA OrderStep ==
  ASSUME IInv, [Next]_vars
  PROVE  DispatchedInOrder'
<1> SUFFICES ASSUME NEW p \in dispatched'
             PROVE  DispatchedUpTo(p)'
  BY DEF DispatchedInOrder
<1>1. CASE p \in dispatched
  <2>1. p \in Nat /\ p <= Len(log) /\ DispatchedUpTo(p)
    BY <1>1, LogGrows DEF IInv, TypeOK, DispatchedInOrder
  <2> QED
    BY <2>1, DispatchedStable
<1>2. CASE p \notin dispatched
  <2>1. EventAppears
    BY <1>2 DEF Next, Proceed, Fail, vars, Record, Start, Resume, Initialise, StartStored,
       SetStreamMaxCount, SystemEventAppears, ForeignEventAppears,
       CheckpointStored, Drop, StartFails, Stop, CheckpointStoredLate
  <2>2. /\ p = position' /\ phase' = "storing"
    BY <1>2, <2>1 DEF EventAppears
  <2> QED
    BY <2>2, PositionStep
<1> QED
  BY <1>1, <1>2

LEMMA InvariantStep ==
  ASSUME IInv, [Next]_vars
  PROVE  IInv'
<1>1. ResumesAreSafe'
  BY PositionStep, AllCheckpointsEarned, AbandonedAreEarned DEF ResumesAreSafe, Earned
<1>2. NoFeedback'
  BY AllCheckpointsEarned DEF NoFeedback, Earned
<1> QED
  BY <1>1, <1>2, TypeStep, OrderStep DEF IInv

-----------------------------------------------------------------------------
(* The theorems. *)

\* The inductive invariant holds in every state of the subscription.
THEOREM Invariant == Spec => []IInv
<1>1. Init => IInv
  BY InitInvariant
<1>2. IInv /\ [Next]_vars => IInv'
  BY InvariantStep
<1> QED
  BY <1>1, <1>2, PTL DEF Spec

\* Type correctness.
THEOREM TypeCorrect == Spec => []TypeOK
<1>1. IInv => TypeOK
  BY DEF IInv
<1> QED
  BY <1>1, Invariant, PTL

\* At any time the subscription may start again from the last checkpoint and
\* miss no event (Start, On and StoreCheckpoint in their order).
THEOREM NoEventSkipped == Spec => []NothingSkipped
<1>1. IInv => NothingSkipped
  BY DEF IInv, ResumesAreSafe, NothingSkipped, IsLastCheckpoint
<1> QED
  BY <1>1, Invariant, PTL

\* Listeners are told of events in the order of $all (EventAppeared, On).
THEOREM InOrder == Spec => []DispatchedInOrder
<1>1. IInv => DispatchedInOrder
  BY DEF IInv
<1> QED
  BY <1>1, Invariant, PTL

\* The subscription stores no checkpoint for a checkpoint (EventAppeared).
THEOREM FeedsOnNothing == Spec => []NoFeedback
<1>1. IInv => NoFeedback
  BY DEF IInv
<1> QED
  BY <1>1, Invariant, PTL

-----------------------------------------------------------------------------
(* The invariant. *)

\* Events are recorded of customers, and a registration is the first event of
\* its customer, by the guard of the write side.
RegisteredFirst ==
  \A p \in PositionsOf("domain") :
    /\ log[p].event \in Event /\ log[p].event.customerId \in CustomerId
    /\ log[p].event.type = "CustomerRegistered" =>
         \A q \in PlacesOf(log[p].event.customerId) : p <= q

\* Only events of customers are dispatched.
DispatchedAreEvents == dispatched \subseteq PositionsOf("domain")

\* The dispatched events of a customer that have one of the types.
Told(id, types) ==
  {p \in dispatched : log[p].event.customerId = id /\ log[p].event.type \in types}

\* The registration of the customer was dispatched.
IsRegistered(id) == Told(id, {"CustomerRegistered"}) # {}

\* What is saved of a customer was said by events of that customer.
SourcedBy(id, document) ==
  /\ \E p \in Told(id, SetsAddress) : log[p].event.address = document.address
  /\ \E p \in Told(id, SetsPhoneNumber) : log[p].event.phoneNumber = document.phoneNumber

\* A task is one of a dispatched event, and saves only what was said.
TaskSourced(task) ==
  IF task.step = "saving"
  THEN SourcedBy(task.id, task.document) /\ IsRegistered(task.id)
  ELSE \E p \in dispatched : /\ log[p].event.type # "CustomerRegistered"
                             /\ task = Loading(log[p].event)

\* So is every task.
TasksAreSourced == \A i \in 1..Len(writes) : TaskSourced(writes[i])

\* So is every document, and its customer was registered.
DocumentsSourced ==
  \A id \in CustomerId : documents[id] # NoDocument =>
    SourcedBy(id, documents[id]) /\ IsRegistered(id)

\* A registration that was dispatched is saved or being saved.
RegistrationsKept ==
  ~lost => \A id \in CustomerId : IsRegistered(id) =>
    \/ documents[id] # NoDocument
    \/ \E i \in 1..Len(writes) : writes[i].step = "saving" /\ writes[i].id = id

\* A checkpoint at p or after it is stored.
Covered(p) == \E i \in PositionsOf("$checkpoint") : p <= log[i].checkpoint

\* The checkpoint of an event is stored before the next event is dispatched.
CheckpointsCover ==
  /\ \A d \in dispatched, p \in PositionsOf("domain") : p < d => Covered(p)
  /\ phase \in {"subscribed", "storing"} =>
       \A p \in PositionsOf("domain") :
         p <= position => Covered(p) \/ (phase = "storing" /\ p = position)
  /\ phase \in {"initialising", "limiting"} => dispatched = {}
  /\ phase \in {"limiting", "subscribed", "storing"} \/ dispatched # {} => HasCheckpoint

\* As long as checkpoints are in order, only the last event is replayed.
OnlyLastReplayed ==
  CheckpointsInOrder /\ phase \in {"subscribed", "storing"} =>
    \A d \in dispatched, p \in PositionsOf("domain") : p < d => p <= position

\* The greatest position of a set.
IsLastOf(S, p) == p \in S /\ \A q \in S : q <= p

\* The document is of the last dispatched events of its customer.
UpToDate(id, document) ==
  /\ \E p \in Told(id, SetsAddress) :
       IsLastOf(Told(id, SetsAddress), p) /\ log[p].event.address = document.address
  /\ \E p \in Told(id, SetsPhoneNumber) :
       /\ IsLastOf(Told(id, SetsPhoneNumber), p)
       /\ log[p].event.phoneNumber = document.phoneNumber

\* A registered customer has such a document, and no other has any.
Current(id) ==
  IF IsRegistered(id) THEN documents[id] # NoDocument /\ UpToDate(id, documents[id])
                      ELSE documents[id] = NoDocument

\* The tasks of the last dispatched event will make its document current.
WillBeCurrent(event) ==
  LET id == event.customerId IN
  IF event.type = "CustomerRegistered"
  THEN \A i \in 1..Len(writes) : writes[i] = Registration(event)
  ELSE /\ Len(writes) = 1
       /\ \/ /\ writes[1] = Loading(event)
             /\ IF IsRegistered(id)
                THEN documents[id] # NoDocument /\ UpToDate(id, Updated(documents[id], event))
                ELSE documents[id] = NoDocument
          \/ \E document \in Document :
               /\ writes[1] = Saving(id, document)
               /\ IsRegistered(id) /\ UpToDate(id, document)

\* As long as nothing overlaps, is lost or is taken back, only the tasks of the
\* last dispatched event are under way, and they end with a current document.
OneWriteAtATime ==
  CheckpointsInOrder /\ ~overlapped /\ ~lost =>
    IF writes = <<>> THEN \A id \in CustomerId : Current(id)
    ELSE \E p \in dispatched :
           /\ IsLastOf(dispatched, p)
           /\ \A id \in CustomerId \ {log[p].event.customerId} : Current(id)
           /\ WillBeCurrent(log[p].event)

\* What every step preserves.
ReadInv ==
  /\ IInv /\ ReadTypeOK /\ RegisteredFirst /\ DispatchedAreEvents
  /\ TasksAreSourced /\ DocumentsSourced /\ RegistrationsKept
  /\ CheckpointsCover /\ OnlyLastReplayed /\ OneWriteAtATime

-----------------------------------------------------------------------------
(* Histories.                                                               *)

\* How many elements of a finite set of numbers are not above one of them.
Rank(S, p) == Cardinality({q \in S : q <= p})

\* The rank of an element is one of the places.
LEMMA RankType ==
  ASSUME NEW S, IsFiniteSet(S), NEW p \in S, S \subseteq Nat
  PROVE  Rank(S, p) \in 1..Cardinality(S)
<1> DEFINE below == {q \in S : q <= p}
<1>1. below \in SUBSET S
  OBVIOUS
<1>2. IsFiniteSet(below) /\ Cardinality(below) <= Cardinality(S)
  BY <1>1, FS_Subset
<1>3. Cardinality(below) \in Nat /\ Cardinality(S) \in Nat
  BY <1>2, FS_CardinalityType
<1>4. p \in below
  OBVIOUS
<1>5. below # {}
  BY <1>4
<1> HIDE DEF below
<1>6. Cardinality(below) # 0
  BY <1>2, <1>5, FS_EmptySet
<1> QED
  BY <1>2, <1>3, <1>6 DEF Rank, below

\* A greater element is above more of them.
LEMMA RankGrows ==
  ASSUME NEW S, IsFiniteSet(S), NEW p \in S, NEW q \in S, S \subseteq Nat, p < q
  PROVE  Rank(S, p) < Rank(S, q)
<1> DEFINE low == {r \in S : r <= p}
           high == {r \in S : r <= q}
<1>0. high \in SUBSET S
  OBVIOUS
<1>1. low \in SUBSET high
  <2> SUFFICES ASSUME NEW r \in S, r <= p PROVE r <= q
    OBVIOUS
  <2>1. r \in Nat /\ p \in Nat /\ q \in Nat
    OBVIOUS
  <2> QED
    BY <2>1
<1>2. q \in high /\ q \notin low
  OBVIOUS
<1> HIDE DEF low, high
<1>3. IsFiniteSet(high)
  BY <1>0, FS_Subset
<1>4. /\ IsFiniteSet(low) /\ Cardinality(low) <= Cardinality(high)
      /\ Cardinality(low) # Cardinality(high)
  BY <1>1, <1>2, <1>3, FS_Subset
<1>5. Cardinality(low) \in Nat /\ Cardinality(high) \in Nat
  BY <1>3, <1>4, FS_CardinalityType
<1> QED
  BY <1>4, <1>5 DEF Rank, low, high

\* Nth enumerates a finite set of numbers in their order.
LEMMA NthEnumerates ==
  ASSUME NEW S, IsFiniteSet(S), S \subseteq Nat
  PROVE  /\ Cardinality(S) \in Nat
         /\ \A n \in 1..Cardinality(S) : Nth(S, n) \in S /\ Rank(S, Nth(S, n)) = n
         /\ \A p \in S : Nth(S, Rank(S, p)) = p
<1> DEFINE N == Cardinality(S)
           rank == [p \in S |-> Rank(S, p)]
<1>1. N \in Nat
  BY FS_CardinalityType
<1>2. rank \in [S -> 1..N]
  BY RankType
<1>3. \A p, q \in S : Rank(S, p) = Rank(S, q) => p = q
  <2> SUFFICES ASSUME NEW p \in S, NEW q \in S, Rank(S, p) = Rank(S, q), p # q
               PROVE  FALSE
    OBVIOUS
  <2> HIDE DEF N, rank
  <2>0. Rank(S, p) \in 1..Cardinality(S) /\ Rank(S, q) \in 1..Cardinality(S)
    BY RankType
  <2>1. p \in Nat /\ q \in Nat /\ Rank(S, p) \in Nat /\ Rank(S, q) \in Nat
    BY <2>0
  <2>2. p < q \/ q < p
    BY <2>1
  <2>3. Rank(S, p) < Rank(S, q) \/ Rank(S, q) < Rank(S, p)
    BY <2>2, RankGrows
  <2> QED
    BY <2>1, <2>3
<1>4. rank \in Injection(S, 1..N)
  BY <1>2, <1>3 DEF Injection, IsInjective
<1>5. IsFiniteSet(1..N) /\ Cardinality(1..N) = N
  <2>1. \A n \in Nat : IsFiniteSet(1..n) /\ Cardinality(1..n) = n
    BY FS_Interval
  <2> QED
    BY <1>1, <2>1
<1>6. rank \in Surjection(S, 1..N)
  <2> HIDE DEF rank
  <2> QED
    BY <1>4, <1>5, FS_Injection
<1>7. \A n \in 1..N : \E p \in S : Rank(S, p) = n
  BY <1>6 DEF Surjection
<1>8. \A n \in 1..N : Nth(S, n) \in S /\ Rank(S, Nth(S, n)) = n
  BY <1>7 DEF Nth, Rank
<1>9. \A p \in S : Nth(S, Rank(S, p)) = p
  BY <1>3, <1>8, RankType
<1> QED
  BY <1>1, <1>8, <1>9

\* A history is made of the events of its customer.
LEMMA HistoryFacts ==
  ASSUME TypeOK, RegisteredFirst, NEW id
  PROVE  /\ PlacesOf(id) \subseteq 1..Len(log) /\ PlacesOf(id) \subseteq Nat
         /\ IsFiniteSet(PlacesOf(id))
         /\ HistoryOf(id) \in Seq(Event)
         /\ Len(HistoryOf(id)) = Cardinality(PlacesOf(id))
         /\ \A n \in 1..Len(HistoryOf(id)) :
              /\ Nth(PlacesOf(id), n) \in PlacesOf(id)
              /\ HistoryOf(id)[n] = log[Nth(PlacesOf(id), n)].event
              /\ HistoryOf(id)[n].customerId = id
<1>1. Len(log) \in Nat
  BY DEF TypeOK
<1>2. PlacesOf(id) \in SUBSET (1..Len(log)) /\ PlacesOf(id) \subseteq Nat
  BY <1>1 DEF PlacesOf, PositionsOf
<1>3. IsFiniteSet(PlacesOf(id))
  <2>1. IsFiniteSet(1..Len(log))
    BY <1>1, FS_Interval
  <2> QED
    BY <1>2, <2>1, FS_Subset
<1> DEFINE N == Cardinality(PlacesOf(id))
<1>4. N \in Nat /\ \A n \in 1..N : Nth(PlacesOf(id), n) \in PlacesOf(id)
  BY <1>2, <1>3, NthEnumerates
<1>5. \A p \in PlacesOf(id) : log[p].event \in Event /\ log[p].event.customerId = id
  BY DEF RegisteredFirst, PlacesOf
<1>6. HistoryOf(id) = [n \in 1..N |-> log[Nth(PlacesOf(id), n)].event]
  BY DEF HistoryOf
<1> HIDE DEF N
<1>7. HistoryOf(id) \in Seq(Event) /\ Len(HistoryOf(id)) = N
  BY <1>4, <1>5, <1>6
<1> QED
  BY <1>2, <1>3, <1>4, <1>5, <1>6, <1>7 DEF N

\* What a command decides on is about its customer, and only the command that
\* registers a customer decides on a registration.
LEMMA DecidedEvents ==
  ASSUME NEW cmd \in Command, NEW past \in Seq(Event),
         \A n \in 1..Len(past) : past[n].customerId = cmd.customerId
  PROVE  /\ Decide(cmd, past) \in Seq(Event)
         /\ \A n \in 1..Len(Decide(cmd, past)) :
              /\ Decide(cmd, past)[n].customerId = cmd.customerId
              /\ Decide(cmd, past)[n].type = "CustomerRegistered" =>
                   cmd.type = "RegisterCustomer" /\ Len(Decide(cmd, past)) = 1
<1>1. cmd \in AnyCommand
  BY CommandAssumption
<1>2. /\ cmd.customerId \in CustomerId /\ cmd.address \in AnyAddress
      /\ cmd.phoneNumber \in AnyPhoneNumber
  BY <1>1, CommandFields
<1>3. CASE cmd.type = "RegisterCustomer"
  <2>1. Decide(cmd, past) = RegisterStory(cmd).events
    BY <1>3 DEF Decide
  <2>2. /\ RegisterStory(cmd).events \in Seq(Event) /\ Len(RegisterStory(cmd).events) = 1
        /\ RegisterStory(cmd).events[1].customerId = cmd.customerId
    BY <1>1, RegisterDecision
  <2> QED
    BY <1>3, <2>1, <2>2
<1>4. CASE cmd.type # "RegisterCustomer"
  <2> DEFINE customer == After(NewState(cmd.customerId), past)
             events == Relocate(customer, cmd.address, cmd.phoneNumber).events
  <2>1. Decide(cmd, past) = events
    BY <1>4 DEF Decide, RelocateStory
  <2>2. customer \in State
    BY <1>2, AfterType, NewStateType DEF StateId
  <2>3. customer.id = cmd.customerId
    BY AfterKeepsId DEF NewState
  <2> HIDE DEF customer
  <2>4. /\ events \in Seq(Event)
        /\ \A i \in 1..Len(events) : /\ events[i].customerId = customer.id
                                     /\ events[i].type # "CustomerRegistered"
    BY <1>2, <2>2, RelocateDecision
  <2> QED
    BY <2>1, <2>3, <2>4
<1> QED
  BY <1>3, <1>4

\* A command's events come after all others, and the rest stays.
LEMMA PublishGrows ==
  ASSUME TypeOK, RegisteredFirst, NEW cmd \in Command, Publish(cmd)
  PROVE  /\ log' \in Seq(EntryType) /\ Len(log) \in Nat /\ Len(log') \in Nat
         /\ Len(log) <= Len(log')
         /\ \A i \in 1..Len(log) : i \in 1..Len(log') /\ log'[i] = log[i]
         /\ \A i \in 1..Len(log') : i \notin 1..Len(log) =>
              /\ i > Len(log) /\ log'[i].kind = "domain"
              /\ log'[i].event \in Event /\ log'[i].event.customerId = cmd.customerId
              /\ log'[i].event.type = "CustomerRegistered" =>
                   PlacesOf(cmd.customerId) = {} /\ Len(log') = Len(log) + 1
         /\ UNCHANGED <<phase, position, dispatched, late, failures, projection>>
<1> DEFINE past == HistoryOf(cmd.customerId)
           events == Decide(cmd, past)
           entries == [i \in 1..Len(events) |-> DomainEntry(events[i])]
<1>1. /\ past \in Seq(Event) /\ IsFiniteSet(PlacesOf(cmd.customerId))
      /\ Len(past) = Cardinality(PlacesOf(cmd.customerId))
      /\ \A n \in 1..Len(past) : past[n].customerId = cmd.customerId
  BY HistoryFacts
<1>2. /\ log' = log \o entries
      /\ cmd.type = "RegisterCustomer" => past = <<>>
      /\ UNCHANGED <<phase, position, dispatched, late, failures, projection>>
  BY DEF Publish
<1> HIDE DEF past
<1>3. /\ events \in Seq(Event)
      /\ \A n \in 1..Len(events) :
           /\ events[n].customerId = cmd.customerId
           /\ events[n].type = "CustomerRegistered" =>
                cmd.type = "RegisterCustomer" /\ Len(events) = 1
  BY <1>1, DecidedEvents
<1> HIDE DEF events
<1>4. \A e \in Event : /\ DomainEntry(e) \in EntryType /\ DomainEntry(e).kind = "domain"
                       /\ DomainEntry(e).event = e
  BY SchemaAssumption DEF DomainEntry, EntryType, AllStart
<1>5. /\ entries \in Seq(EntryType) /\ Len(entries) = Len(events) /\ Len(events) \in Nat
      /\ \A n \in 1..Len(events) : entries[n] = DomainEntry(events[n])
  BY <1>3, <1>4
<1> HIDE DEF entries
<1>6. log \in Seq(EntryType)
  BY DEF TypeOK
<1>7. /\ log' \in Seq(EntryType) /\ Len(log') = Len(log) + Len(events) /\ Len(log) \in Nat
      /\ \A i \in 1..Len(log') :
           log'[i] = IF i <= Len(log) THEN log[i] ELSE entries[i - Len(log)]
  BY <1>2, <1>5, <1>6, ConcatProperties
<1>8. ASSUME NEW i \in 1..Len(log'), i \notin 1..Len(log)
      PROVE  /\ i > Len(log) /\ log'[i].kind = "domain"
             /\ log'[i].event \in Event /\ log'[i].event.customerId = cmd.customerId
             /\ log'[i].event.type = "CustomerRegistered" =>
                  PlacesOf(cmd.customerId) = {} /\ Len(log') = Len(log) + 1
  <2>1. i > Len(log) /\ i - Len(log) \in 1..Len(events) /\ log'[i] = entries[i - Len(log)]
    BY <1>5, <1>7, <1>8
  <2>2. PICK n \in 1..Len(events) : n = i - Len(log)
    BY <2>1
  <2>3. /\ log'[i].kind = "domain" /\ log'[i].event = events[n] /\ events[n] \in Event
    BY <1>3, <1>4, <1>5, <2>1, <2>2
  <2>4. past = <<>> => PlacesOf(cmd.customerId) = {}
    BY <1>1, FS_EmptySet
  <2> QED
    BY <1>2, <1>3, <1>7, <2>1, <2>3, <2>4
<1>9. \A i \in 1..Len(log) : i \in 1..Len(log') /\ log'[i] = log[i]
  BY <1>5, <1>7
<1> QED
  BY <1>2, <1>5, <1>7, <1>8, <1>9

\* So the subscription keeps its invariant.
LEMMA PublishKeeps ==
  ASSUME IInv, RegisteredFirst, NEW cmd \in Command, Publish(cmd)
  PROVE  IInv'
<1> USE DEF IInv
<1>1. /\ log' \in Seq(EntryType) /\ Len(log) \in Nat /\ Len(log') \in Nat
      /\ Len(log) <= Len(log')
      /\ \A i \in 1..Len(log) : i \in 1..Len(log') /\ log'[i] = log[i]
      /\ \A i \in 1..Len(log') : i \notin 1..Len(log) => log'[i].kind = "domain"
      /\ UNCHANGED <<phase, position, dispatched, late, failures>>
  BY PublishGrows
<1>2. TypeOK'
  BY <1>1 DEF TypeOK
<1>3. \A p \in Nat : p <= Len(log) /\ DispatchedUpTo(p) => DispatchedUpTo(p)'
  BY <1>1 DEF DispatchedUpTo
<1>4. /\ PositionsOf("$checkpoint")' = PositionsOf("$checkpoint")
      /\ PositionsOf("domain") \subseteq PositionsOf("domain")'
  BY <1>1 DEF PositionsOf
<1>5. /\ position \in Nat /\ position <= Len(log) /\ AllStart \in Nat
      /\ \A p \in dispatched : p \in Nat /\ p <= Len(log)
      /\ \A i \in PositionsOf("$checkpoint") :
           i \in 1..Len(log) /\ log[i].checkpoint \in Nat
      /\ \A append \in late : append.checkpoint \in Nat
  <2>1. position \in 0..Len(log) /\ dispatched \subseteq 1..Len(log)
    BY DEF TypeOK
  <2>2. \A i \in 1..Len(log) : log[i] \in EntryType
    BY DEF TypeOK
  <2>3. \A i \in 1..Len(log) : log[i].checkpoint \in Nat
    BY <2>2 DEF EntryType
  <2>4. \A append \in late : append.checkpoint \in Nat
    BY DEF TypeOK, AbandonedAppend
  <2> QED
    BY <1>1, <2>1, <2>3, <2>4 DEF AllStart, PositionsOf
<1>6. ASSUME NEW p, p \in {AllStart} \cup PositionsOf("domain"), DispatchedUpTo(p)
      PROVE  p \in {AllStart} \cup PositionsOf("domain")' /\ DispatchedUpTo(p)'
  BY <1>1, <1>3, <1>4, <1>6 DEF PositionsOf, AllStart
<1>7. phase' \in {"subscribed", "storing"} => DispatchedUpTo(position)'
  <2>1. PICK p \in Nat : p = position
    BY <1>5
  <2> QED
    BY <1>1, <1>3, <1>5, <2>1 DEF ResumesAreSafe
<1>8. ASSUME NEW i \in PositionsOf("$checkpoint")'
      PROVE  /\ i > log'[i].checkpoint /\ DispatchedUpTo(log[i].checkpoint)'
             /\ log'[i].checkpoint \in {AllStart} \cup PositionsOf("domain")'
  <2>1. i \in PositionsOf("$checkpoint") /\ log'[i] = log[i]
    BY <1>1, <1>4, <1>5
  <2>2. PICK p : p = log[i].checkpoint
    OBVIOUS
  <2>3. p \in {AllStart} \cup PositionsOf("domain") /\ DispatchedUpTo(p) /\ i > p
    BY <2>1, <2>2 DEF NoFeedback, ResumesAreSafe
  <2> QED
    BY <1>6, <2>1, <2>2, <2>3
<1>9. ASSUME NEW append \in late'
      PROVE  /\ append.checkpoint \in {AllStart} \cup PositionsOf("domain")'
             /\ DispatchedUpTo(append.checkpoint)'
  <2>1. PICK p : p = append.checkpoint
    OBVIOUS
  <2>2. p \in {AllStart} \cup PositionsOf("domain") /\ DispatchedUpTo(p)
    BY <1>1, <2>1 DEF ResumesAreSafe
  <2> QED
    BY <1>6, <2>1, <2>2
<1>10. phase' = "storing" => position' \in PositionsOf("domain")'
  BY <1>1, <1>4 DEF ResumesAreSafe
<1>11. ResumesAreSafe'
  BY <1>7, <1>8, <1>9, <1>10 DEF ResumesAreSafe
<1>12. DispatchedInOrder'
  BY <1>1, <1>3, <1>5 DEF DispatchedInOrder
<1>13. NoFeedback'
  BY <1>8 DEF NoFeedback
<1> QED
  BY <1>2, <1>11, <1>12, <1>13

-----------------------------------------------------------------------------
(* Steps of the subscription.                                               *)

\* The log keeps its entries, and no dispatch is forgotten.
LogKept ==
  /\ log' \in Seq(EntryType) /\ Len(log) \in Nat /\ Len(log') \in Nat
  /\ Len(log) <= Len(log')
  /\ \A i \in 1..Len(log) : i \in 1..Len(log') /\ log'[i] = log[i]
  /\ dispatched \subseteq dispatched'
  /\ dispatched \subseteq 1..Len(log)

\* What the subscription stores are no events of customers.
LEMMA SubscriptionStores ==
  ASSUME IInv, EventAppears \/ Proceed \/ Fail \/ Stop
  PROVE  /\ IInv' /\ LogKept
         /\ PositionsOf("domain")' = PositionsOf("domain")
<1>1. [Next]_vars
  BY DEF Next
<1>2. IInv' /\ LogKept
  BY <1>1, InvariantStep, LogGrows DEF LogKept, IInv, TypeOK
<1>3. \/ log' = log
      \/ \E e \in EntryType : log' = Append(log, e) /\ e.kind # "domain"
  <2>1. CASE EventAppears \/ Stop
    BY <2>1 DEF EventAppears, Stop
  <2>2. CASE Proceed
    <3>1. \A p \in Nat : CheckpointEntry(p).kind # "domain" /\ CheckpointEntry(p) \in EntryType
      BY EntryTypes DEF CheckpointEntry
    <3>2. MetadataEntry.kind # "domain" /\ MetadataEntry \in EntryType
      BY EntryTypes DEF MetadataEntry
    <3>3. position \in Nat /\ AllStart \in Nat
      BY DEF IInv, TypeOK, AllStart
    <3> QED
      BY <2>2, <3>1, <3>2, <3>3 DEF Proceed, Start, Resume, Initialise, StartStored,
         SetStreamMaxCount, SystemEventAppears, ForeignEventAppears, CheckpointStored
  <2>3. CASE Fail
    <3>1. \A p \in Nat : CheckpointEntry(p).kind # "domain" /\ CheckpointEntry(p) \in EntryType
      BY EntryTypes DEF CheckpointEntry
    <3>2. \A append \in late : append.checkpoint \in Nat
      BY DEF IInv, TypeOK, AbandonedAppend
    <3> QED
      BY <2>3, <3>1, <3>2 DEF Fail, Drop, StartFails, CheckpointStoredLate
  <2> QED
    BY <2>1, <2>2, <2>3
<1>4. CASE log' = log
  BY <1>2, <1>4 DEF PositionsOf
<1>5. CASE \E e \in EntryType : log' = Append(log, e) /\ e.kind # "domain"
  <2>1. PICK e \in EntryType : log' = Append(log, e) /\ e.kind # "domain"
    BY <1>5
  <2>2. log \in Seq(EntryType)
    BY DEF IInv, TypeOK
  <2>3. /\ Len(log) \in Nat /\ Len(log') = Len(log) + 1 /\ log'[Len(log) + 1] = e
        /\ \A i \in 1..Len(log) : log'[i] = log[i]
    BY <2>1, <2>2, AppendedLog
  <2>4. \A i \in 1..Len(log') : i \in 1..Len(log) \/ i = Len(log) + 1
    BY <2>3
  <2>5. \A i \in 1..Len(log') : log'[i].kind = "domain" =>
          i \in 1..Len(log) /\ log[i].kind = "domain"
    BY <2>1, <2>3, <2>4
  <2>6. \A i \in 1..Len(log) : i \in 1..Len(log')
    BY <2>3
  <2>7. PositionsOf("domain")' = PositionsOf("domain")
    BY <2>3, <2>5, <2>6 DEF PositionsOf
  <2> QED
    BY <1>2, <2>7
<1> QED
  BY <1>2, <1>3, <1>4, <1>5

\* The steps of the read side, by what they do to the subscription.
LEMMA ReadSteps ==
  ASSUME ReadTypeOK, [ReadNext]_readVars
  PROVE  \/ \E cmd \in Command : Publish(cmd)
         \/ EventAppears /\ Dispatch(log[position + 1].event)
         \/ (Proceed \/ Fail) /\ UNCHANGED projection
         \/ StopAndLoseWrites
         \/ \E i \in 1..Len(writes) : SaveChanges(i) \/ LoadAndUpdate(i)
         \/ \E i \in 1..Len(writes) : WriteFails(i)
         \/ UNCHANGED readVars
BY DEF ReadNext, EventAppearsAndIsDispatched, Write

\* Every step of the read side is a step of the subscription, a publication
\* or none, and keeps what the subscription relies on.
LEMMA SubscriptionStep ==
  ASSUME IInv, RegisteredFirst, ReadTypeOK, [ReadNext]_readVars
  PROVE  IInv' /\ LogKept
<1>0. log \in Seq(EntryType) /\ dispatched \subseteq 1..Len(log)
  BY DEF IInv, TypeOK
<1>1. CASE \E cmd \in Command : Publish(cmd)
  <2>1. PICK cmd \in Command : Publish(cmd)
    BY <1>1
  <2>2. IInv'
    BY <2>1, PublishKeeps
  <2> QED
    BY <1>0, <2>1, <2>2, PublishGrows DEF LogKept, IInv
<1>2. CASE EventAppears \/ Proceed \/ Fail \/ Stop
  BY <1>2, SubscriptionStores
<1>3. CASE UNCHANGED vars
  <2>1. IInv'
    BY <1>3, InvariantStep
  <2> QED
    BY <1>0, <1>3, <2>1 DEF LogKept, vars
<1>4. CASE \E i \in 1..Len(writes) : WriteFails(i)
  <2>1. /\ UNCHANGED <<log, phase, position, dispatched, late>>
        /\ failures < MaxFailures /\ failures' = failures + 1
    BY <1>4 DEF WriteFails
  <2>2. failures' \in 0..MaxFailures
    BY <2>1, BoundAssumption DEF IInv, TypeOK
  <2>3. TypeOK'
    BY <2>1, <2>2 DEF IInv, TypeOK
  <2>4. ResumesAreSafe' /\ DispatchedInOrder' /\ NoFeedback'
    BY <2>1 DEF IInv, ResumesAreSafe, DispatchedInOrder, NoFeedback, DispatchedUpTo,
       PositionsOf
  <2> QED
    BY <1>0, <2>1, <2>3, <2>4 DEF IInv, LogKept
<1> QED
  BY <1>1, <1>2, <1>3, <1>4, ReadSteps
     DEF StopAndLoseWrites, SaveChanges, LoadAndUpdate, readVars

\* A registration stays the first event of its customer.
LEMMA RegisteredStep ==
  ASSUME IInv, RegisteredFirst, ReadTypeOK, [ReadNext]_readVars
  PROVE  RegisteredFirst'
<1>1. ASSUME LogKept, PositionsOf("domain")' = PositionsOf("domain")
      PROVE  RegisteredFirst'
  BY <1>1 DEF LogKept, RegisteredFirst, PlacesOf, PositionsOf
<1>2. CASE EventAppears \/ Proceed \/ Fail \/ Stop
  BY <1>1, <1>2, SubscriptionStores
<1>3. CASE log' = log
  BY <1>3 DEF RegisteredFirst, PlacesOf, PositionsOf
<1>4. CASE \E cmd \in Command : Publish(cmd)
  <2>1. PICK cmd \in Command : Publish(cmd)
    BY <1>4
  <2>2. /\ Len(log) \in Nat /\ Len(log') \in Nat /\ Len(log) <= Len(log')
        /\ \A i \in 1..Len(log) : i \in 1..Len(log') /\ log'[i] = log[i]
        /\ \A i \in 1..Len(log') : i \notin 1..Len(log) =>
             /\ i > Len(log) /\ log'[i].kind = "domain"
             /\ log'[i].event \in Event /\ log'[i].event.customerId = cmd.customerId
             /\ log'[i].event.type = "CustomerRegistered" =>
                  PlacesOf(cmd.customerId) = {} /\ Len(log') = Len(log) + 1
    BY <2>1, PublishGrows DEF IInv
  <2>3. cmd.customerId \in CustomerId
    BY CommandAssumption, CommandFields
  <2> SUFFICES ASSUME NEW p \in PositionsOf("domain")'
               PROVE  /\ log'[p].event \in Event /\ log'[p].event.customerId \in CustomerId
                      /\ log'[p].event.type = "CustomerRegistered" =>
                           \A q \in PositionsOf("domain")' :
                             log'[q].event.customerId = log'[p].event.customerId => p <= q
    BY DEF RegisteredFirst, PlacesOf
  <2>4. p \in 1..Len(log') /\ log'[p].kind = "domain"
    BY DEF PositionsOf
  <2>5. CASE p \in 1..Len(log)
    <3>1. p \in PositionsOf("domain") /\ log'[p] = log[p]
      BY <2>2, <2>4, <2>5 DEF PositionsOf
    <3>2. ASSUME NEW q \in PositionsOf("domain")', log[p].event.type = "CustomerRegistered",
                 log'[q].event.customerId = log[p].event.customerId
          PROVE  p <= q
      <4>1. CASE q \in 1..Len(log)
        <5>1. q \in PlacesOf(log[p].event.customerId)
          BY <2>2, <3>2, <4>1 DEF PlacesOf, PositionsOf
        <5> QED
          BY <3>1, <3>2, <5>1 DEF RegisteredFirst
      <4>2. CASE q \notin 1..Len(log)
        BY <2>2, <2>5, <3>2, <4>2 DEF PositionsOf
      <4> QED
        BY <4>1, <4>2
    <3> QED
      BY <3>1, <3>2 DEF RegisteredFirst
  <2>6. CASE p \notin 1..Len(log)
    <3>1. /\ p > Len(log) /\ log'[p].event \in Event
          /\ log'[p].event.customerId = cmd.customerId
          /\ log'[p].event.type = "CustomerRegistered" =>
               PlacesOf(cmd.customerId) = {} /\ Len(log') = Len(log) + 1
      BY <2>2, <2>4, <2>6
    <3>2. ASSUME NEW q \in PositionsOf("domain")', log'[p].event.type = "CustomerRegistered",
                 log'[q].event.customerId = cmd.customerId
          PROVE  p <= q
      <4>1. PlacesOf(cmd.customerId) = {} /\ Len(log') = Len(log) + 1
        BY <3>1, <3>2
      <4>2. q \in 1..Len(log') /\ q \notin 1..Len(log)
        BY <2>2, <3>2, <4>1 DEF PlacesOf, PositionsOf
      <4> QED
        BY <2>2, <2>4, <3>1, <4>1, <4>2
    <3> QED
      BY <2>3, <3>1, <3>2
  <2> QED
    BY <2>5, <2>6
<1> QED
  BY <1>2, <1>3, <1>4, ReadSteps
     DEF StopAndLoseWrites, SaveChanges, LoadAndUpdate, WriteFails, readVars, vars

-----------------------------------------------------------------------------
(* Tasks.                                                                   *)

\* What RemoveAt leaves: every element but one, in its order.
LEMMA Removed ==
  ASSUME NEW T, NEW s \in Seq(T), NEW i \in 1..Len(s)
  PROVE  /\ RemoveAt(s, i) \in Seq(T)
         /\ Len(RemoveAt(s, i)) = Len(s) - 1
         /\ \A j \in 1..(Len(s) - 1) :
              (RemoveAt(s, i)[j] = s[j] /\ j < i) \/ (RemoveAt(s, i)[j] = s[j + 1] /\ j >= i)
         /\ \A j \in 1..Len(RemoveAt(s, i)) :
              \E k \in 1..Len(s) : RemoveAt(s, i)[j] = s[k]
         /\ \A k \in 1..Len(s) : k # i =>
              \E j \in 1..Len(RemoveAt(s, i)) : RemoveAt(s, i)[j] = s[k]
<1> DEFINE before == SubSeq(s, 1, i - 1)
           after == SubSeq(s, i + 1, Len(s))
<1>0. Len(s) \in Nat /\ i \in Nat /\ i <= Len(s) /\ 1 <= i
  OBVIOUS
<1>1. /\ before \in Seq(T) /\ Len(before) = i - 1
      /\ \A j \in 1..(i - 1) : before[j] = s[j]
  BY <1>0
<1>2. /\ after \in Seq(T) /\ Len(after) = Len(s) - i
      /\ \A j \in 1..(Len(s) - i) : after[j] = s[i + j]
  BY <1>0
<1>3. RemoveAt(s, i) = before \o after
  BY DEF RemoveAt
<1> HIDE DEF before, after
<1>4. /\ RemoveAt(s, i) \in Seq(T)
      /\ Len(RemoveAt(s, i)) = Len(s) - 1
      /\ \A j \in 1..(Len(s) - 1) :
           RemoveAt(s, i)[j] = IF j <= i - 1 THEN before[j] ELSE after[j - (i - 1)]
  <2>1. /\ before \o after \in Seq(T)
        /\ Len(before \o after) = Len(before) + Len(after)
        /\ \A j \in 1..(Len(before) + Len(after)) :
             (before \o after)[j] = IF j <= Len(before) THEN before[j] ELSE after[j - Len(before)]
    BY <1>1, <1>2, ConcatProperties
  <2>2. Len(before) + Len(after) = Len(s) - 1
    BY <1>0, <1>1, <1>2
  <2> QED
    BY <1>1, <1>3, <2>1, <2>2
<1>5. ASSUME NEW j \in 1..(Len(s) - 1)
      PROVE  (RemoveAt(s, i)[j] = s[j] /\ j < i) \/ (RemoveAt(s, i)[j] = s[j + 1] /\ j >= i)
  <2>1. CASE j <= i - 1
    <3>1. j \in 1..(i - 1) /\ j < i
      BY <1>0, <2>1
    <3>2. RemoveAt(s, i)[j] = before[j]
      BY <1>4, <2>1
    <3>3. before[j] = s[j]
      BY <1>1, <3>1
    <3> QED
      BY <3>1, <3>2, <3>3
  <2>2. CASE j > i - 1
    <3>1. j - (i - 1) \in 1..(Len(s) - i) /\ i + (j - (i - 1)) = j + 1
      BY <1>0, <2>2
    <3> QED
      BY <1>0, <1>2, <1>4, <2>2, <3>1
  <2> QED
    BY <1>0, <2>1, <2>2
<1>6. ASSUME NEW k \in 1..Len(s), k # i
      PROVE  \E j \in 1..(Len(s) - 1) : RemoveAt(s, i)[j] = s[k]
  <2>1. CASE k < i
    <3>1. k \in 1..(Len(s) - 1)
      BY <1>0, <2>1
    <3> QED
      BY <1>0, <1>5, <2>1, <3>1
  <2>2. CASE k > i
    <3>1. k - 1 \in 1..(Len(s) - 1) /\ k - 1 >= i /\ (k - 1) + 1 = k
      BY <1>0, <2>2
    <3> QED
      BY <1>0, <1>5, <3>1
  <2> QED
    BY <1>0, <1>6, <2>1, <2>2
<1>7. \A j \in 1..(Len(s) - 1) : j \in 1..Len(s) /\ j + 1 \in 1..Len(s)
  BY <1>0
<1>8. \A j \in 1..(Len(s) - 1) : \E k \in 1..Len(s) : RemoveAt(s, i)[j] = s[k]
  BY <1>5, <1>7
<1> QED
  BY <1>4, <1>5, <1>6, <1>8

\* The event that appears is an event of a customer.
LEMMA AppearedEvent ==
  ASSUME IInv, RegisteredFirst, EventAppears
  PROVE  /\ position + 1 \in PositionsOf("domain") /\ position \in Nat
         /\ log[position + 1].event \in Event
         /\ log[position + 1].event.customerId \in CustomerId
         /\ phase = "subscribed" /\ phase' = "storing" /\ position' = position + 1
         /\ dispatched' = dispatched \cup {position + 1}
         /\ UNCHANGED <<log, late, failures>>
<1>1. position \in Nat /\ Len(log) \in Nat /\ position < Len(log)
  BY DEF IInv, TypeOK, EventAppears, Appears
<1>2. position + 1 \in PositionsOf("domain")
  BY <1>1 DEF EventAppears, Appears, PositionsOf
<1> QED
  BY <1>1, <1>2 DEF RegisteredFirst, EventAppears, Appears

\* The tasks of an event.
LEMMA TasksType ==
  ASSUME NEW event \in Event
  PROVE  /\ Registration(event) \in TaskType
         /\ Loading(event) \in TaskType
         /\ TasksOf(event) \in Seq(TaskType)
         /\ \A id \in StateId, document \in Document : Saving(id, document) \in TaskType
<1>1. event.customerId \in StateId /\ event.address \in AnyAddress
      /\ event.phoneNumber \in AnyPhoneNumber
  BY DEF Event
<1>2. \A id \in StateId, document \in Document : Saving(id, document) \in TaskType
  BY DEF Saving, TaskType
<1>3. Loading(event) \in TaskType
  BY <1>1 DEF Loading, TaskType
<1>4. [address |-> event.address, phoneNumber |-> event.phoneNumber] \in Document
  BY <1>1 DEF Document
<1>5. Registration(event) \in TaskType
  BY <1>1, <1>2, <1>4 DEF Registration
<1>6. TasksOf(event) \in Seq(TaskType)
  BY <1>3, <1>5 DEF TasksOf
<1> QED
  BY <1>2, <1>3, <1>5, <1>6

\* An update of a document is a document.
LEMMA UpdatedType ==
  ASSUME NEW document \in Document, NEW event \in Event
  PROVE  Updated(document, event) \in Document
BY DEF Updated, Document, Event

\* A document differs from none.
LEMMA NoDocumentIsNone == NoDocument \notin Document
BY DEF NoDocument, Document

\* What the two kinds of tasks have.
LEMMA TaskKinds ==
  ASSUME NEW task \in TaskType
  PROVE  /\ task.step = "saving" =>
              task.id \in StateId /\ task.document \in Document
              /\ task = Saving(task.id, task.document)
         /\ task.step # "saving" =>
              task.step = "loading" /\ task.id \in StateId /\ task.event \in Event
BY DEF TaskType, Saving

\* A task is of a customer.
LEMMA TaskIds ==
  ASSUME RegisteredFirst, DispatchedAreEvents, ReadTypeOK, TasksAreSourced,
         NEW i \in 1..Len(writes)
  PROVE  writes[i].id \in CustomerId
<1>1. \A p \in dispatched : log[p].event.customerId \in CustomerId
  BY DEF RegisteredFirst, DispatchedAreEvents
<1>2. CASE writes[i].step = "saving"
  <2>1. IsRegistered(writes[i].id)
    BY <1>2 DEF TasksAreSourced, TaskSourced
  <2>2. PICK p \in dispatched : log[p].event.customerId = writes[i].id
    BY <2>1 DEF IsRegistered, Told
  <2> QED
    BY <1>1, <2>2
<1>3. CASE writes[i].step # "saving"
  <2>1. PICK p \in dispatched : writes[i] = Loading(log[p].event)
    BY <1>3 DEF TasksAreSourced, TaskSourced
  <2> QED
    BY <1>1, <2>1 DEF Loading
<1> QED
  BY <1>2, <1>3

\* The types of the projection.
LEMMA ReadTypeStep ==
  ASSUME IInv, RegisteredFirst, DispatchedAreEvents, ReadTypeOK, TasksAreSourced,
         [ReadNext]_readVars
  PROVE  ReadTypeOK'
<1>0. /\ documents \in [CustomerId -> Document \cup {NoDocument}]
      /\ writes \in Seq(TaskType) /\ Len(writes) \in Nat
      /\ overlapped \in BOOLEAN /\ lost \in BOOLEAN
  BY DEF ReadTypeOK
<1>1. CASE UNCHANGED projection
  BY <1>1 DEF projection, ReadTypeOK
<1>2. CASE EventAppears /\ Dispatch(log[position + 1].event)
  <2>1. TasksOf(log[position + 1].event) \in Seq(TaskType)
    BY <1>2, AppearedEvent, TasksType
  <2>2. writes' \in Seq(TaskType)
    BY <1>0, <1>2, <2>1, ConcatProperties DEF Dispatch
  <2>3. overlapped' \in BOOLEAN /\ UNCHANGED <<documents, lost>>
    <3>1. overlapped' = (overlapped \/ writes # <<>>) /\ UNCHANGED <<documents, lost>>
      BY <1>2 DEF Dispatch
    <3> QED
      BY <3>1, ZenonT(30)
  <2> QED
    BY <1>0, <2>2, <2>3 DEF ReadTypeOK
<1>3. CASE StopAndLoseWrites
  <2>1. lost' \in BOOLEAN /\ writes' = <<>> /\ UNCHANGED <<documents, overlapped>>
    <3>1. lost' = (lost \/ writes # <<>>) /\ writes' = <<>> /\ UNCHANGED <<documents, overlapped>>
      BY <1>3 DEF StopAndLoseWrites
    <3> QED
      BY <3>1, ZenonT(30)
  <2>2. <<>> \in Seq(TaskType)
    OBVIOUS
  <2> QED
    BY <1>0, <2>1, <2>2 DEF ReadTypeOK
<1>4. CASE \E i \in 1..Len(writes) : SaveChanges(i) \/ LoadAndUpdate(i)
  <2>1. PICK i \in 1..Len(writes) : SaveChanges(i) \/ LoadAndUpdate(i)
    BY <1>4
  <2>2. writes[i] \in TaskType
    BY <1>0
  <2>3. RemoveAt(writes, i) \in Seq(TaskType)
    BY <1>0, Removed
  <2>4. CASE SaveChanges(i)
    <3>1. /\ documents' = [documents EXCEPT ![writes[i].id] = writes[i].document]
          /\ writes' = RemoveAt(writes, i) /\ writes[i].step = "saving"
          /\ UNCHANGED <<overlapped, lost>>
      BY <2>4 DEF SaveChanges
    <3>2. writes[i].document \in Document
      BY <2>2, <3>1, TaskKinds
    <3>3. documents' \in [CustomerId -> Document \cup {NoDocument}]
      BY <1>0, <3>1, <3>2
    <3> QED
      BY <1>0, <2>3, <3>1, <3>3 DEF ReadTypeOK
  <2>5. CASE LoadAndUpdate(i)
    <3> DEFINE document == documents[writes[i].id]
               task == Saving(writes[i].id, Updated(document, writes[i].event))
    <3>1. /\ writes[i].step = "loading" /\ UNCHANGED <<documents, overlapped, lost>>
          /\ \/ writes' = RemoveAt(writes, i)
             \/ document # NoDocument /\ writes' = [writes EXCEPT ![i] = task]
      BY <2>5 DEF LoadAndUpdate
    <3>2. ASSUME document \in Document
          PROVE  task \in TaskType
      BY <2>2, <3>1, <3>2, TaskKinds, TasksType, UpdatedType
    <3>3. CASE writes' = RemoveAt(writes, i)
      BY <1>0, <2>3, <3>1, <3>3 DEF ReadTypeOK
    <3>4. CASE document # NoDocument /\ writes' = [writes EXCEPT ![i] = task]
      <4>1. document \in Document
        BY <1>0, <3>4, TaskIds
      <4>2. task \in TaskType
        BY <3>2, <4>1
      <4> HIDE DEF task
      <4>3. writes' \in Seq(TaskType)
        BY <1>0, <3>4, <4>2
      <4> QED
        BY <1>0, <3>1, <4>3 DEF ReadTypeOK
    <3> QED
      BY <3>1, <3>3, <3>4
  <2> QED
    BY <2>1, <2>4, <2>5
<1>5. CASE \E i \in 1..Len(writes) : WriteFails(i)
  BY <1>0, <1>5, Removed DEF WriteFails, ReadTypeOK
<1> QED
  BY <1>1, <1>2, <1>3, <1>4, <1>5, ReadSteps DEF Publish, readVars

-----------------------------------------------------------------------------
(* What documents and tasks were said by.                                   *)

\* Only EventAppears dispatches, and only events of customers.
LEMMA DispatchedStep ==
  ASSUME IInv, RegisteredFirst, DispatchedAreEvents, ReadTypeOK, [ReadNext]_readVars
  PROVE  /\ DispatchedAreEvents'
         /\ \/ dispatched' = dispatched
            \/ EventAppears /\ Dispatch(log[position + 1].event)
<1>1. LogKept
  BY SubscriptionStep
<1>2. PositionsOf("domain") \subseteq PositionsOf("domain")'
  BY <1>1 DEF LogKept, PositionsOf
<1>3. CASE EventAppears /\ Dispatch(log[position + 1].event)
  BY <1>2, <1>3, AppearedEvent DEF DispatchedAreEvents
<1>4. CASE dispatched' = dispatched
  BY <1>2, <1>4 DEF DispatchedAreEvents
<1> QED
  BY <1>3, <1>4, ReadSteps
     DEF Publish, Proceed, Start, Resume, Initialise, StartStored, SetStreamMaxCount,
     SystemEventAppears, ForeignEventAppears, CheckpointStored, Fail, Drop, StartFails,
     CheckpointStoredLate, StopAndLoseWrites, Stop, SaveChanges, LoadAndUpdate,
     WriteFails, readVars, vars

\* The events that were dispatched stay dispatched and stay the same.
LEMMA ToldGrows ==
  ASSUME LogKept, NEW id, NEW types
  PROVE  /\ Told(id, types) \subseteq Told(id, types)'
         /\ dispatched' = dispatched => Told(id, types)' = Told(id, types)
         /\ \A p \in Told(id, types) : log'[p] = log[p]
BY DEF Told, LogKept

\* What was said stays said.
LEMMA SourcesStay ==
  ASSUME LogKept
  PROVE  /\ \A id : IsRegistered(id) => IsRegistered(id)'
         /\ \A id : dispatched' = dispatched => (IsRegistered(id)' <=> IsRegistered(id))
         /\ \A id, document : SourcedBy(id, document) => SourcedBy(id, document)'
         /\ \A task : TaskSourced(task) => TaskSourced(task)'
<1>1. ASSUME NEW id, IsRegistered(id)
      PROVE  IsRegistered(id)'
  BY <1>1, ToldGrows DEF IsRegistered
<1>2. ASSUME NEW id, dispatched' = dispatched
      PROVE  IsRegistered(id)' <=> IsRegistered(id)
  BY <1>2, ToldGrows DEF IsRegistered
<1>3. ASSUME NEW id, NEW document, SourcedBy(id, document)
      PROVE  SourcedBy(id, document)'
  BY <1>3, ToldGrows DEF SourcedBy
<1>4. ASSUME NEW task, TaskSourced(task)
      PROVE  TaskSourced(task)'
  <2>1. CASE task.step = "saving"
    BY <1>1, <1>3, <1>4, <2>1 DEF TaskSourced
  <2>2. CASE task.step # "saving"
    <3>1. PICK p \in dispatched : /\ log[p].event.type # "CustomerRegistered"
                                  /\ task = Loading(log[p].event)
      BY <1>4, <2>2 DEF TaskSourced
    <3>2. p \in dispatched' /\ log'[p] = log[p]
      BY <3>1 DEF LogKept
    <3> QED
      BY <2>2, <3>1, <3>2 DEF TaskSourced
  <2> QED
    BY <2>1, <2>2
<1> QED
  BY <1>1, <1>2, <1>3, <1>4

\* An update says of a field what its event says, or what the document said.
LEMMA UpdatedSourced ==
  ASSUME NEW id, NEW document \in Document, SourcedBy(id, document),
         NEW p \in dispatched, log[p].event \in Event, log[p].event.customerId = id,
         log[p].event.type # "CustomerRegistered"
  PROVE  SourcedBy(id, Updated(document, log[p].event))
<1> DEFINE event == log[p].event
<1>1. CASE event.type = "CustomerRelocated"
  <2>1. /\ Updated(document, event).address = event.address
        /\ Updated(document, event).phoneNumber = document.phoneNumber
    BY <1>1 DEF Updated, Document
  <2>2. p \in Told(id, SetsAddress)
    BY <1>1 DEF Told, SetsAddress
  <2> QED
    BY <2>1, <2>2 DEF SourcedBy
<1>2. CASE event.type # "CustomerRelocated"
  <2>1. /\ Updated(document, event).phoneNumber = event.phoneNumber
        /\ Updated(document, event).address = document.address
    BY <1>2 DEF Updated, Document
  <2>2. event.type = "CustomerContactInfoChanged"
    BY <1>2 DEF Event, EventType
  <2>3. p \in Told(id, SetsPhoneNumber)
    BY <2>2 DEF Told, SetsPhoneNumber
  <2> QED
    BY <2>1, <2>3 DEF SourcedBy
<1> QED
  BY <1>1, <1>2

\* The tasks after a dispatch are those before it, then those of the event.
LEMMA DispatchAdds ==
  ASSUME ReadTypeOK, NEW event \in Event, Dispatch(event)
  PROVE  /\ Len(writes) \in Nat /\ Len(writes') \in Nat
         /\ Len(writes') = Len(writes) + Len(TasksOf(event))
         /\ \A i \in 1..Len(writes) : i \in 1..Len(writes') /\ writes'[i] = writes[i]
         /\ \A i \in 1..Len(writes') : i \notin 1..Len(writes) =>
              writes'[i] = IF event.type = "CustomerRegistered"
                           THEN Registration(event) ELSE Loading(event)
         /\ Len(TasksOf(event)) = IF event.type = "CustomerRegistered" THEN 2 ELSE 1
         /\ writes = <<>> => writes' = TasksOf(event)
<1>1. writes \in Seq(TaskType) /\ TasksOf(event) \in Seq(TaskType)
  BY TasksType DEF ReadTypeOK
<1>2. writes' = writes \o TasksOf(event)
  BY DEF Dispatch
<1>3. /\ Len(TasksOf(event)) = IF event.type = "CustomerRegistered" THEN 2 ELSE 1
      /\ \A i \in 1..Len(TasksOf(event)) :
           TasksOf(event)[i] = IF event.type = "CustomerRegistered"
                               THEN Registration(event) ELSE Loading(event)
  <2>1. CASE event.type = "CustomerRegistered"
    <3>1. TasksOf(event) = <<Registration(event), Registration(event)>>
      BY <2>1 DEF TasksOf
    <3> QED
      BY <2>1, <3>1
  <2>2. CASE event.type # "CustomerRegistered"
    <3>1. TasksOf(event) = <<Loading(event)>>
      BY <2>2 DEF TasksOf
    <3> QED
      BY <2>2, <3>1
  <2> QED
    BY <2>1, <2>2
<1>4. /\ Len(writes') = Len(writes) + Len(TasksOf(event))
      /\ \A i \in 1..Len(writes) + Len(TasksOf(event)) :
           writes'[i] = IF i <= Len(writes) THEN writes[i]
                        ELSE TasksOf(event)[i - Len(writes)]
  BY <1>1, <1>2, ConcatProperties
<1>5. Len(writes) \in Nat /\ Len(TasksOf(event)) \in Nat
  BY <1>1
<1> DEFINE new == TasksOf(event)
<1> HIDE DEF new
<1>6. \A i \in 1..Len(writes') : i \notin 1..Len(writes) =>
        i - Len(writes) \in 1..Len(TasksOf(event)) /\ ~(i <= Len(writes))
  BY <1>4, <1>5
<1>7. \A i \in 1..Len(writes) : i \in 1..Len(writes') /\ writes'[i] = writes[i]
  BY <1>4, <1>5
<1>8. \A i \in 1..Len(writes') : i \notin 1..Len(writes) =>
        writes'[i] = IF event.type = "CustomerRegistered"
                     THEN Registration(event) ELSE Loading(event)
  BY <1>3, <1>4, <1>6
<1>9. writes = <<>> => writes' = TasksOf(event)
  BY <1>1, <1>2, ConcatEmptySeq
<1> QED
  BY <1>3, <1>4, <1>5, <1>7, <1>8, <1>9

\* A task is of a dispatched event, and an update mixes no customers or fields.
LEMMA TasksSourcedStep ==
  ASSUME IInv, RegisteredFirst, DispatchedAreEvents, ReadTypeOK, TasksAreSourced,
         DocumentsSourced, [ReadNext]_readVars
  PROVE  TasksAreSourced'
<1>0. LogKept /\ writes \in Seq(TaskType)
  BY SubscriptionStep DEF ReadTypeOK
<1> SUFFICES ASSUME NEW i \in 1..Len(writes'), NEW task, task = writes'[i]
             PROVE  TaskSourced(task)'
  BY DEF TasksAreSourced
<1>1. ASSUME NEW k \in 1..Len(writes), task = writes[k]
      PROVE  TaskSourced(task)'
  <2>1. TaskSourced(task)
    BY <1>1 DEF TasksAreSourced
  <2> QED
    BY <1>0, <2>1, SourcesStay
<1>2. CASE writes' = writes
  BY <1>1, <1>2
<1>3. CASE EventAppears /\ Dispatch(log[position + 1].event)
  <2>1. /\ log[position + 1].event \in Event /\ position + 1 \in dispatched'
        /\ log' = log
    BY <1>3, AppearedEvent
  <2>2. PICK p : p = position + 1
    OBVIOUS
  <2>3. CASE i \in 1..Len(writes)
    BY <1>1, <1>3, <2>1, <2>3, DispatchAdds
  <2>4. CASE i \notin 1..Len(writes)
    <3>1. /\ p \in dispatched'
          /\ task = IF log'[p].event.type = "CustomerRegistered"
                    THEN Registration(log'[p].event) ELSE Loading(log'[p].event)
      BY <1>3, <2>1, <2>2, <2>4, DispatchAdds
    <3>4. PICK event : event = log'[p].event
      OBVIOUS
    <3>2. CASE event.type = "CustomerRegistered"
      <4>1. /\ task.step = "saving" /\ task.id = event.customerId
            /\ task.document.address = event.address
            /\ task.document.phoneNumber = event.phoneNumber
        BY <3>1, <3>2, <3>4 DEF Registration, Saving
      <4>2. /\ p \in Told(event.customerId, SetsAddress)'
            /\ p \in Told(event.customerId, SetsPhoneNumber)'
            /\ p \in Told(event.customerId, {"CustomerRegistered"})'
        BY <3>1, <3>2, <3>4 DEF Told, SetsAddress, SetsPhoneNumber
      <4> QED
        BY <3>4, <4>1, <4>2 DEF TaskSourced, SourcedBy, IsRegistered
    <3>3. CASE event.type # "CustomerRegistered"
      BY <3>1, <3>3, <3>4 DEF TaskSourced, Loading
    <3> QED
      BY <3>2, <3>3
  <2> QED
    BY <2>3, <2>4
<1>4. CASE \E k \in 1..Len(writes) : writes' = RemoveAt(writes, k)
  BY <1>0, <1>1, <1>4, Removed
<1>5. CASE \E k \in 1..Len(writes) : LoadAndUpdate(k)
  <2>1. PICK k \in 1..Len(writes) : LoadAndUpdate(k)
    BY <1>5
  <2> DEFINE document == documents[writes[k].id]
             new == Saving(writes[k].id, Updated(document, writes[k].event))
  <2>2. /\ writes[k].step = "loading"
        /\ \/ writes' = RemoveAt(writes, k)
           \/ document # NoDocument /\ writes' = [writes EXCEPT ![k] = new]
    BY <2>1 DEF LoadAndUpdate
  <2>3. CASE document # NoDocument /\ writes' = [writes EXCEPT ![k] = new] /\ i = k
    <3>1. task = new
      BY <1>0, <2>3
    <3>2. writes[k].id \in CustomerId
      BY TaskIds
    <3>3. document \in Document
      BY <2>3, <3>2 DEF ReadTypeOK
    <3>4. TaskSourced(writes[k])
      BY DEF TasksAreSourced
    <3>5. PICK p \in dispatched : /\ log[p].event.type # "CustomerRegistered"
                                  /\ writes[k] = Loading(log[p].event)
      BY <2>2, <3>4 DEF TaskSourced
    <3>6. writes[k].event = log[p].event /\ writes[k].id = log[p].event.customerId
      BY <3>5 DEF Loading
    <3>7. log[p].event \in Event
      BY DEF RegisteredFirst, DispatchedAreEvents
    <3>8. SourcedBy(writes[k].id, document) /\ IsRegistered(writes[k].id)
      BY <2>3, <3>2 DEF DocumentsSourced
    <3>9. SourcedBy(writes[k].id, Updated(document, log[p].event))
      BY <3>3, <3>5, <3>6, <3>7, <3>8, UpdatedSourced
    <3>10. /\ task.step = "saving" /\ task.id = writes[k].id
           /\ task.document = Updated(document, log[p].event)
      BY <3>1, <3>6 DEF Saving
    <3>11. TaskSourced(task)
      BY <3>8, <3>9, <3>10 DEF TaskSourced
    <3> QED
      BY <1>0, <3>11, SourcesStay
  <2>4. CASE document # NoDocument /\ writes' = [writes EXCEPT ![k] = new] /\ i # k
    <3>1. i \in 1..Len(writes) /\ task = writes[i]
      BY <1>0, <2>4
    <3> QED
      BY <1>1, <3>1
  <2> QED
    BY <1>4, <2>2, <2>3, <2>4
<1>6. CASE writes' = <<>>
  BY <1>6
<1> QED
  BY <1>2, <1>3, <1>4, <1>5, <1>6, ReadSteps
     DEF Publish, projection, StopAndLoseWrites, SaveChanges, WriteFails, readVars

-----------------------------------------------------------------------------
(* Documents, and the registrations that are shown.                         *)

\* A save stores what a task was told.
LEMMA DocumentsSourcedStep ==
  ASSUME IInv, RegisteredFirst, DispatchedAreEvents, ReadTypeOK, TasksAreSourced,
         DocumentsSourced, [ReadNext]_readVars
  PROVE  DocumentsSourced'
<1>1. LogKept
  BY SubscriptionStep
<1>2. CASE documents' = documents
  BY <1>1, <1>2, SourcesStay DEF DocumentsSourced
<1>3. CASE \E k \in 1..Len(writes) : SaveChanges(k)
  <2>1. PICK k \in 1..Len(writes) : SaveChanges(k)
    BY <1>3
  <2>2. /\ writes[k].step = "saving"
        /\ documents' = [documents EXCEPT ![writes[k].id] = writes[k].document]
    BY <2>1 DEF SaveChanges
  <2>3. SourcedBy(writes[k].id, writes[k].document) /\ IsRegistered(writes[k].id)
    BY <2>2 DEF TasksAreSourced, TaskSourced
  <2> SUFFICES ASSUME NEW id \in CustomerId, NEW document,
                      document = documents'[id], document # NoDocument
               PROVE  SourcedBy(id, document)' /\ IsRegistered(id)'
    BY DEF DocumentsSourced
  <2>4. SourcedBy(id, document) /\ IsRegistered(id)
    <3>1. CASE id = writes[k].id
      <4>1. document = writes[k].document
        BY <2>2, <3>1 DEF ReadTypeOK
      <4> QED
        BY <2>3, <3>1, <4>1
    <3>2. CASE id # writes[k].id
      <4>1. document = documents[id]
        BY <2>2, <3>2 DEF ReadTypeOK
      <4> QED
        BY <4>1 DEF DocumentsSourced
    <3> QED
      BY <3>1, <3>2
  <2> QED
    BY <1>1, <2>4, SourcesStay
<1> QED
  BY <1>2, <1>3, ReadSteps
     DEF Publish, projection, Dispatch, StopAndLoseWrites, LoadAndUpdate, WriteFails,
     readVars

\* Customer id is registered, and its document is there or being saved.
Shown(id) ==
  \/ documents[id] # NoDocument
  \/ \E i \in 1..Len(writes) : writes[i].step = "saving" /\ writes[i].id = id

\* Without a lost write, only a save ends the saving of a registration.
LEMMA RegistrationsKeptStep ==
  ASSUME IInv, RegisteredFirst, DispatchedAreEvents, ReadTypeOK, TasksAreSourced,
         RegistrationsKept, [ReadNext]_readVars
  PROVE  RegistrationsKept'
<1>0. LogKept /\ writes \in Seq(TaskType)
  BY SubscriptionStep DEF ReadTypeOK
<1> SUFFICES ASSUME lost' # TRUE, NEW id \in CustomerId, IsRegistered(id)'
             PROVE  Shown(id)'
  BY DEF RegistrationsKept, Shown
<1>1. lost # TRUE
  BY ReadSteps DEF Publish, projection, Dispatch, StopAndLoseWrites, SaveChanges,
     LoadAndUpdate, WriteFails, readVars
<1>2. IsRegistered(id) => Shown(id)
  BY <1>1 DEF RegistrationsKept, Shown, ReadTypeOK
<1>3. CASE EventAppears /\ Dispatch(log[position + 1].event)
  <2> DEFINE event == log[position + 1].event
  <2>1. /\ event \in Event /\ dispatched' = dispatched \cup {position + 1}
        /\ UNCHANGED log
    BY <1>3, AppearedEvent
  <2>2. UNCHANGED documents
    BY <1>3 DEF Dispatch
  <2>3. CASE IsRegistered(id)
    BY <1>2, <1>3, <2>1, <2>2, <2>3, DispatchAdds DEF Shown
  <2>4. CASE ~IsRegistered(id)
    <3>1. event.customerId = id /\ event.type = "CustomerRegistered"
      BY <2>1, <2>4 DEF IsRegistered, Told
    <3>2. Len(writes') \in 1..Len(writes') /\ Len(writes') \notin 1..Len(writes)
      BY <1>3, <2>1, <3>1, DispatchAdds
    <3>3. writes'[Len(writes')] = Registration(event)
      BY <1>3, <2>1, <3>1, <3>2, DispatchAdds
    <3> QED
      BY <3>1, <3>2, <3>3 DEF Registration, Saving, Shown
  <2> QED
    BY <2>3, <2>4
<1>4. CASE /\ dispatched' = dispatched
           /\ ~(EventAppears /\ Dispatch(log[position + 1].event))
  <2>1. Shown(id)
    BY <1>0, <1>2, <1>4, SourcesStay
  <2>2. CASE UNCHANGED <<documents, writes>>
    BY <2>1, <2>2 DEF Shown
  <2>3. CASE StopAndLoseWrites
    BY <2>1, <2>3 DEF Shown, StopAndLoseWrites, ReadTypeOK
  <2>4. ASSUME NEW k \in 1..Len(writes), SaveChanges(k)
        PROVE  Shown(id)'
    <3>1. /\ writes[k].step = "saving" /\ writes' = RemoveAt(writes, k)
          /\ documents' = [documents EXCEPT ![writes[k].id] = writes[k].document]
      BY <2>4 DEF SaveChanges
    <3>2. writes[k].document \in Document
      BY <1>0, <3>1, TaskKinds
    <3>3. CASE writes[k].id = id
      BY <3>1, <3>2, <3>3, NoDocumentIsNone DEF Shown, ReadTypeOK
    <3>4. CASE writes[k].id # id /\ documents[id] # NoDocument
      BY <3>1, <3>4 DEF Shown, ReadTypeOK
    <3>5. CASE writes[k].id # id /\ documents[id] = NoDocument
      <4>1. PICK i \in 1..Len(writes) : writes[i].step = "saving" /\ writes[i].id = id
        BY <2>1, <3>5 DEF Shown
      <4>2. \E j \in 1..Len(writes') : writes'[j] = writes[i]
        BY <1>0, <3>1, <3>5, <4>1, Removed
      <4> QED
        BY <4>1, <4>2 DEF Shown
    <3> QED
      BY <3>3, <3>4, <3>5
  <2>5. ASSUME NEW k \in 1..Len(writes), LoadAndUpdate(k)
        PROVE  Shown(id)'
    <3>1. PICK new : new = Saving(writes[k].id, Updated(documents[writes[k].id], writes[k].event))
      OBVIOUS
    <3>2. /\ writes[k].step = "loading" /\ documents' = documents
          /\ writes' = RemoveAt(writes, k) \/ writes' = [writes EXCEPT ![k] = new]
      BY <2>5, <3>1 DEF LoadAndUpdate
    <3>3. CASE documents[id] # NoDocument
      BY <3>2, <3>3 DEF Shown
    <3>4. CASE documents[id] = NoDocument
      <4>1. PICK i \in 1..Len(writes) : writes[i].step = "saving" /\ writes[i].id = id
        BY <2>1, <3>4 DEF Shown
      <4>2. i # k
        BY <3>2, <4>1
      <4>3. \E j \in 1..Len(writes') : writes'[j] = writes[i]
        BY <1>0, <3>2, <4>1, <4>2, Removed
      <4> QED
        BY <4>1, <4>3 DEF Shown
    <3> QED
      BY <3>3, <3>4
  <2> QED
    BY <1>4, <2>2, <2>3, <2>4, <2>5, ReadSteps
       DEF Publish, projection, WriteFails, readVars
<1> QED
  BY <1>3, <1>4, DispatchedStep

-----------------------------------------------------------------------------
(* Checkpoints and replays.                                                 *)

\* An event that a checkpoint covers stays covered; new events come last.
LEMMA CoveredStays ==
  ASSUME LogKept, TypeOK
  PROVE  /\ \A p : Covered(p) => Covered(p)'
         /\ HasCheckpoint => HasCheckpoint'
         /\ CheckpointsInOrder' => CheckpointsInOrder
         /\ \A p \in PositionsOf("domain")' :
              p \in Nat /\ (p \in PositionsOf("domain") \/ p > Len(log))
         /\ \A i \in PositionsOf("$checkpoint") : log[i].checkpoint \in Nat /\ i \in Nat
         /\ \A d \in dispatched : d \in Nat /\ d <= Len(log)
<1>1. PositionsOf("$checkpoint") \subseteq PositionsOf("$checkpoint")'
  BY DEF LogKept, PositionsOf
<1>2. \A i \in PositionsOf("$checkpoint") : log'[i] = log[i]
  BY DEF LogKept, PositionsOf
<1>3. \A i \in PositionsOf("$checkpoint") : log[i].checkpoint \in Nat /\ i \in Nat
  <2> SUFFICES ASSUME NEW i \in PositionsOf("$checkpoint")
               PROVE  log[i].checkpoint \in Nat /\ i \in Nat
    OBVIOUS
  <2>1. i \in 1..Len(log)
    BY DEF PositionsOf
  <2>2. log[i] \in EntryType
    BY <2>1 DEF TypeOK
  <2> QED
    BY <2>1, <2>2 DEF EntryType
<1>4. \A p \in PositionsOf("domain")' :
        p \in Nat /\ (p \in PositionsOf("domain") \/ p > Len(log))
  BY DEF LogKept, PositionsOf
<1>5. \A p : Covered(p) => Covered(p)'
  BY <1>1, <1>2 DEF Covered
<1>6. HasCheckpoint => HasCheckpoint'
  BY <1>1 DEF HasCheckpoint
<1>7. CheckpointsInOrder' => CheckpointsInOrder
  BY <1>1, <1>2 DEF CheckpointsInOrder
<1>8. \A d \in dispatched : d \in Nat /\ d <= Len(log)
  BY DEF LogKept
<1> QED
  BY <1>3, <1>4, <1>5, <1>6, <1>7, <1>8

\* The steps that leave the subscription where it is.
LEMMA StayingCovers ==
  ASSUME LogKept, TypeOK, CheckpointsCover, OnlyLastReplayed,
         UNCHANGED <<phase, position, dispatched>>
  PROVE  CheckpointsCover' /\ OnlyLastReplayed'
<1>1. position \in Nat /\ position <= Len(log) /\ Len(log) \in Nat
  BY DEF TypeOK, LogKept
<1>2. CheckpointsCover'
  BY <1>1, CoveredStays DEF CheckpointsCover
<1>3. OnlyLastReplayed'
  BY <1>1, CoveredStays DEF OnlyLastReplayed
<1> QED
  BY <1>2, <1>3

\* The steps that end or begin a subscription before it is anywhere.
LEMMA RestartCovers ==
  ASSUME LogKept, TypeOK, CheckpointsCover, UNCHANGED dispatched,
         phase' \notin {"subscribed", "storing"},
         phase' \in {"initialising", "limiting"} => dispatched = {},
         phase' = "limiting" => HasCheckpoint'
  PROVE  CheckpointsCover' /\ OnlyLastReplayed'
<1>1. CheckpointsCover'
  BY CoveredStays DEF CheckpointsCover
<1>2. OnlyLastReplayed'
  BY DEF OnlyLastReplayed
<1> QED
  BY <1>1, <1>2

\* Every event before the last dispatched one has its checkpoint, and with the
\* checkpoints in order no subscription resumes before it.
LEMMA CheckpointsCoverStep ==
  ASSUME IInv, RegisteredFirst, ReadTypeOK, CheckpointsCover, OnlyLastReplayed,
         [ReadNext]_readVars
  PROVE  CheckpointsCover' /\ OnlyLastReplayed'
<1>0. LogKept /\ TypeOK
  BY SubscriptionStep DEF IInv
<1>1. position \in Nat /\ Len(log) \in Nat /\ position <= Len(log) /\ log \in Seq(EntryType)
  BY <1>0 DEF TypeOK
<1>2. CASE UNCHANGED <<phase, position, dispatched>>
  BY <1>0, <1>2, StayingCovers
<1>3. CASE EventAppears
  <2>1. /\ phase = "subscribed" /\ phase' = "storing" /\ position' = position + 1
        /\ dispatched' = dispatched \cup {position + 1}
        /\ UNCHANGED log
    BY <1>3, AppearedEvent
  <2>2. UNCHANGED PositionsOf("domain") /\ UNCHANGED HasCheckpoint
    BY <2>1 DEF PositionsOf, HasCheckpoint
  <2>3. \A p : Covered(p)' <=> Covered(p)
    BY <2>1 DEF Covered, PositionsOf
  <2>4. \A p \in PositionsOf("domain") : p \in Nat
    BY <1>0, <2>2, CoveredStays
  <2>5. \A d \in dispatched : d \in Nat
    BY <1>0, CoveredStays
  <2>6. CheckpointsInOrder' => CheckpointsInOrder
    BY <1>0, CoveredStays
  <2>7. CheckpointsCover'
    BY <1>1, <2>1, <2>2, <2>3, <2>4, <2>5 DEF CheckpointsCover
  <2>8. OnlyLastReplayed'
    BY <1>1, <2>1, <2>2, <2>4, <2>5, <2>6 DEF OnlyLastReplayed
  <2> QED
    BY <2>7, <2>8
<1>4. CASE Drop \/ StartFails \/ Stop \/ Start \/ ForeignEventAppears
  <2>1. UNCHANGED dispatched /\ phase' \notin {"subscribed", "storing", "initialising", "limiting"}
    BY <1>4 DEF Drop, StartFails, Stop, Start, ForeignEventAppears
  <2> QED
    BY <1>0, <2>1, RestartCovers
<1>5. CASE Initialise
  BY <1>0, <1>5, RestartCovers DEF Initialise, CheckpointsCover
<1>6. CASE StartStored
  <2>1. AllStart \in Nat
    BY DEF AllStart
  <2>2. /\ log'[Len(log) + 1] = CheckpointEntry(AllStart)
        /\ Len(log') = Len(log) + 1
    BY <1>1, <1>6, <2>1, EntryTypes, AppendedLog DEF StartStored
  <2>3. HasCheckpoint'
    BY <1>1, <2>2 DEF HasCheckpoint, PositionsOf, CheckpointEntry
  <2> QED
    BY <1>0, <1>6, <2>3, RestartCovers DEF StartStored, CheckpointsCover
<1>7. CASE Resume
  <2>1. PICK i \in 1..Len(log) : IsLastCheckpoint(i) /\ position' = log[i].checkpoint
    BY <1>7 DEF Resume
  <2>2. i \in PositionsOf("$checkpoint") /\ \A j \in PositionsOf("$checkpoint") : j <= i
    BY <2>1 DEF IsLastCheckpoint
  <2>3. phase' = "subscribed" /\ UNCHANGED <<log, dispatched>>
    BY <1>7 DEF Resume
  <2>4. UNCHANGED PositionsOf("domain") /\ UNCHANGED HasCheckpoint
    BY <2>3 DEF PositionsOf, HasCheckpoint
  <2>5. \A p : Covered(p)' <=> Covered(p)
    BY <2>3 DEF Covered, PositionsOf
  <2>6. \A p : p <= position' => Covered(p)
    BY <2>1, <2>2 DEF Covered
  <2>7. HasCheckpoint
    BY <2>2 DEF HasCheckpoint
  <2>8. CheckpointsCover'
    BY <2>3, <2>4, <2>5, <2>6, <2>7 DEF CheckpointsCover
  <2>9. ASSUME CheckpointsInOrder', NEW p \in Nat, Covered(p)
        PROVE  p <= position'
    <3>1. PICK j \in PositionsOf("$checkpoint") : p <= log[j].checkpoint
      BY <2>9 DEF Covered
    <3>2. CheckpointsInOrder
      BY <1>0, <2>9, CoveredStays
    <3>3. log[j].checkpoint <= log[i].checkpoint
      <4>1. j = i \/ j < i
        BY <1>0, <2>2, <3>1, CoveredStays
      <4>2. CASE j < i
        BY <2>2, <3>2, <4>2 DEF CheckpointsInOrder
      <4>3. CASE j = i
        BY <1>0, <4>3, CoveredStays
      <4> QED
        BY <4>1, <4>2, <4>3
    <3>4. log[i].checkpoint \in Nat /\ log[j].checkpoint \in Nat
      BY <1>0, <2>2, CoveredStays
    <3> QED
      BY <2>1, <3>1, <3>3, <3>4
  <2>10. \A p \in PositionsOf("domain") : p \in Nat
    BY <1>0, <2>4, CoveredStays
  <2>11. \A d \in dispatched, p \in PositionsOf("domain") : p < d => Covered(p)
    BY DEF CheckpointsCover
  <2>12. OnlyLastReplayed'
    BY <2>3, <2>4, <2>9, <2>10, <2>11 DEF OnlyLastReplayed
  <2> QED
    BY <2>8, <2>12
<1>8. CASE SetStreamMaxCount
  <2>1. phase = "limiting" /\ phase' = "subscribed" /\ position' = 0 /\ UNCHANGED dispatched
    BY <1>8 DEF SetStreamMaxCount, AllStart
  <2>2. dispatched = {} /\ HasCheckpoint'
    BY <1>0, <2>1, CoveredStays DEF CheckpointsCover
  <2>3. \A p \in PositionsOf("domain")' : p \in Nat /\ ~(p <= 0)
    <3>1. \A p \in PositionsOf("domain")' : p \in 1..Len(log') /\ Len(log') \in Nat
      BY <1>0 DEF PositionsOf, LogKept
    <3> QED
      BY <3>1
  <2>4. CheckpointsCover'
    BY <2>1, <2>2, <2>3 DEF CheckpointsCover
  <2>5. OnlyLastReplayed'
    BY <2>1, <2>2 DEF OnlyLastReplayed
  <2> QED
    BY <2>4, <2>5
<1>9. CASE SystemEventAppears
  <2>1. /\ phase = "subscribed" /\ phase' = "subscribed" /\ position' = position + 1
        /\ UNCHANGED <<log, dispatched>> /\ log[position + 1].kind # "domain"
    BY <1>9 DEF SystemEventAppears, Appears, SystemKind
  <2>2. UNCHANGED PositionsOf("domain") /\ UNCHANGED HasCheckpoint
    BY <2>1 DEF PositionsOf, HasCheckpoint
  <2>3. \A p : Covered(p)' <=> Covered(p)
    BY <2>1 DEF Covered, PositionsOf
  <2>4. \A p \in PositionsOf("domain") : p \in Nat /\ (p <= position + 1 => p <= position)
    <3>1. \A p \in PositionsOf("domain") : p \in Nat /\ p # position + 1
      BY <2>1 DEF PositionsOf
    <3> QED
      BY <1>1, <3>1
  <2>5. \A d \in dispatched : d \in Nat
    BY <1>0, CoveredStays
  <2>6. CheckpointsInOrder' => CheckpointsInOrder
    BY <1>0, CoveredStays
  <2>7. CheckpointsCover'
    BY <2>1, <2>2, <2>3, <2>4 DEF CheckpointsCover
  <2>8. OnlyLastReplayed'
    BY <1>1, <2>1, <2>2, <2>4, <2>5, <2>6 DEF OnlyLastReplayed
  <2> QED
    BY <2>7, <2>8
<1>10. CASE CheckpointStored
  <2>1. /\ phase = "storing" /\ phase' = "subscribed" /\ UNCHANGED <<position, dispatched>>
        /\ log' = Append(log, CheckpointEntry(position))
    BY <1>10 DEF CheckpointStored
  <2>2. log'[Len(log) + 1] = CheckpointEntry(position) /\ Len(log') = Len(log) + 1
    BY <1>1, <2>1, EntryTypes, AppendedLog
  <2>3. Len(log) + 1 \in PositionsOf("$checkpoint")' /\ log'[Len(log) + 1].checkpoint = position
    BY <1>1, <2>2 DEF PositionsOf, CheckpointEntry
  <2>4. Covered(position)' /\ HasCheckpoint'
    <3>1. PICK r : r = position
      OBVIOUS
    <3>2. Covered(r)'
      BY <1>1, <2>3, <3>1 DEF Covered
    <3> QED
      BY <2>1, <2>3, <3>1, <3>2 DEF HasCheckpoint, Covered
  <2>5. \A p : Covered(p) \/ p = position => Covered(p)'
    BY <1>0, <2>1, <2>4, CoveredStays
  <2>6. CheckpointsCover'
    BY <1>0, <1>1, <2>1, <2>4, <2>5, CoveredStays DEF CheckpointsCover
  <2>7. OnlyLastReplayed'
    BY <1>0, <1>1, <2>1, CoveredStays DEF OnlyLastReplayed
  <2> QED
    BY <2>6, <2>7
<1> QED
  BY <1>2, <1>3, <1>4, <1>5, <1>6, <1>7, <1>8, <1>9, <1>10, ReadSteps
     DEF Publish, Proceed, Fail, CheckpointStoredLate, StopAndLoseWrites, SaveChanges,
     LoadAndUpdate, WriteFails, readVars, vars

-----------------------------------------------------------------------------
(* One write at a time.                                                     *)

\* What was dispatched decides what is current.
LEMMA CurrentStays ==
  ASSUME LogKept, UNCHANGED dispatched, NEW id
  PROVE  /\ \A document : UpToDate(id, document)' <=> UpToDate(id, document)
         /\ IsRegistered(id)' <=> IsRegistered(id)
         /\ documents'[id] = documents[id] => (Current(id)' <=> Current(id))
<1>1. /\ Told(id, SetsAddress)' = Told(id, SetsAddress)
      /\ Told(id, SetsPhoneNumber)' = Told(id, SetsPhoneNumber)
      /\ \A p \in Told(id, SetsAddress) : log'[p] = log[p]
      /\ \A p \in Told(id, SetsPhoneNumber) : log'[p] = log[p]
  BY ToldGrows
<1>2. ASSUME NEW document
      PROVE  UpToDate(id, document)' <=> UpToDate(id, document)
  BY <1>1 DEF UpToDate, IsLastOf
<1>3. IsRegistered(id)' <=> IsRegistered(id)
  BY SourcesStay
<1>4. CASE documents'[id] = documents[id]
  <2>1. PICK document : document = documents[id]
    OBVIOUS
  <2>2. UpToDate(id, documents[id])' <=> UpToDate(id, document)'
    BY <1>4, <2>1 DEF UpToDate
  <2> QED
    BY <1>2, <1>3, <1>4, <2>1, <2>2 DEF Current
<1> QED
  BY <1>2, <1>3, <1>4

\* A registration that was dispatched last says all of its document.
LEMMA RegistrationIsUpToDate ==
  ASSUME NEW p \in dispatched, IsLastOf(dispatched, p),
         log[p].event.type = "CustomerRegistered"
  PROVE  /\ IsRegistered(log[p].event.customerId)
         /\ UpToDate(log[p].event.customerId, Registration(log[p].event).document)
<1> DEFINE id == log[p].event.customerId
<1>1. /\ p \in Told(id, SetsAddress) /\ p \in Told(id, SetsPhoneNumber)
      /\ p \in Told(id, {"CustomerRegistered"})
  BY DEF Told, SetsAddress, SetsPhoneNumber
<1>2. /\ IsLastOf(Told(id, SetsAddress), p) /\ IsLastOf(Told(id, SetsPhoneNumber), p)
  BY <1>1 DEF IsLastOf, Told
<1>3. /\ Registration(log[p].event).document.address = log[p].event.address
      /\ Registration(log[p].event).document.phoneNumber = log[p].event.phoneNumber
  BY DEF Registration, Saving
<1> QED
  BY <1>1, <1>2, <1>3 DEF IsRegistered, UpToDate

\* A dispatch that comes last changes what is current of its customer, and
\* only of the field that it sets.
LEMMA DispatchedLast ==
  ASSUME NEW p \in Nat, log[p].event \in Event, UNCHANGED log,
         dispatched' = dispatched \cup {p}, \A d \in dispatched : d <= p
  PROVE  /\ IsLastOf(dispatched', p)
         /\ \A id : id # log[p].event.customerId =>
              /\ IsRegistered(id)' <=> IsRegistered(id)
              /\ \A document : UpToDate(id, document) => UpToDate(id, document)'
         /\ log[p].event.type # "CustomerRegistered" =>
              LET id == log[p].event.customerId IN
              /\ IsRegistered(id)' <=> IsRegistered(id)
              /\ \A document \in Document : UpToDate(id, document) =>
                   UpToDate(id, Updated(document, log[p].event))'
<1>1. PICK event : event = log[p].event
  OBVIOUS
<1>2. \A id, types : ~(event.customerId = id /\ event.type \in types) =>
        Told(id, types)' = Told(id, types)
  BY <1>1 DEF Told
<1>3. IsLastOf(dispatched', p)
  BY DEF IsLastOf
<1>4. \A id, types : event.customerId = id /\ event.type \in types =>
        IsLastOf(Told(id, types)', p)
  BY <1>1 DEF Told, IsLastOf
<1>5. ASSUME NEW id, id # event.customerId
      PROVE  /\ IsRegistered(id)' <=> IsRegistered(id)
             /\ \A document : UpToDate(id, document) => UpToDate(id, document)'
  <2>1. IsRegistered(id)' <=> IsRegistered(id)
    BY <1>2, <1>5 DEF IsRegistered
  <2>2. Told(id, SetsAddress)' = Told(id, SetsAddress)
    BY <1>2, <1>5
  <2>3. Told(id, SetsPhoneNumber)' = Told(id, SetsPhoneNumber)
    BY <1>2, <1>5
  <2> QED
    BY <2>1, <2>2, <2>3 DEF UpToDate
<1>6. ASSUME event.type # "CustomerRegistered"
      PROVE  LET id == event.customerId IN
             /\ IsRegistered(id)' <=> IsRegistered(id)
             /\ \A document \in Document : UpToDate(id, document) =>
                  UpToDate(id, Updated(document, event))'
  <2>1. PICK id : id = event.customerId
    OBVIOUS
  <2>2. IsRegistered(id)' <=> IsRegistered(id)
    BY <1>2, <1>6 DEF IsRegistered
  <2>3. ASSUME NEW document \in Document, UpToDate(id, document),
               NEW new, new = Updated(document, event)
        PROVE  UpToDate(id, new)'
    <3>1. CASE event.type = "CustomerRelocated"
      <4>1. new.address = event.address /\ new.phoneNumber = document.phoneNumber
        BY <2>3, <3>1 DEF Updated, Document
      <4>2. IsLastOf(Told(id, SetsAddress)', p)
        BY <1>4, <2>1, <3>1 DEF SetsAddress
      <4>3. Told(id, SetsPhoneNumber)' = Told(id, SetsPhoneNumber)
        BY <1>2, <3>1 DEF SetsPhoneNumber
      <4>4. p \in Told(id, SetsAddress)'
        BY <4>2 DEF IsLastOf
      <4> QED
        BY <1>1, <2>3, <4>1, <4>2, <4>3, <4>4 DEF UpToDate
    <3>2. CASE event.type = "CustomerContactInfoChanged"
      <4>1. new.phoneNumber = event.phoneNumber /\ new.address = document.address
        BY <2>3, <3>2 DEF Updated, Document
      <4>2. IsLastOf(Told(id, SetsPhoneNumber)', p)
        BY <1>4, <2>1, <3>2 DEF SetsPhoneNumber
      <4>3. Told(id, SetsAddress)' = Told(id, SetsAddress)
        BY <1>2, <3>2 DEF SetsAddress
      <4>4. p \in Told(id, SetsPhoneNumber)'
        BY <4>2 DEF IsLastOf
      <4> QED
        BY <1>1, <2>3, <4>1, <4>2, <4>3, <4>4 DEF UpToDate
    <3> QED
      BY <1>1, <1>6, <3>1, <3>2 DEF Event, EventType
  <2> QED
    BY <2>1, <2>2, <2>3
<1>7. \A id : id # log[p].event.customerId =>
              /\ IsRegistered(id)' <=> IsRegistered(id)
              /\ \A document : UpToDate(id, document) => UpToDate(id, document)'
  BY <1>1, <1>5
<1> QED
  BY <1>1, <1>3, <1>6, <1>7

\* The customer of a dispatched event is one of the program's.
LEMMA DispatchedCustomer ==
  ASSUME RegisteredFirst, DispatchedAreEvents, NEW p \in dispatched
  PROVE  log[p].event \in Event /\ log[p].event.customerId \in CustomerId
BY DEF RegisteredFirst, DispatchedAreEvents

\* With no write under way, a dispatch starts the tasks of its event only.
LEMMA OneDispatched ==
  ASSUME IInv, RegisteredFirst, DispatchedAreEvents, ReadTypeOK, OnlyLastReplayed,
         OneWriteAtATime, CheckpointsInOrder, ~overlapped', ~lost,
         EventAppears, Dispatch(log[position + 1].event)
  PROVE  OneWriteAtATime'
<1>1. PICK p : p = position + 1
  OBVIOUS
<1>2. PICK event : event = log[p].event
  OBVIOUS
<1>3. /\ p \in PositionsOf("domain") /\ p \in Nat /\ event \in Event
      /\ event.customerId \in CustomerId /\ phase = "subscribed" /\ position \in Nat
      /\ dispatched' = dispatched \cup {p} /\ UNCHANGED log
  BY <1>1, <1>2, AppearedEvent
<1>4. ~overlapped /\ writes = <<>> /\ UNCHANGED documents
  BY DEF Dispatch
<1>5. \A id \in CustomerId : Current(id)
  BY <1>4 DEF OneWriteAtATime
<1>6. \A d \in dispatched : d <= p
  <2>1. ASSUME NEW d \in dispatched, p < d
        PROVE  FALSE
    BY <1>1, <1>3, <2>1 DEF OnlyLastReplayed
  <2>2. \A d \in dispatched : d \in Nat
    BY DEF IInv, TypeOK
  <2> QED
    BY <1>3, <2>1, <2>2
<1>7. /\ IsLastOf(dispatched', p)
      /\ \A id : id # event.customerId =>
           /\ IsRegistered(id)' <=> IsRegistered(id)
           /\ \A document : UpToDate(id, document) => UpToDate(id, document)'
      /\ event.type # "CustomerRegistered" =>
           /\ IsRegistered(event.customerId)' <=> IsRegistered(event.customerId)
           /\ \A document \in Document : UpToDate(event.customerId, document) =>
                UpToDate(event.customerId, Updated(document, event))'
  BY <1>2, <1>3, <1>6, DispatchedLast
<1>8. ASSUME NEW id \in CustomerId, id # event.customerId
      PROVE  Current(id)'
  <2>1. PICK document : document = documents[id]
    OBVIOUS
  <2>2. UpToDate(id, document)' => UpToDate(id, documents[id])'
    BY <1>4, <2>1 DEF UpToDate
  <2> QED
    BY <1>4, <1>5, <1>7, <1>8, <2>1, <2>2 DEF Current
<1>9. /\ Len(writes') = IF event.type = "CustomerRegistered" THEN 2 ELSE 1
      /\ \A i \in 1..Len(writes') :
           writes'[i] = IF event.type = "CustomerRegistered"
                        THEN Registration(event) ELSE Loading(event)
  <2>1. Len(writes) = 0
    BY <1>4
  <2> QED
    BY <1>1, <1>2, <1>3, <2>1, DispatchAdds
<1>10. WillBeCurrent(event)'
  <2>1. CASE event.type = "CustomerRegistered"
    BY <1>9, <2>1 DEF WillBeCurrent
  <2>2. CASE event.type # "CustomerRegistered"
    <3>1. PICK id : id = event.customerId
      OBVIOUS
    <3>2. Len(writes') = 1 /\ writes'[1] = Loading(event)
      BY <1>9, <2>2
    <3>3. PICK document : document = documents[id]
      OBVIOUS
    <3>4. CASE IsRegistered(id)
      <4>1. document # NoDocument /\ UpToDate(id, document)
        BY <1>3, <1>5, <3>1, <3>3, <3>4 DEF Current
      <4>2. document \in Document
        BY <1>3, <3>1, <3>3, <4>1 DEF ReadTypeOK
      <4>3. PICK new : new = Updated(document, event)
        OBVIOUS
      <4>4. UpToDate(id, new)' /\ IsRegistered(id)'
        BY <1>7, <2>2, <3>1, <3>4, <4>1, <4>2, <4>3
      <4>5. UpToDate(id, Updated(documents[id], event))'
        BY <1>4, <3>3, <4>3, <4>4 DEF UpToDate, Updated
      <4> QED
        BY <1>4, <2>2, <3>1, <3>2, <3>3, <4>1, <4>4, <4>5 DEF WillBeCurrent
    <3>5. CASE ~IsRegistered(id)
      <4>1. documents[id] = NoDocument /\ ~IsRegistered(id)'
        BY <1>3, <1>5, <1>7, <2>2, <3>1, <3>5 DEF Current
      <4> QED
        BY <1>4, <2>2, <3>1, <3>2, <4>1 DEF WillBeCurrent
    <3> QED
      BY <3>4, <3>5
  <2> QED
    BY <2>1, <2>2
<1>11. writes' # <<>>
  BY <1>9
<1>12. p \in dispatched' /\ log'[p].event = event
  BY <1>2, <1>3
<1>13. \A id \in CustomerId \ {log'[p].event.customerId} : Current(id)'
  BY <1>8, <1>12
<1>14. WillBeCurrent(log[p].event)'
  BY <1>10, <1>12 DEF WillBeCurrent
<1> QED
  BY <1>7, <1>11, <1>12, <1>13, <1>14 DEF OneWriteAtATime

\* The task that is left makes the document current.
LEMMA OneSaved ==
  ASSUME IInv, LogKept, RegisteredFirst, DispatchedAreEvents, ReadTypeOK,
         OneWriteAtATime, CheckpointsInOrder, ~overlapped, ~lost,
         NEW k \in 1..Len(writes), SaveChanges(k)
  PROVE  OneWriteAtATime'
<1>1. /\ writes[k].step = "saving" /\ writes' = RemoveAt(writes, k)
      /\ documents' = [documents EXCEPT ![writes[k].id] = writes[k].document]
      /\ UNCHANGED <<log, dispatched, overlapped, lost>>
  BY DEF SaveChanges, vars
<1>2. writes \in Seq(TaskType) /\ writes # <<>>
  BY DEF ReadTypeOK
<1>3. PICK p \in dispatched :
        /\ IsLastOf(dispatched, p)
        /\ \A id \in CustomerId \ {log[p].event.customerId} : Current(id)
        /\ WillBeCurrent(log[p].event)
  BY <1>2 DEF OneWriteAtATime
<1>4. PICK event : event = log[p].event
  OBVIOUS
<1>5. PICK id : id = event.customerId
  OBVIOUS
<1>6. event \in Event /\ id \in CustomerId
  BY <1>4, <1>5, DispatchedCustomer
<1>7. /\ writes[k].id = id /\ writes[k].document \in Document
      /\ IsRegistered(id) /\ UpToDate(id, writes[k].document)
      /\ event.type # "CustomerRegistered" => Len(writes) = 1
  <2>1. writes[k].document \in Document
    BY <1>1, <1>2, TaskKinds
  <2>2. CASE event.type = "CustomerRegistered"
    <3>1. writes[k] = Registration(event)
      BY <1>3, <1>4, <2>2 DEF WillBeCurrent
    <3> QED
      BY <1>3, <1>4, <1>5, <2>1, <2>2, <3>1, RegistrationIsUpToDate DEF Registration, Saving
  <2>3. CASE event.type # "CustomerRegistered"
    <3>1. k = 1 /\ Len(writes) = 1
      <4>1. WillBeCurrent(event)
        BY <1>3, <1>4
      <4>2. Len(writes) = 1
        BY <2>3, <4>1 DEF WillBeCurrent
      <4> QED
        BY <4>2
    <3>2. writes[1] # Loading(event)
      BY <1>1, <3>1 DEF Loading
    <3>3. PICK document \in Document :
            writes[1] = Saving(id, document) /\ IsRegistered(id) /\ UpToDate(id, document)
      BY <1>3, <1>4, <1>5, <2>3, <3>2 DEF WillBeCurrent
    <3> QED
      BY <3>1, <3>3 DEF Saving
  <2> QED
    BY <2>2, <2>3
<1>8. Current(id)'
  <2>1. PICK document : document = writes[k].document
    OBVIOUS
  <2>2. documents'[id] = document /\ document # NoDocument
    BY <1>1, <1>6, <1>7, <2>1, NoDocumentIsNone DEF ReadTypeOK
  <2>3. UpToDate(id, document)' /\ IsRegistered(id)'
    BY <1>1, <1>7, <2>1, CurrentStays
  <2>4. UpToDate(id, documents[id])'
    BY <2>2, <2>3 DEF UpToDate
  <2> QED
    BY <2>2, <2>3, <2>4 DEF Current
<1>9. ASSUME NEW other \in CustomerId, other # id
      PROVE  Current(other)'
  <2>1. documents'[other] = documents[other]
    BY <1>1, <1>7, <1>9 DEF ReadTypeOK
  <2> QED
    BY <1>1, <1>3, <1>4, <1>5, <1>9, <2>1, CurrentStays
<1>10. CASE writes' = <<>>
  BY <1>8, <1>9, <1>10 DEF OneWriteAtATime
<1>11. CASE writes' # <<>>
  <2>1. event.type = "CustomerRegistered"
    <3>1. writes' \in Seq(TaskType) /\ Len(writes') = Len(writes) - 1
      BY <1>1, <1>2, Removed
    <3>2. Len(writes') # 0
      BY <1>11, <3>1, EmptySeq
    <3> QED
      BY <1>7, <3>1, <3>2
  <2>2. \A i \in 1..Len(writes) : writes[i] = Registration(event)
    BY <1>3, <1>4, <2>1 DEF WillBeCurrent
  <2>3. \A j \in 1..Len(writes') : writes'[j] = Registration(event)
    <3>1. \A j \in 1..Len(RemoveAt(writes, k)) :
            \E i \in 1..Len(writes) : RemoveAt(writes, k)[j] = writes[i]
      BY <1>2, Removed
    <3> QED
      BY <1>1, <2>2, <3>1
  <2>4. p \in dispatched' /\ IsLastOf(dispatched', p) /\ log'[p].event = event
    BY <1>1, <1>3, <1>4
  <2>5. WillBeCurrent(log[p].event)'
    BY <2>1, <2>3, <2>4 DEF WillBeCurrent
  <2>6. \A i \in CustomerId \ {log'[p].event.customerId} : Current(i)'
    BY <1>5, <1>9, <2>4
  <2> QED
    BY <1>11, <2>4, <2>5, <2>6 DEF OneWriteAtATime
<1> QED
  BY <1>10, <1>11

\* An update of the last event is saved, or changes nothing.
LEMMA OneLoaded ==
  ASSUME IInv, LogKept, RegisteredFirst, DispatchedAreEvents, ReadTypeOK,
         OneWriteAtATime, CheckpointsInOrder, ~overlapped, ~lost,
         NEW k \in 1..Len(writes), LoadAndUpdate(k)
  PROVE  OneWriteAtATime'
<1>1. /\ writes[k].step = "loading"
      /\ UNCHANGED <<log, dispatched, documents, overlapped, lost>>
  BY DEF LoadAndUpdate, vars
<1>2. writes \in Seq(TaskType) /\ writes # <<>>
  BY DEF ReadTypeOK
<1>3. PICK p \in dispatched :
        /\ IsLastOf(dispatched, p)
        /\ \A id \in CustomerId \ {log[p].event.customerId} : Current(id)
        /\ WillBeCurrent(log[p].event)
  BY <1>2 DEF OneWriteAtATime
<1>4. PICK event : event = log[p].event
  OBVIOUS
<1>5. PICK id : id = event.customerId
  OBVIOUS
<1>6. event \in Event /\ id \in CustomerId
  BY <1>4, <1>5, DispatchedCustomer
<1>7. event.type # "CustomerRegistered"
  <2>1. Registration(event).step = "saving"
    BY DEF Registration, Saving
  <2> QED
    BY <1>1, <1>3, <1>4, <2>1 DEF WillBeCurrent
<1>8. /\ k = 1 /\ Len(writes) = 1
      /\ writes[1] = Loading(event)
      /\ IF IsRegistered(id)
         THEN documents[id] # NoDocument /\ UpToDate(id, Updated(documents[id], event))
         ELSE documents[id] = NoDocument
  <2>1. k = 1 /\ Len(writes) = 1
    <3>1. WillBeCurrent(event)
      BY <1>3, <1>4
    <3>2. Len(writes) = 1
      BY <1>7, <3>1 DEF WillBeCurrent
    <3> QED
      BY <3>2
  <2>2. \A document : writes[1] # Saving(id, document)
    BY <1>1, <2>1 DEF Saving
  <2> QED
    BY <1>3, <1>4, <1>5, <1>7, <2>1, <2>2 DEF WillBeCurrent
<1>9. PICK new : new = Updated(documents[id], event)
  OBVIOUS
<1>10. writes[1].id = id /\ writes[1].event = event
  BY <1>5, <1>8 DEF Loading
<1>11. writes' = IF documents[id] = NoDocument \/ new = documents[id]
                 THEN RemoveAt(writes, 1)
                 ELSE [writes EXCEPT ![1] = Saving(id, new)]
  BY <1>8, <1>9, <1>10 DEF LoadAndUpdate
<1>12. ASSUME NEW other \in CustomerId
       PROVE  Current(other)' <=> Current(other)
  BY <1>1, CurrentStays
<1>13. \A other \in CustomerId : other # id => Current(other)
  BY <1>3, <1>4, <1>5
<1>14. CASE documents[id] = NoDocument \/ new = documents[id]
  <2>1. Current(id)
    BY <1>8, <1>9, <1>14 DEF Current
  <2>2. writes' = <<>>
    <3>1. writes' \in Seq(TaskType) /\ Len(writes') = 0
      BY <1>2, <1>8, <1>11, <1>14, Removed
    <3> QED
      BY <3>1, EmptySeq
  <2> QED
    BY <1>12, <1>13, <2>1, <2>2 DEF OneWriteAtATime
<1>15. CASE ~(documents[id] = NoDocument \/ new = documents[id])
  <2>1. Len(writes') = 1 /\ writes'[1] = Saving(id, new)
    BY <1>2, <1>8, <1>11, <1>15
  <2>2. new \in Document
    BY <1>6, <1>9, <1>15, UpdatedType DEF ReadTypeOK
  <2>3. IsRegistered(id)' /\ UpToDate(id, new)'
    BY <1>1, <1>8, <1>9, <1>15, CurrentStays
  <2>4. p \in dispatched' /\ IsLastOf(dispatched', p) /\ log'[p].event = event
    BY <1>1, <1>3, <1>4
  <2>5. WillBeCurrent(log[p].event)'
    BY <1>5, <1>7, <2>1, <2>2, <2>3, <2>4 DEF WillBeCurrent
  <2>6. \A i \in CustomerId \ {log'[p].event.customerId} : Current(i)'
    BY <1>5, <1>12, <1>13, <2>4
  <2>7. writes' # <<>>
    BY <2>1
  <2> QED
    BY <2>4, <2>5, <2>6, <2>7 DEF OneWriteAtATime
<1> QED
  BY <1>14, <1>15

\* Without an overlap, the tasks of the last dispatched event are all there are.
LEMMA OneWriteStep ==
  ASSUME IInv, RegisteredFirst, DispatchedAreEvents, ReadTypeOK, OnlyLastReplayed,
         OneWriteAtATime, [ReadNext]_readVars
  PROVE  OneWriteAtATime'
<1> SUFFICES ASSUME CheckpointsInOrder', ~overlapped', ~lost'
             PROVE  OneWriteAtATime'
  BY DEF OneWriteAtATime
<1>1. LogKept /\ CheckpointsInOrder
  BY SubscriptionStep, CoveredStays DEF IInv
<1>2. ~overlapped /\ ~lost
  BY ReadSteps DEF Publish, projection, Dispatch, StopAndLoseWrites, SaveChanges,
     LoadAndUpdate, WriteFails, readVars, ReadTypeOK
<1>3. CASE EventAppears /\ Dispatch(log[position + 1].event)
  BY <1>1, <1>2, <1>3, OneDispatched
<1>4. CASE \E k \in 1..Len(writes) : SaveChanges(k) \/ LoadAndUpdate(k)
  BY <1>1, <1>2, <1>4, OneSaved, OneLoaded
<1>5. CASE UNCHANGED <<documents, writes, dispatched>>
  <2>1. ASSUME NEW id
        PROVE  Current(id)' <=> Current(id)
    BY <1>1, <1>5, CurrentStays
  <2>2. CASE writes = <<>>
    BY <1>1, <1>2, <1>5, <2>1, <2>2 DEF OneWriteAtATime
  <2>3. CASE writes # <<>>
    <3>1. PICK p \in dispatched :
            /\ IsLastOf(dispatched, p)
            /\ \A id \in CustomerId \ {log[p].event.customerId} : Current(id)
            /\ WillBeCurrent(log[p].event)
      BY <1>1, <1>2, <2>3 DEF OneWriteAtATime
    <3>2. log'[p] = log[p] /\ p \in dispatched' /\ IsLastOf(dispatched', p)
      BY <1>1, <1>5, <3>1 DEF LogKept
    <3>3. PICK event : event = log[p].event
      OBVIOUS
    <3>4. PICK id : id = event.customerId
      OBVIOUS
    <3>5. /\ IsRegistered(id)' <=> IsRegistered(id)
          /\ \A document : UpToDate(id, document)' <=> UpToDate(id, document)
      BY <1>1, <1>5, CurrentStays
    <3>6. PICK new : new = Updated(documents[id], event)
      OBVIOUS
    <3>7. UpToDate(id, Updated(documents[id], event))' <=> UpToDate(id, new)'
      BY <1>5, <3>6 DEF UpToDate, Updated
    <3>8. WillBeCurrent(event)' <=> WillBeCurrent(event)
      BY <1>5, <3>4, <3>5, <3>6, <3>7 DEF WillBeCurrent
    <3>9. WillBeCurrent(log[p].event)' <=> WillBeCurrent(event)'
      BY <3>2, <3>3 DEF WillBeCurrent
    <3> QED
      BY <1>5, <2>1, <2>3, <3>1, <3>2, <3>3, <3>8, <3>9 DEF OneWriteAtATime
  <2> QED
    BY <2>2, <2>3
<1>6. CASE StopAndLoseWrites
  BY <1>2, <1>5, <1>6 DEF StopAndLoseWrites, Stop, ReadTypeOK
<1> QED
  BY <1>3, <1>4, <1>5, <1>6, DispatchedStep, ReadSteps
     DEF Publish, projection, WriteFails, readVars, vars

-----------------------------------------------------------------------------
(* Documents at rest.                                                       *)

\* The last place with an event of some types is where Latest finds its value.
LEMMA LatestOfHistory ==
  ASSUME TypeOK, RegisteredFirst, NEW id, NEW types, NEW values, NEW value,
         NEW p \in PlacesOf(id), log[p].event.type \in types,
         \A q \in PlacesOf(id) : log[q].event.type \in types => q <= p
  PROVE  LET r == Rank(PlacesOf(id), p) IN
         /\ r \in 1..Len(HistoryOf(id))
         /\ HistoryOf(id)[r] = log[p].event
         /\ Latest(HistoryOf(id), types, values, value) = values[r]
<1> DEFINE S == PlacesOf(id)
           r == Rank(S, p)
           past == HistoryOf(id)
<1>1. /\ S \subseteq Nat /\ IsFiniteSet(S) /\ Len(past) = Cardinality(S)
      /\ \A n \in 1..Len(past) : Nth(S, n) \in S /\ past[n] = log[Nth(S, n)].event
      /\ Len(past) \in Nat
  BY HistoryFacts
<1>2. /\ \A n \in 1..Len(past) : Rank(S, Nth(S, n)) = n
      /\ \A q \in S : Nth(S, Rank(S, q)) = q /\ Rank(S, q) \in 1..Len(past)
  BY <1>1, NthEnumerates, RankType
<1>3. r \in 1..Len(past) /\ past[r] = log[p].event
  BY <1>1, <1>2
<1> HIDE DEF past
<1>4. ASSUME NEW j \in 1..Len(past), j > r
      PROVE  past[j].type \notin types
  <2> SUFFICES ASSUME past[j].type \in types
               PROVE  FALSE
    OBVIOUS
  <2>1. PICK q \in S : q = Nth(S, j)
    BY <1>1
  <2>2. q <= p
    BY <1>1, <2>1
  <2>3. Rank(S, q) = j
    BY <1>2, <2>1
  <2>4. p \in Nat /\ q \in Nat
    BY <1>1
  <2>5. r \in Nat /\ j \in Nat
    BY <1>1, <1>3
  <2>6. CASE q = p
    BY <1>4, <2>3, <2>5, <2>6
  <2>7. CASE q < p
    <3>1. Rank(S, q) < Rank(S, p)
      BY <1>1, <2>7, RankGrows
    <3> QED
      BY <1>4, <2>3, <2>5, <3>1
  <2> QED
    BY <2>2, <2>4, <2>6, <2>7
<1>5. IsLatest(past, types, r)
  BY <1>3, <1>4 DEF IsLatest
<1>6. \A i \in 1..Len(past) : IsLatest(past, types, i) => i = r
  <2> SUFFICES ASSUME NEW i \in 1..Len(past), IsLatest(past, types, i)
               PROVE  i = r
    OBVIOUS
  <2>1. ~(i > r) /\ ~(r > i)
    BY <1>3, <1>5 DEF IsLatest
  <2> QED
    BY <1>1, <1>3, <2>1
<1> HIDE DEF r
<1>7. (CHOOSE i \in 1..Len(past) : IsLatest(past, types, i)) = r
  BY <1>3, <1>5, <1>6
<1>8. Latest(past, types, values, value) = values[r]
  BY <1>3, <1>5, <1>7 DEF Latest
<1> QED
  BY <1>3, <1>8 DEF r, past

\* At rest everything was dispatched.
LEMMA AllTold ==
  ASSUME ReadInv, AtRest, NEW id, NEW types
  PROVE  Told(id, types) = {p \in PlacesOf(id) : log[p].event.type \in types}
<1>1. DispatchedUpTo(Len(log))
  BY DEF ReadInv, IInv, ResumesAreSafe, AtRest
<1>2. \A p \in 1..Len(log) : p <= Len(log)
  BY DEF ReadInv, IInv, TypeOK
<1>3. dispatched = PositionsOf("domain")
  BY <1>1, <1>2 DEF DispatchedUpTo, ReadInv, DispatchedAreEvents, PositionsOf
<1> QED
  BY <1>3 DEF Told, PlacesOf

\* A registered customer's history begins with its registration.
LEMMA RegisteredExpected ==
  ASSUME ReadInv, AtRest, NEW id
  PROVE  IsRegistered(id) <=>
           HistoryOf(id) # <<>> /\ HistoryOf(id)[1].type = "CustomerRegistered"
<1> DEFINE S == PlacesOf(id)
<1>1. /\ S \subseteq Nat /\ IsFiniteSet(S) /\ Len(HistoryOf(id)) = Cardinality(S)
      /\ \A n \in 1..Len(HistoryOf(id)) :
           Nth(S, n) \in S /\ HistoryOf(id)[n] = log[Nth(S, n)].event
      /\ HistoryOf(id) \in Seq(Event)
  BY HistoryFacts DEF ReadInv, IInv
<1>2. Told(id, {"CustomerRegistered"}) =
        {p \in S : log[p].event.type = "CustomerRegistered"}
  BY AllTold
<1>3. ASSUME HistoryOf(id) # <<>>, HistoryOf(id)[1].type = "CustomerRegistered"
      PROVE  IsRegistered(id)
  <2>1. 1 \in 1..Len(HistoryOf(id))
    BY <1>1, <1>3
  <2>2. Nth(S, 1) \in S /\ log[Nth(S, 1)].event.type = "CustomerRegistered"
    BY <1>1, <1>3, <2>1
  <2> QED
    BY <1>2, <2>2 DEF IsRegistered
<1>4. ASSUME IsRegistered(id)
      PROVE  HistoryOf(id) # <<>> /\ HistoryOf(id)[1].type = "CustomerRegistered"
  <2>1. PICK p \in S : log[p].event.type = "CustomerRegistered"
    BY <1>2, <1>4 DEF IsRegistered
  <2>2. p \in PositionsOf("domain") /\ log[p].event.customerId = id
    BY <2>1 DEF PlacesOf
  <2>3. \A q \in S : p <= q
    BY <2>1, <2>2 DEF ReadInv, RegisteredFirst
  <2>4. {q \in S : q <= p} = {p}
    <3>1. \A q \in S : q <= p => q = p
      BY <1>1, <2>3
    <3> QED
      BY <1>1, <2>1, <3>1
  <2>5. Rank(S, p) = 1
    BY <2>4, FS_Singleton DEF Rank
  <2>6. 1 \in 1..Cardinality(S) /\ Nth(S, 1) = p
    BY <1>1, <2>1, <2>5, RankType, NthEnumerates
  <2> QED
    BY <1>1, <2>1, <2>6
<1> QED
  BY <1>3, <1>4

\* At rest every task has saved its document.
LEMMA RestIsExact ==
  ASSUME ReadInv
  PROVE  ExactlyTheRegistered
<1> SUFFICES ASSUME AtRest, ~lost, NEW id \in CustomerId
             PROVE  documents[id] = NoDocument <=> Expected(id) = NoDocument
  BY DEF ExactlyTheRegistered
<1>1. documents[id] # NoDocument <=> IsRegistered(id)
  BY DEF ReadInv, DocumentsSourced, RegistrationsKept, AtRest
<1>2. \A address, phoneNumber :
        [address |-> address, phoneNumber |-> phoneNumber] # NoDocument
  BY DEF NoDocument
<1>3. Expected(id) # NoDocument <=> IsRegistered(id)
  BY <1>2, RegisteredExpected DEF Expected
<1> QED
  BY <1>1, <1>3

\* At rest every document is of the last events of its customer, as After is.
LEMMA RestIsConsistent ==
  ASSUME ReadInv
  PROVE  ConsistentUnlessOverlapped
<1> SUFFICES ASSUME AtRest, ~overlapped, ~lost, CheckpointsInOrder, NEW id \in CustomerId
             PROVE  documents[id] = Expected(id)
  BY DEF ConsistentUnlessOverlapped
<1>1. Current(id)
  BY DEF ReadInv, OneWriteAtATime, AtRest
<1>2. CASE ~IsRegistered(id)
  BY <1>1, <1>2, RegisteredExpected DEF Current, Expected
<1>3. CASE IsRegistered(id)
  <2> DEFINE past == HistoryOf(id)
             document == documents[id]
  <2>0. TypeOK /\ RegisteredFirst
    BY DEF ReadInv, IInv
  <2>1. document \in Document
    BY <1>1, <1>3 DEF Current, ReadInv, ReadTypeOK
  <2>2. Latest(past, SetsAddress, AddressesOf(past), Blank) = document.address
    <3>1. PICK p \in Told(id, SetsAddress) :
            IsLastOf(Told(id, SetsAddress), p) /\ log[p].event.address = document.address
      BY <1>1, <1>3 DEF Current, UpToDate
    <3>2. /\ p \in PlacesOf(id) /\ log[p].event.type \in SetsAddress
          /\ \A q \in PlacesOf(id) : log[q].event.type \in SetsAddress => q <= p
      BY <3>1, AllTold DEF IsLastOf
    <3> DEFINE r == Rank(PlacesOf(id), p)
    <3>3. /\ r \in 1..Len(past) /\ past[r] = log[p].event
          /\ Latest(past, SetsAddress, AddressesOf(past), Blank) = AddressesOf(past)[r]
      <4>1. PICK values : values = AddressesOf(past)
        OBVIOUS
      <4>2. \A q \in PlacesOf(id) : log[q].event.type \in SetsAddress => q <= p
        BY <3>2
      <4>3. p \in PlacesOf(id) /\ log[p].event.type \in SetsAddress
        BY <3>2
      <4>4. r \in 1..Len(past)
        BY <2>0, <4>2, <4>3, LatestOfHistory
      <4>5. past[r] = log[p].event
        BY <2>0, <4>2, <4>3, LatestOfHistory
      <4>6. Latest(past, SetsAddress, values, Blank) = values[r]
        BY <2>0, <4>2, <4>3, LatestOfHistory
      <4> QED
        BY <4>1, <4>4, <4>5, <4>6
    <3> HIDE DEF r, past
    <3> QED
      BY <3>1, <3>3 DEF AddressesOf
  <2>3. Latest(past, SetsPhoneNumber, PhoneNumbersOf(past), Blank) = document.phoneNumber
    <3>1. PICK p \in Told(id, SetsPhoneNumber) :
            /\ IsLastOf(Told(id, SetsPhoneNumber), p)
            /\ log[p].event.phoneNumber = document.phoneNumber
      BY <1>1, <1>3 DEF Current, UpToDate
    <3>2. /\ p \in PlacesOf(id) /\ log[p].event.type \in SetsPhoneNumber
          /\ \A q \in PlacesOf(id) : log[q].event.type \in SetsPhoneNumber => q <= p
      BY <3>1, AllTold DEF IsLastOf
    <3> DEFINE r == Rank(PlacesOf(id), p)
    <3>3. /\ r \in 1..Len(past) /\ past[r] = log[p].event
          /\ Latest(past, SetsPhoneNumber, PhoneNumbersOf(past), Blank) = PhoneNumbersOf(past)[r]
      <4>1. PICK values : values = PhoneNumbersOf(past)
        OBVIOUS
      <4>2. \A q \in PlacesOf(id) : log[q].event.type \in SetsPhoneNumber => q <= p
        BY <3>2
      <4>3. p \in PlacesOf(id) /\ log[p].event.type \in SetsPhoneNumber
        BY <3>2
      <4>4. r \in 1..Len(past)
        BY <2>0, <4>2, <4>3, LatestOfHistory
      <4>5. past[r] = log[p].event
        BY <2>0, <4>2, <4>3, LatestOfHistory
      <4>6. Latest(past, SetsPhoneNumber, values, Blank) = values[r]
        BY <2>0, <4>2, <4>3, LatestOfHistory
      <4> QED
        BY <4>1, <4>4, <4>5, <4>6
    <3> HIDE DEF r, past
    <3> QED
      BY <3>1, <3>3 DEF PhoneNumbersOf
  <2>4. /\ After(NewState(id), past).address = document.address
        /\ After(NewState(id), past).phoneNumber = document.phoneNumber
    BY <2>2, <2>3 DEF After, NewState
  <2>5. Expected(id) = [address |-> document.address, phoneNumber |-> document.phoneNumber]
    BY <1>3, <2>4, RegisteredExpected DEF Expected
  <2> QED
    BY <2>1, <2>5 DEF Document
<1> QED
  BY <1>2, <1>3

-----------------------------------------------------------------------------
(* Theorems.                                                                *)

\* Initially nothing is stored, dispatched or under way.
LEMMA ReadInitInvariant == ReadInit => ReadInv
<1> SUFFICES ASSUME ReadInit
             PROVE  ReadInv
  OBVIOUS
<1>1. IInv
  BY InitInvariant DEF ReadInit
<1>2. /\ log = <<>> /\ dispatched = {} /\ phase = "stopped" /\ writes = <<>>
      /\ documents = [id \in CustomerId |-> NoDocument]
      /\ overlapped = FALSE /\ lost = FALSE
  BY DEF ReadInit, Init
<1>3. \A kind : PositionsOf(kind) = {}
  BY <1>2 DEF PositionsOf
<1>4. ReadTypeOK
  <2>1. writes \in Seq(TaskType)
    BY <1>2
  <2>2. documents \in [CustomerId -> Document \cup {NoDocument}]
    BY <1>2
  <2> QED
    BY <1>2, <2>1, <2>2 DEF ReadTypeOK
<1>5. /\ RegisteredFirst /\ DispatchedAreEvents /\ TasksAreSourced /\ DocumentsSourced
      /\ CheckpointsCover /\ OnlyLastReplayed
  BY <1>2, <1>3 DEF RegisteredFirst, DispatchedAreEvents, TasksAreSourced,
     DocumentsSourced, CheckpointsCover, OnlyLastReplayed
<1>6. \A id : ~IsRegistered(id)
  BY <1>2 DEF IsRegistered, Told
<1>7. RegistrationsKept /\ OneWriteAtATime
  BY <1>2, <1>6 DEF RegistrationsKept, OneWriteAtATime, Current
<1> QED
  BY <1>1, <1>4, <1>5, <1>7 DEF ReadInv

\* Every step of the read side, the write side's commands and its own tasks,
\* the failures of both, keeps the invariant.
THEOREM ReadInvariant == ReadSpec => []ReadInv
<1>1. ReadInit => ReadInv
  BY ReadInitInvariant
<1>2. ReadInv /\ [ReadNext]_readVars => ReadInv'
  <2> SUFFICES ASSUME ReadInv, [ReadNext]_readVars
               PROVE  ReadInv'
    OBVIOUS
  <2> USE DEF ReadInv
  <2>1. IInv' /\ RegisteredFirst'
    BY SubscriptionStep, RegisteredStep
  <2>2. ReadTypeOK' /\ DispatchedAreEvents' /\ TasksAreSourced'
    BY ReadTypeStep, DispatchedStep, TasksSourcedStep
  <2>3. DocumentsSourced' /\ RegistrationsKept'
    BY DocumentsSourcedStep, RegistrationsKeptStep
  <2>4. CheckpointsCover' /\ OnlyLastReplayed' /\ OneWriteAtATime'
    BY CheckpointsCoverStep, OneWriteStep
  <2> QED
    BY <2>1, <2>2, <2>3, <2>4
<1> QED
  BY <1>1, <1>2, PTL DEF ReadSpec

\* The documents, the tasks of CustomerEventListener and the two flags keep
\* their types.
THEOREM ReadTypeCorrect == ReadSpec => []ReadTypeOK
<1>1. ReadInv => ReadTypeOK
  BY DEF ReadInv
<1> QED
  BY <1>1, ReadInvariant, PTL

\* What the subscription promises alone it keeps while the write side stores
\* its events and the listeners run: it skips no event, dispatches in order and
\* stores no checkpoint for a checkpoint (EventAppeared, GetCheckpoint).
THEOREM SubscriptionInside ==
  ReadSpec => [](TypeOK /\ NothingSkipped /\ DispatchedInOrder /\ NoFeedback)
<1>1. ReadInv => TypeOK /\ NothingSkipped /\ DispatchedInOrder /\ NoFeedback
  BY DEF ReadInv, IInv, ResumesAreSafe, NothingSkipped, IsLastCheckpoint
<1> QED
  BY <1>1, ReadInvariant, PTL

\* However the tasks of CustomerEventListener race, what a document says was
\* said by dispatched events of its own customer.
THEOREM Sourced == ReadSpec => []DocumentsAreSourced
<1>1. ReadInv => DocumentsAreSourced
  BY DEF ReadInv, DocumentsSourced, SourcedBy, Told, DocumentsAreSourced
<1> QED
  BY <1>1, ReadInvariant, PTL

\* At rest there is a document for every registered customer, and for no other,
\* unless a write of CustomerEventListener was lost.
THEOREM OnlyRegistered == ReadSpec => []ExactlyTheRegistered
<1>1. ReadInv => ExactlyTheRegistered
  BY RestIsExact
<1> QED
  BY <1>1, ReadInvariant, PTL

\* At rest the documents of RaventDbAtomicWriter are what the aggregates have
\* become, if no write was lost, none overlapped the next dispatch and no late
\* checkpoint took the subscription back.
THEOREM Consistent == ReadSpec => []ConsistentUnlessOverlapped
<1>1. ReadInv => ConsistentUnlessOverlapped
  BY RestIsConsistent
<1> QED
  BY <1>1, ReadInvariant, PTL

-----------------------------------------------------------------------------
(* What listeners see: the subscription implements AtLeastOnce.             *)

LEMMA PositionsAreFinite ==
  ASSUME NEW n \in Nat, NEW S \in SUBSET (1..n)
  PROVE  IsFiniteSet(S) /\ Cardinality(S) \in Nat /\ S \subseteq Nat
<1>1. IsFiniteSet(1..n)
  BY FS_Interval
<1>2. IsFiniteSet(S)
  BY <1>1, FS_Subset
<1> QED
  BY <1>2, FS_CardinalityType

\* The events up to a position, and those dispatched, are finitely many.
LEMMA EventsAreFinite ==
  ASSUME IInv, DispatchedAreEvents
  PROVE  /\ IsFiniteSet(PositionsOf("domain")) /\ PositionsOf("domain") \subseteq Nat
         /\ IsFiniteSet(DomainUpTo(position)) /\ IsFiniteSet(dispatched)
         /\ Cardinality(PositionsOf("domain")) \in Nat
         /\ Cardinality(DomainUpTo(position)) \in Nat
         /\ Cardinality(dispatched) \in Nat
<1>1. PICK n \in Nat : n = Len(log)
  BY DEF IInv, TypeOK
<1>2. PositionsOf("domain") \in SUBSET (1..n)
  BY <1>1 DEF PositionsOf
<1>3. DomainUpTo(position) \in SUBSET (1..n) /\ dispatched \in SUBSET (1..n)
  BY <1>2 DEF DomainUpTo, DispatchedAreEvents
<1> QED
  BY <1>2, <1>3, PositionsAreFinite

\* The subscription begins as AtLeastOnce does.
LEMMA InitMaps == ASSUME Init PROVE Abstract!Init
<1>1. PositionsOf("domain") = {} /\ dispatched = {}
  BY DEF Init, PositionsOf
<1>2. DomainUpTo(position) = {}
  BY <1>1 DEF DomainUpTo
<1> QED
  BY <1>1, <1>2, FS_EmptySet DEF Abstract!Init

\* More entries are events stored, or nothing to a listener.
LEMMA GrowthMaps ==
  ASSUME IInv, DispatchedAreEvents, IInv', DispatchedAreEvents', LogKept,
         position' = position, dispatched' = dispatched
  PROVE  [Abstract!Next]_(Abstract!vars)
<1>1. PositionsOf("domain") \in SUBSET PositionsOf("domain")'
  BY DEF LogKept, PositionsOf
<1>2. position \in Nat /\ position <= Len(log)
  BY DEF IInv, TypeOK
<1>3. DomainUpTo(position)' = DomainUpTo(position)
  <2>1. ASSUME NEW q \in PositionsOf("domain")', q <= position
        PROVE  q \in PositionsOf("domain")
    BY <1>2, <2>1 DEF LogKept, PositionsOf
  <2> QED
    BY <1>1, <2>1 DEF DomainUpTo
<1>4. /\ IsFiniteSet(PositionsOf("domain")')
      /\ Cardinality(PositionsOf("domain")) \in Nat
      /\ Cardinality(PositionsOf("domain")') \in Nat
  <2>1. Cardinality(PositionsOf("domain")) \in Nat
    BY EventsAreFinite
  <2>2. PICK n \in Nat : n = Len(log')
    BY DEF LogKept
  <2>3. PositionsOf("domain")' \in SUBSET (1..n)
    BY <2>2 DEF PositionsOf
  <2> QED
    BY <2>1, <2>3, PositionsAreFinite
<1>5. Cardinality(PositionsOf("domain")) <= Cardinality(PositionsOf("domain")')
  BY <1>1, <1>4, FS_Subset
<1>6. Cardinality(DomainUpTo(position))' = Cardinality(DomainUpTo(position))
  BY <1>3
<1>7. CASE Cardinality(PositionsOf("domain")') = Cardinality(PositionsOf("domain"))
  BY <1>6, <1>7 DEF Abstract!vars
<1>8. CASE Cardinality(PositionsOf("domain")') # Cardinality(PositionsOf("domain"))
  BY <1>4, <1>5, <1>6, <1>8 DEF Abstract!Next, Abstract!Store
<1> QED
  BY <1>7, <1>8

\* Where everything was dispatched, the subscription may go on.
LEMMA ResumeMaps ==
  ASSUME IInv, DispatchedAreEvents, IInv', DispatchedAreEvents',
         PositionsOf("domain")' = PositionsOf("domain"), dispatched' = dispatched,
         DispatchedUpTo(position)'
  PROVE  [Abstract!Next]_(Abstract!vars)
<1>1. DomainUpTo(position)' \in SUBSET dispatched'
  BY DEF DomainUpTo, DispatchedUpTo, PositionsOf
<1>2. IsFiniteSet(dispatched') /\ Cardinality(DomainUpTo(position)') \in Nat
      /\ Cardinality(dispatched') \in Nat
  <2>1. PICK n \in Nat : n = Len(log')
    BY DEF IInv, TypeOK
  <2>2. dispatched' \in SUBSET (1..n)
    BY <2>1 DEF DispatchedAreEvents, PositionsOf
  <2> QED
    BY <1>1, <2>2, PositionsAreFinite
<1>3. Cardinality(DomainUpTo(position)') <= Cardinality(dispatched')
  BY <1>1, <1>2, FS_Subset
<1> QED
  BY <1>2, <1>3 DEF Abstract!Next, Abstract!Resume

\* The dispatch of an event hands it over, for the first time only if
\* nothing behind it was dispatched.
LEMMA HandOverMaps ==
  ASSUME IInv, DispatchedAreEvents, EventAppears
  PROVE  [Abstract!Next]_(Abstract!vars)
<1>1. /\ position < Len(log) /\ log[position + 1].kind = "domain" /\ position \in Nat
      /\ Len(log) \in Nat /\ log' = log /\ position' = position + 1
      /\ dispatched' = dispatched \cup {position + 1} /\ phase = "subscribed"
  BY DEF EventAppears, Appears, IInv, TypeOK
<1>2. PICK p \in Nat : p = position + 1
  BY <1>1
<1>3. p \in PositionsOf("domain") /\ PositionsOf("domain")' = PositionsOf("domain")
  BY <1>1, <1>2 DEF PositionsOf
<1>4. DomainUpTo(position)' = DomainUpTo(position) \cup {p} /\ p \notin DomainUpTo(position)
  <2>1. PositionsOf("domain") \subseteq Nat
    BY EventsAreFinite
  <2> QED
    BY <1>1, <1>2, <1>3, <2>1 DEF DomainUpTo
<1>5. /\ IsFiniteSet(DomainUpTo(position)) /\ IsFiniteSet(dispatched)
      /\ IsFiniteSet(PositionsOf("domain"))
      /\ Cardinality(DomainUpTo(position)) \in Nat /\ Cardinality(dispatched) \in Nat
      /\ Cardinality(PositionsOf("domain")) \in Nat
  BY EventsAreFinite
<1>6. Cardinality(DomainUpTo(position)') = Cardinality(DomainUpTo(position)) + 1
  BY <1>4, <1>5, FS_AddElement
<1>7. Cardinality(DomainUpTo(position)) < Cardinality(PositionsOf("domain"))
  <2>1. DomainUpTo(position) \in SUBSET PositionsOf("domain")
        /\ DomainUpTo(position) # PositionsOf("domain")
    BY <1>3, <1>4 DEF DomainUpTo
  <2>2. /\ Cardinality(DomainUpTo(position)) <= Cardinality(PositionsOf("domain"))
        /\ Cardinality(PositionsOf("domain")) # Cardinality(DomainUpTo(position))
    BY <1>5, <2>1, FS_Subset
  <2> QED
    BY <1>5, <2>2
<1>8. CASE p \in dispatched
  <2>1. DomainUpTo(position)' \in SUBSET dispatched
    <3>1. DispatchedUpTo(p)
      BY <1>8 DEF IInv, DispatchedInOrder
    <3> QED
      BY <1>1, <1>2, <1>3, <3>1 DEF DomainUpTo, DispatchedUpTo, PositionsOf
  <2>2. Cardinality(DomainUpTo(position)') <= Cardinality(dispatched)
    BY <1>5, <2>1, FS_Subset
  <2>3. dispatched' = dispatched
    BY <1>1, <1>2, <1>8
  <2>4. Cardinality(DomainUpTo(position)) < Cardinality(dispatched)
    BY <1>5, <1>6, <2>2
  <2> QED
    BY <1>3, <1>6, <1>7, <2>3, <2>4 DEF Abstract!Next, Abstract!HandOver
<1>9. CASE p \notin dispatched
  <2>1. dispatched = DomainUpTo(position)
    <3>1. DispatchedUpTo(position)
      BY <1>1 DEF IInv, ResumesAreSafe
    <3>2. ASSUME NEW d \in dispatched PROVE d <= position
      <4>1. d \in PositionsOf("domain") /\ d \in Nat /\ d \in 1..Len(log)
        BY EventsAreFinite DEF DispatchedAreEvents, PositionsOf
      <4>2. DispatchedUpTo(d)
        BY DEF IInv, DispatchedInOrder
      <4>3. ~(p <= d)
        BY <1>3, <1>9, <4>1, <4>2 DEF DispatchedUpTo, PositionsOf
      <4> QED
        BY <1>1, <1>2, <4>1, <4>3
    <3> QED
      BY <3>1, <3>2 DEF DomainUpTo, DispatchedUpTo, PositionsOf, DispatchedAreEvents
  <2>2. dispatched' = DomainUpTo(position)'
    BY <1>1, <1>2, <1>4, <2>1
  <2>3. ~(Cardinality(DomainUpTo(position)) < Cardinality(dispatched))
    BY <1>5, <2>1
  <2>4. Cardinality(dispatched') = Cardinality(DomainUpTo(position)) + 1
    BY <1>6, <2>2
  <2> QED
    BY <1>3, <1>6, <1>7, <2>3, <2>4 DEF Abstract!Next, Abstract!HandOver
<1> QED
  BY <1>8, <1>9

\* Only events are dispatched, by the subscription alone.
LEMMA OnlyEventsDispatched ==
  ASSUME IInv, DispatchedAreEvents, [Next]_vars
  PROVE  DispatchedAreEvents'
<1>1. PositionsOf("domain") \subseteq PositionsOf("domain")'
  BY PositionsStable
<1>2. CASE EventAppears
  <2>1. position + 1 \in PositionsOf("domain") /\ dispatched' = dispatched \cup {position + 1}
    BY <1>2 DEF EventAppears, Appears, PositionsOf, IInv, TypeOK
  <2> QED
    BY <1>1, <2>1 DEF DispatchedAreEvents
<1>3. CASE dispatched' = dispatched
  BY <1>1, <1>3 DEF DispatchedAreEvents
<1> QED
  BY <1>2, <1>3 DEF Next, Proceed, Fail, Record, Start, Resume, Initialise, StartStored,
     SetStreamMaxCount, SystemEventAppears, ForeignEventAppears, CheckpointStored, Drop,
     StartFails, CheckpointStoredLate, Stop, vars

\* Every step of the subscription.
LEMMA SubscriptionMaps ==
  ASSUME IInv, DispatchedAreEvents, EventAppears \/ Proceed \/ Fail \/ Stop
  PROVE  [Abstract!Next]_(Abstract!vars)
<1>1. [Next]_vars
  BY DEF Next
<1>2. /\ IInv' /\ LogKept /\ PositionsOf("domain")' = PositionsOf("domain")
      /\ DispatchedAreEvents'
  BY <1>1, SubscriptionStores, OnlyEventsDispatched
<1>3. CASE EventAppears
  BY <1>3, HandOverMaps
<1>4. CASE position' = position /\ dispatched' = dispatched
  BY <1>2, <1>4, GrowthMaps
<1>5. CASE DispatchedUpTo(position)' /\ dispatched' = dispatched
  BY <1>2, <1>5, ResumeMaps
<1>6. position' = AllStart => DispatchedUpTo(position)'
  BY DEF DispatchedUpTo, AllStart
<1>7. CASE Proceed
  <2>1. \/ position' = position
        \/ position' = AllStart
        \/ phase' = "subscribed"
    BY <1>7 DEF Proceed, Start, Resume, Initialise, StartStored, SetStreamMaxCount,
       SystemEventAppears, ForeignEventAppears, CheckpointStored, Appears
  <2>2. dispatched' = dispatched
    BY <1>7 DEF Proceed, Start, Resume, Initialise, StartStored, SetStreamMaxCount,
       SystemEventAppears, ForeignEventAppears, CheckpointStored
  <2>3. phase' = "subscribed" => DispatchedUpTo(position)'
    BY <1>2 DEF IInv, ResumesAreSafe
  <2> QED
    BY <1>4, <1>5, <1>6, <2>1, <2>2, <2>3
<1>8. CASE Fail \/ Stop
  <2>1. dispatched' = dispatched /\ position' \in {position, AllStart}
    BY <1>8 DEF Fail, Drop, StartFails, CheckpointStoredLate, Stop, Abandon
  <2> QED
    BY <1>4, <1>5, <1>6, <2>1
<1> QED
  BY <1>3, <1>7, <1>8

\* Whatever becomes of checkpoints, connections and processes, the listeners
\* see no more than an at-least-once delivery in the order of $all
\* (SubscriptionIntegrator with EsCheckpointStore).
THEOREM Delivery == Spec => ImplementsAtLeastOnce
<1>1. Init => Abstract!Init
  BY InitMaps
<1>2. Init => DispatchedAreEvents
  BY DEF Init, DispatchedAreEvents
<1>3. IInv /\ DispatchedAreEvents /\ [Next]_vars => DispatchedAreEvents'
  BY OnlyEventsDispatched
<1>4. IInv /\ IInv' /\ DispatchedAreEvents /\ DispatchedAreEvents' /\ [Next]_vars
        => [Abstract!Next]_(Abstract!vars)
  <2> SUFFICES ASSUME IInv, IInv', DispatchedAreEvents, DispatchedAreEvents', [Next]_vars
               PROVE  [Abstract!Next]_(Abstract!vars)
    OBVIOUS
  <2>1. CASE EventAppears \/ Proceed \/ Fail \/ Stop
    BY <2>1, SubscriptionMaps
  <2>2. CASE (\E entry \in Entry : Record(entry)) \/ UNCHANGED vars
    <3>1. position' = position /\ dispatched' = dispatched
      BY <2>2 DEF Record, vars
    <3>2. LogKept
      BY LogGrows DEF LogKept, IInv, TypeOK
    <3> QED
      BY <3>1, <3>2, GrowthMaps
  <2> QED
    BY <2>1, <2>2 DEF Next
<1> QED
  BY <1>1, <1>2, <1>3, <1>4, Invariant, PTL DEF Spec, ImplementsAtLeastOnce, Abstract!Spec

\* The same, with the write side's commands and the listeners' tasks beside it:
\* each listener of Dispatch may rely on it.
THEOREM DeliveryToListeners == ReadSpec => ImplementsAtLeastOnce
<1>1. ReadInit => Abstract!Init
  BY InitMaps DEF ReadInit
<1>2. ReadInv /\ ReadInv' /\ [ReadNext]_readVars => [Abstract!Next]_(Abstract!vars)
  <2> SUFFICES ASSUME ReadInv, ReadInv', [ReadNext]_readVars
               PROVE  [Abstract!Next]_(Abstract!vars)
    OBVIOUS
  <2>1. /\ IInv /\ DispatchedAreEvents /\ RegisteredFirst /\ ReadTypeOK
        /\ IInv' /\ DispatchedAreEvents'
    BY DEF ReadInv
  <2>2. LogKept
    BY <2>1, SubscriptionStep
  <2>3. CASE EventAppears \/ Proceed \/ Fail \/ Stop
    BY <2>1, <2>3, SubscriptionMaps
  <2>4. CASE position' = position /\ dispatched' = dispatched
    BY <2>1, <2>2, <2>4, GrowthMaps
  <2> QED
    BY <2>1, <2>3, <2>4, ReadSteps
       DEF Publish, StopAndLoseWrites, SaveChanges, LoadAndUpdate, WriteFails, readVars, vars
<1> QED
  BY <1>1, <1>2, ReadInvariant, PTL DEF ReadSpec, ImplementsAtLeastOnce, Abstract!Spec
=============================================================================
