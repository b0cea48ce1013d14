--------------------------- MODULE UseCasesProofs ---------------------------
(***************************************************************************)
(* Proofs about UseCases: its invariants hold for every set of calls,      *)
(* commands and customers, every slice size and number of retries, and it  *)
(* implements AtomicCommands.                                              *)
(***************************************************************************)
EXTENDS UseCases, CustomerProofs

-----------------------------------------------------------------------------
(* The helpers. *)

\* Being a prefix, element by element.
LEMMA PrefixPointwise ==
  ASSUME NEW S, NEW s \in Seq(S), NEW t \in Seq(S)
  PROVE  IsPrefix(s, t) <=> /\ Len(s) <= Len(t)
                            /\ \A i \in 1..Len(s) : s[i] = t[i]
<1>1. Len(s) \in Nat /\ Len(t) \in Nat
  OBVIOUS
<1>2. SubSeq(s, 1, Len(s)) = s
  OBVIOUS
<1> SUFFICES ASSUME Len(s) <= Len(t)
             PROVE  s = SubSeq(t, 1, Len(s)) <=> \A i \in 1..Len(s) : s[i] = t[i]
  BY <1>2 DEF IsPrefix
<1> DEFINE u == SubSeq(t, 1, Len(s))
<1>3. u \in Seq(S) /\ Len(u) = Len(s) /\ \A i \in 1..Len(s) : u[i] = t[i]
  BY <1>1
<1>4. s = u <=> \A i \in 1..Len(s) : s[i] = u[i]
  BY <1>3, SeqEqual
<1> QED
  BY <1>3, <1>4

\* A concatenation, element by element.
LEMMA ConcatPointwise ==
  ASSUME NEW S, NEW s \in Seq(S), NEW t \in Seq(S)
  PROVE  /\ s \o t \in Seq(S)
         /\ Len(s \o t) = Len(s) + Len(t)
         /\ \A i \in 1..Len(s \o t) :
              (s \o t)[i] = IF i <= Len(s) THEN s[i] ELSE t[i - Len(s)]
<1>1. Len(s) \in Nat /\ Len(t) \in Nat
  OBVIOUS
<1>2. s \o t \in Seq(S) /\ Len(s \o t) = Len(s) + Len(t)
  BY ConcatProperties
<1>3. \A i \in 1..(Len(s) + Len(t)) :
        (s \o t)[i] = IF i <= Len(s) THEN s[i] ELSE t[i - Len(s)]
  BY ConcatProperties
<1> QED
  BY <1>1, <1>2, <1>3

\* The bodies of recorded events.
LEMMA BodiesType ==
  ASSUME NEW recorded \in Seq(RecordedEvent)
  PROVE  /\ Bodies(recorded) \in Seq(Event)
         /\ Len(Bodies(recorded)) = Len(recorded)
         /\ \A i \in 1..Len(recorded) : Bodies(recorded)[i] = recorded[i].body
<1>1. Len(recorded) \in Nat /\ \A i \in 1..Len(recorded) : recorded[i] \in RecordedEvent
  OBVIOUS
<1>2. \A i \in 1..Len(recorded) : recorded[i].body \in Event
  BY <1>1 DEF RecordedEvent
<1> QED
  BY <1>1, <1>2 DEF Bodies

\* Envelopes around events.
LEMMA EnvelopesType ==
  ASSUME NEW c \in Call, NEW events \in Seq(Event)
  PROVE  /\ Envelopes(c, events) \in Seq(RecordedEvent)
         /\ Len(Envelopes(c, events)) = Len(events)
         /\ \A i \in 1..Len(events) :
              /\ Envelopes(c, events)[i].id = <<c, i>>
              /\ Envelopes(c, events)[i].body = events[i]
<1>1. Len(events) \in Nat /\ \A i \in 1..Len(events) : i \in Nat /\ events[i] \in Event
  OBVIOUS
<1>2. \A i \in 1..Len(events) : [id |-> <<c, i>>, body |-> events[i]] \in RecordedEvent
  BY <1>1 DEF RecordedEvent
<1> QED
  BY <1>1, <1>2 DEF Envelopes

\* A slice of a stream: what a server returns for a read from a position.
LEMMA SliceProperties ==
  ASSUME NEW S, NEW s \in Seq(S), NEW p \in 0..Len(s)
  PROVE  LET slice == ReadForward(s, p, SliceSize)
             end == SliceEnd(s, p, SliceSize)
         IN /\ slice \in Seq(S)
            /\ end \in p..Len(s)
            /\ Len(slice) = end - p
            /\ \A i \in 1..Len(slice) : slice[i] = s[p + i]
<1> DEFINE end == SliceEnd(s, p, SliceSize)
<1>1. end \in p..Len(s) /\ p \in Nat /\ Len(s) \in Nat
  BY SliceSizeAssumption DEF SliceEnd
<1> HIDE DEF end
<1>2. \A i \in (p + 1)..end : s[i] \in S
  BY <1>1
<1>3. /\ SubSeq(s, p + 1, end) \in Seq(S)
      /\ Len(SubSeq(s, p + 1, end)) = end - p
      /\ \A i \in 1..(end - p) :
           SubSeq(s, p + 1, end)[i] = s[p + i]
  BY <1>1, <1>2, SubSeqProperties
<1> QED
  BY <1>1, <1>3 DEF ReadForward, end

-----------------------------------------------------------------------------
(* Types. *)

\* A unit of work of a transition.
LEMMA UnitOfType ==
  ASSUME NEW c \in Call, NEW transition,
         transition.events \in Seq(Event), transition.state \in State
  PROVE  UnitOf(c, transition) \in [stream : Stream, version : Int,
                                   changes : Seq(RecordedEvent)]
<1>1. Len(transition.events) \in Nat /\ transition.state.version \in Int
  BY DEF State
<1>2. transition.state.id \in Stream
  BY DEF State, Stream
<1> QED
  BY <1>1, <1>2, EnvelopesType DEF UnitOf

\* The transitions of the two stories.
LEMMA StoryType ==
  ASSUME NEW cmd \in AnyCommand, NEW past \in Seq(Event)
  PROVE  /\ RegisterStory(cmd).events \in Seq(Event)
         /\ RegisterStory(cmd).state \in State
         /\ RelocateStory(past, cmd).events \in Seq(Event)
         /\ RelocateStory(past, cmd).state \in State
<1>1. /\ RegisterStory(cmd).events \in Seq(Event)
      /\ RegisterStory(cmd).state
           = After(NewState(NewGuid), RegisterStory(cmd).events)
  BY RegisterDecision DEF RegisterStory, Register, Transition
<1>2. NewState(NewGuid) \in State /\ NewState(cmd.customerId) \in State
  BY NewStateType, CommandFields DEF StateId
<1> DEFINE customer == After(NewState(cmd.customerId), past)
<1>3. customer \in State
  BY <1>2, AfterType
<1>4. /\ RelocateStory(past, cmd).events \in Seq(Event)
      /\ RelocateStory(past, cmd).state
           = After(customer, RelocateStory(past, cmd).events)
  BY <1>3, RelocateDecision, CommandFields
  DEF RelocateStory, Relocate, Transition
<1> QED
  BY <1>1, <1>2, <1>3, <1>4, AfterType

\* The events a call has with its next slice.
LEMMA WithSliceType ==
  ASSUME TypeOK, LoadIsExact, NEW c \in Call, phase[c] = "reading"
  PROVE  /\ WithSlice(c) \in Seq(RecordedEvent)
         /\ IsPrefix(WithSlice(c), Source(c))
         /\ Len(WithSlice(c)) = SliceEnd(Source(c), position[c], SliceSize)
<1> DEFINE s == Source(c)
           p == position[c]
           slice == ReadForward(s, p, SliceSize)
           end == SliceEnd(s, p, SliceSize)
<1>1. s \in Seq(RecordedEvent) /\ loaded[c] \in Seq(RecordedEvent)
  BY CommandAssumption, CommandFields DEF TypeOK, Source, Stream, StateId
<1>2. /\ p = Len(loaded[c])
      /\ p \in 0..Len(s)
      /\ \A i \in 1..p : loaded[c][i] = s[i]
  BY <1>1, PrefixPointwise DEF LoadIsExact
<1> HIDE DEF s, p
<1>3. /\ slice \in Seq(RecordedEvent)
      /\ end \in p..Len(s)
      /\ Len(slice) = end - p
      /\ \A i \in 1..Len(slice) : slice[i] = s[p + i]
  BY <1>1, <1>2, SliceProperties
<1> HIDE DEF slice, end
<1> DEFINE all == loaded[c] \o slice
<1>4. /\ all \in Seq(RecordedEvent)
      /\ Len(all) = p + Len(slice)
      /\ \A i \in 1..Len(all) :
           all[i] = IF i <= p THEN loaded[c][i] ELSE slice[i - p]
  BY <1>1, <1>2, <1>3, ConcatProperties
<1> HIDE DEF all
<1>5. Len(all) = end /\ Len(all) <= Len(s)
  BY <1>2, <1>3, <1>4
<1>6. ASSUME NEW i \in 1..Len(all)
      PROVE  all[i] = s[i]
  <2>1. CASE i <= p
    BY <2>1, <1>2, <1>4
  <2>2. CASE ~ (i <= p)
    <3>1. i - p \in 1..Len(slice) /\ p + (i - p) = i
      BY <2>2, <1>2, <1>3, <1>5
    <3> QED
      BY <3>1, <2>2, <1>3, <1>4
  <2> QED
    BY <2>1, <2>2
<1>7. IsPrefix(all, s)
  BY <1>1, <1>4, <1>5, <1>6, PrefixPointwise
<1> QED
  BY <1>4, <1>5, <1>7 DEF WithSlice, all, slice, s, p, end

-----------------------------------------------------------------------------
(* What a step does, action by action.                                     *)

Step(c) ==
  \/ TellUnknown(c) \/ TellAndSaveWithoutLoading(c) \/ LoadTellAndSave(c)
  \/ ReadSlice(c) \/ ReadLastSlice(c)
  \/ AppendEvents(c) \/ AppendAgain(c) \/ RejectAppend(c)
  \/ GiveUp(c) \/ AppendLate(c)

LEMMA NextIsStep == Next <=> \E c \in Call : Step(c)
BY DEF Next, Step, Tell, Read, Answer

\* An append extends one stream.
LEMMA ExtendProperties ==
  ASSUME TypeOK, NEW c \in Call, Extend(c)
  PROVE  LET t == unit[c].stream IN
         /\ t \in Stream
         /\ streams' \in [Stream -> Seq(RecordedEvent)]
         /\ \A s \in Stream \ {t} : streams'[s] = streams[s]
         /\ Len(streams'[t]) = Len(streams[t]) + Len(unit[c].changes)
         /\ \A i \in 1..Len(streams'[t]) :
              streams'[t][i] = IF i <= Len(streams[t]) THEN streams[t][i]
                               ELSE unit[c].changes[i - Len(streams[t])]
<1> DEFINE t == unit[c].stream
<1>1. /\ t \in Stream
      /\ streams[t] \in Seq(RecordedEvent)
      /\ unit[c].changes \in Seq(RecordedEvent)
  BY DEF TypeOK
<1>2. streams' = [streams EXCEPT ![t] = streams[t] \o unit[c].changes]
  BY DEF Extend
<1>3. streams[t] \o unit[c].changes \in Seq(RecordedEvent)
  BY <1>1, ConcatProperties
<1>4. /\ streams' \in [Stream -> Seq(RecordedEvent)]
      /\ streams'[t] = streams[t] \o unit[c].changes
      /\ \A s \in Stream \ {t} : streams'[s] = streams[s]
  BY <1>1, <1>2, <1>3 DEF TypeOK
<1> DEFINE old == streams[t]  new == unit[c].changes  all == streams'[t]
<1> HIDE DEF old, new, all
<1>5. /\ Len(all) = Len(old) + Len(new)
      /\ \A i \in 1..Len(all) :
           all[i] = IF i <= Len(old) THEN old[i] ELSE new[i - Len(old)]
  <2>1. old \in Seq(RecordedEvent) /\ new \in Seq(RecordedEvent)
    BY <1>1 DEF old, new
  <2>2. all = old \o new
    BY <1>4 DEF old, new, all
  <2>3. Len(old) \in Nat /\ Len(new) \in Nat
    BY <2>1
  <2> QED
    BY <2>1, <2>2, <2>3, ConcatProperties
<1> QED
  BY <1>1, <1>4, <1>5 DEF old, new, all

\* A reply that arrives ends the call, one that is lost counts as a retry.
LEMMA ReplyProperties ==
  ASSUME TypeOK, NEW c \in Call, NEW outcome \in Phase, Reply(c, outcome)
  PROVE  /\ phase' \in [Call -> Phase]
         /\ phase'[c] \in {phase[c], outcome}
         /\ \A d \in Call \ {c} : phase'[d] = phase[d]
         /\ retries' \in [Call -> 0..MaxRetries]
<1>1. CASE /\ phase' = [phase EXCEPT ![c] = outcome]
           /\ UNCHANGED retries
  BY <1>1 DEF TypeOK
<1>2. CASE /\ retries[c] < MaxRetries
           /\ retries' = [retries EXCEPT ![c] = @ + 1]
           /\ UNCHANGED phase
  <2>1. retries[c] \in 0..MaxRetries /\ retries[c] + 1 \in 0..MaxRetries
    BY <1>2, MaxRetriesAssumption DEF TypeOK
  <2> QED
    BY <2>1, <1>2 DEF TypeOK
<1> QED
  BY <1>1, <1>2 DEF Reply

\* Every step preserves the types.
LEMMA TypeStep ==
  ASSUME TypeOK, LoadIsExact, NEW c \in Call, Step(c)
  PROVE  TypeOK'
<1>1. command[c] \in AnyCommand
  BY CommandAssumption DEF TypeOK
<1>2. CASE TellUnknown(c)
  BY <1>2 DEF TellUnknown, TypeOK, Phase
<1>3. CASE TellAndSaveWithoutLoading(c)
  <2>1. UnitOf(c, RegisterStory(command[c]))
          \in [stream : Stream, version : Int, changes : Seq(RecordedEvent)]
    <3>1. <<>> \in Seq(Event)
      OBVIOUS
    <3> QED
      BY <3>1, <1>1, StoryType, UnitOfType
  <2> QED
    BY <2>1, <1>3 DEF TellAndSaveWithoutLoading, Save, TypeOK, Phase
<1>4. CASE LoadTellAndSave(c)
  BY <1>4 DEF LoadTellAndSave, TypeOK, Phase
<1>5. CASE ReadSlice(c)
  <2>1. WithSlice(c) \in Seq(RecordedEvent)
    BY <1>5, WithSliceType DEF ReadSlice
  <2> QED
    BY <2>1, <1>5, SliceSizeAssumption DEF ReadSlice, TypeOK
<1>6. CASE ReadLastSlice(c)
  <2>1. WithSlice(c) \in Seq(RecordedEvent)
    BY <1>6, WithSliceType DEF ReadLastSlice
  <2>2. UnitOf(c, RelocateStory(Bodies(WithSlice(c)), command[c]))
          \in [stream : Stream, version : Int, changes : Seq(RecordedEvent)]
    BY <2>1, <1>1, BodiesType, StoryType, UnitOfType
  <2> QED
    BY <2>1, <2>2, <1>6 DEF ReadLastSlice, Save, TypeOK, Phase
<1>7. CASE AppendEvents(c)
  <2>1. streams' \in [Stream -> Seq(RecordedEvent)]
    BY <1>7, ExtendProperties DEF AppendEvents
  <2> QED
    BY <2>1, <1>7, ReplyProperties DEF AppendEvents, TypeOK, Phase
<1>8. CASE AppendAgain(c)
  BY <1>8, ReplyProperties DEF AppendAgain, TypeOK, Phase
<1>9. CASE RejectAppend(c)
  BY <1>9, ReplyProperties DEF RejectAppend, TypeOK, Phase
<1>10. CASE GiveUp(c)
  BY <1>10 DEF GiveUp, TypeOK, Phase
<1>11. CASE AppendLate(c)
  <2>1. streams' \in [Stream -> Seq(RecordedEvent)]
    BY <1>11, ExtendProperties DEF AppendLate
  <2> QED
    BY <2>1, <1>11 DEF AppendLate, TypeOK
<1> QED
  BY <1>2, <1>3, <1>4, <1>5, <1>6, <1>7, <1>8, <1>9, <1>10, <1>11 DEF Step

-----------------------------------------------------------------------------
(* Streams only grow.                                                      *)

Grows ==
  \A s \in Stream :
    /\ Len(streams[s]) <= Len(streams'[s])
    /\ \A i \in 1..Len(streams[s]) : streams'[s][i] = streams[s][i]

\* No step changes or removes a recorded event.
LEMMA StreamsGrow ==
  ASSUME TypeOK, NEW c \in Call, Step(c)
  PROVE  Grows
<1>1. CASE streams' = streams
  <2>1. \A s \in Stream : Len(streams[s]) \in Nat
    BY DEF TypeOK
  <2> QED
    BY <1>1, <2>1 DEF Grows
<1>2. CASE Extend(c)
  <2> DEFINE t == unit[c].stream  new == unit[c].changes
  <2>1. /\ \A s \in Stream \ {t} : streams'[s] = streams[s]
        /\ Len(streams'[t]) = Len(streams[t]) + Len(new)
        /\ \A i \in 1..Len(streams'[t]) :
             streams'[t][i] = IF i <= Len(streams[t]) THEN streams[t][i]
                              ELSE new[i - Len(streams[t])]
    BY <1>2, ExtendProperties
  <2>2. Len(new) \in Nat /\ \A s \in Stream : Len(streams[s]) \in Nat
    BY DEF TypeOK
  <2> HIDE DEF t, new
  <2> SUFFICES ASSUME NEW s \in Stream
               PROVE  /\ Len(streams[s]) <= Len(streams'[s])
                      /\ \A i \in 1..Len(streams[s]) :
                           streams'[s][i] = streams[s][i]
    BY DEF Grows
  <2>3. CASE s # t
    BY <2>1, <2>2, <2>3
  <2>4. CASE s = t
    BY <2>1, <2>2, <2>4
  <2> QED
    BY <2>3, <2>4
<1> QED
  BY <1>1, <1>2 DEF Step, TellUnknown, TellAndSaveWithoutLoading,
     LoadTellAndSave, ReadSlice, ReadLastSlice, AppendEvents, AppendAgain,
     RejectAppend, GiveUp, AppendLate

\* A step of a call changes no variable of another call.
LEMMA OthersUnchanged ==
  ASSUME TypeOK, NEW c \in Call, Step(c), NEW d \in Call, d # c
  PROVE  /\ phase'[d] = phase[d]
         /\ position'[d] = position[d]
         /\ loaded'[d] = loaded[d]
         /\ unit'[d] = unit[d]
<1>1. "succeeded" \in Phase /\ "conflict" \in Phase
  BY DEF Phase
<1>2. CASE AppendEvents(c) \/ AppendAgain(c) \/ RejectAppend(c)
  BY <1>1, <1>2, ReplyProperties
  DEF AppendEvents, AppendAgain, RejectAppend
<1>3. CASE TellUnknown(c) \/ TellAndSaveWithoutLoading(c) \/ LoadTellAndSave(c)
  BY <1>3 DEF TypeOK, TellUnknown, TellAndSaveWithoutLoading, LoadTellAndSave, Save
<1>4. CASE ReadSlice(c) \/ ReadLastSlice(c)
  BY <1>4 DEF TypeOK, ReadSlice, ReadLastSlice, Save
<1>5. CASE GiveUp(c) \/ AppendLate(c)
  BY <1>5 DEF TypeOK, GiveUp, AppendLate
<1> QED
  BY <1>2, <1>3, <1>4, <1>5 DEF Step

\* The commands of the calls never change.
LEMMA CommandUnchanged ==
  ASSUME NEW c \in Call, Step(c)
  PROVE  command' = command
BY DEF Step, TellUnknown, TellAndSaveWithoutLoading,
     LoadTellAndSave, ReadSlice, ReadLastSlice, AppendEvents, AppendAgain,
     RejectAppend, GiveUp, AppendLate

-----------------------------------------------------------------------------
(* Loads.                                                                  *)

\* What was a prefix of a stream stays one.
LEMMA PrefixStable ==
  ASSUME NEW S, NEW p \in Seq(S), NEW s \in Seq(S), NEW t \in Seq(S),
         IsPrefix(p, s), IsPrefix(s, t)
  PROVE  IsPrefix(p, t)
<1>1. Len(p) \in Nat /\ Len(s) \in Nat /\ Len(t) \in Nat
  OBVIOUS
<1>2. /\ Len(p) <= Len(s) /\ \A i \in 1..Len(p) : p[i] = s[i]
      /\ Len(s) <= Len(t) /\ \A i \in 1..Len(s) : s[i] = t[i]
  BY PrefixPointwise
<1>3. Len(p) <= Len(t) /\ \A i \in 1..Len(p) : p[i] = t[i]
  BY <1>1, <1>2
<1> QED
  BY <1>3, PrefixPointwise

\* The source of a call is a stream, and grows like one.
LEMMA SourceGrows ==
  ASSUME TypeOK, TypeOK', NEW c \in Call, Step(c), NEW d \in Call
  PROVE  /\ Source(d) \in Seq(RecordedEvent)
         /\ Source(d)' \in Seq(RecordedEvent)
         /\ IsPrefix(Source(d), Source(d)')
<1> DEFINE id == command[d].customerId
<1>1. id \in Stream
  BY CommandAssumption, CommandFields DEF TypeOK, Stream, StateId
<1>2. Source(d) = streams[id] /\ Source(d)' = streams'[id]
  BY CommandUnchanged DEF Source
<1>3. streams[id] \in Seq(RecordedEvent) /\ streams'[id] \in Seq(RecordedEvent)
  BY <1>1 DEF TypeOK
<1>4. /\ Len(streams[id]) <= Len(streams'[id])
      /\ \A i \in 1..Len(streams[id]) : streams'[id][i] = streams[id][i]
  BY <1>1, StreamsGrow DEF Grows
<1> HIDE DEF id
<1>5. IsPrefix(streams[id], streams'[id])
  BY <1>3, <1>4, PrefixPointwise
<1> QED
  BY <1>2, <1>3, <1>5

\* Every step keeps the loads exact.
LEMMA LoadStep ==
  ASSUME TypeOK, TypeOK', LoadIsExact, NEW c \in Call, Step(c)
  PROVE  LoadIsExact'
<1> DEFINE Exact(d) ==
      /\ IsPrefix(loaded[d], Source(d))
      /\ phase[d] \in {"idle", "reading"} => position[d] = Len(loaded[d])
      /\ phase[d] = "idle" => loaded[d] = <<>>
      /\ phase[d] = "reading" => command[d].type = "RelocateCustomer"
<1>1. ASSUME NEW d \in Call, loaded'[d] = loaded[d]
      PROVE  IsPrefix(loaded[d], Source(d))'
  <2>1. loaded[d] \in Seq(RecordedEvent)
    BY DEF TypeOK
  <2>2. IsPrefix(loaded[d], Source(d))
    BY DEF LoadIsExact
  <2>3. IsPrefix(loaded[d], Source(d)')
    BY <2>1, <2>2, SourceGrows, PrefixStable
  <2> QED
    BY <2>3, <1>1
<1>2. ASSUME NEW d \in Call, d # c
      PROVE  Exact(d)'
  BY <1>1, <1>2, OthersUnchanged, CommandUnchanged DEF LoadIsExact
<1> SUFFICES Exact(c)'
  <2>1. \A d \in Call : Exact(d)'
    BY <1>2
  <2> QED
    BY <2>1 DEF LoadIsExact
<1>3. ASSUME loaded'[c] = loaded[c], position'[c] = position[c],
             phase'[c] \in {"idle", "reading"} => phase[c] \in {"idle", "reading"},
             phase'[c] = "idle" => phase[c] = "idle",
             phase'[c] = "reading" => command[c].type = "RelocateCustomer"
      PROVE  Exact(c)'
  BY <1>1, <1>3, CommandUnchanged DEF LoadIsExact
<1>4. CASE TellUnknown(c) \/ TellAndSaveWithoutLoading(c) \/ LoadTellAndSave(c)
  BY <1>3, <1>4
  DEF TypeOK, TellUnknown, TellAndSaveWithoutLoading, LoadTellAndSave, Save
<1>5. CASE ReadSlice(c)
  <2>1. /\ WithSlice(c) \in Seq(RecordedEvent)
        /\ IsPrefix(WithSlice(c), Source(c))
        /\ Len(WithSlice(c)) = SliceEnd(Source(c), position[c], SliceSize)
    BY <1>5, WithSliceType DEF ReadSlice
  <2>2. /\ loaded'[c] = WithSlice(c)
        /\ position'[c] = position[c] + SliceSize
        /\ phase'[c] = "reading"
        /\ Source(c)' = Source(c)
        /\ command'[c].type = "RelocateCustomer"
    BY <1>5 DEF ReadSlice, Source, TypeOK, LoadIsExact
  <2>3. position[c] \in Nat /\ Len(Source(c)) \in Nat
    BY SourceGrows DEF TypeOK
  <2>4. ~ (position[c] + SliceSize >= Len(Source(c)))
    BY <1>5 DEF ReadSlice, IsEndOfStream
  <2>5. position[c] + SliceSize = SliceEnd(Source(c), position[c], SliceSize)
    BY <2>3, <2>4, SliceSizeAssumption DEF SliceEnd
  <2> QED
    BY <2>1, <2>2, <2>5
<1>6. CASE ReadLastSlice(c)
  <2>1. IsPrefix(WithSlice(c), Source(c))
    BY <1>6, WithSliceType DEF ReadLastSlice
  <2>2. /\ loaded'[c] = WithSlice(c)
        /\ phase'[c] \in {"saving", "succeeded"}
        /\ Source(c)' = Source(c)
    BY <1>6 DEF ReadLastSlice, Save, Source, TypeOK
  <2> QED
    BY <2>1, <2>2
<1>7. CASE AppendEvents(c) \/ AppendAgain(c) \/ RejectAppend(c)
  <2>1. phase'[c] \in {"saving", "succeeded", "conflict"}
    BY <1>7, ReplyProperties DEF AppendEvents, AppendAgain, RejectAppend, Phase
  <2> QED
    BY <1>3, <1>7, <2>1 DEF AppendEvents, AppendAgain, RejectAppend
<1>8. CASE GiveUp(c) \/ AppendLate(c)
  BY <1>3, <1>8 DEF TypeOK, GiveUp, AppendLate
<1> QED
  BY <1>4, <1>5, <1>6, <1>7, <1>8 DEF Step

-----------------------------------------------------------------------------
(* Units of work.                                                          *)

\* A call that is decided on a past.
DecidedUnit(c, past) ==
  [stream |-> command[c].customerId, version |-> Len(past) - 1,
   changes |-> Envelopes(c, Decide(command[c], past))]

\* A registration is decided on no past.
LEMMA RegisterUnit ==
  ASSUME TypeOK, NEW c \in Call, command[c].type = "RegisterCustomer"
  PROVE  LET transition == RegisterStory(command[c]) IN
         /\ UnitOf(c, transition) = DecidedUnit(c, <<>>)
         /\ transition.events # <<>>
         /\ Len(transition.events) = 1
         /\ transition.events[1].customerId = command[c].customerId
<1>1. command[c] \in AnyCommand
  BY CommandAssumption DEF TypeOK
<1> DEFINE transition == RegisterStory(command[c])
<1>2. /\ transition.events \in Seq(Event)
      /\ Len(transition.events) = 1
      /\ transition.events[1].customerId = command[c].customerId
      /\ transition.state.id = command[c].customerId
      /\ transition.state.version = 0
  BY <1>1, RegisterDecision
<1>3. Decide(command[c], <<>>) = transition.events
  BY DEF Decide
<1> HIDE DEF transition
<1>4. UnitOf(c, transition) = DecidedUnit(c, <<>>)
  BY <1>2, <1>3 DEF UnitOf, DecidedUnit
<1>5. transition.events # <<>>
  BY <1>2
<1> QED
  BY <1>2, <1>4, <1>5 DEF transition

\* A relocation is decided on the past it is told to, when that past is the
\* customer's own; its events are the customer's.
LEMMA RelocateUnit ==
  ASSUME TypeOK, NEW c \in Call, command[c].type = "RelocateCustomer",
         NEW past \in Seq(Event),
         \A i \in 1..Len(past) : past[i].customerId = command[c].customerId
  PROVE  LET transition == RelocateStory(past, command[c]) IN
         /\ UnitOf(c, transition) = DecidedUnit(c, past)
         /\ transition.events \in Seq(Event)
         /\ \A i \in 1..Len(transition.events) :
              transition.events[i].customerId = command[c].customerId
<1> DEFINE cmd == command[c]
           id == cmd.customerId
           transition == RelocateStory(past, cmd)
           customer == After(NewState(id), past)
<1>1. cmd \in AnyCommand /\ id \in StateId
  BY CommandAssumption, CommandFields DEF TypeOK, StateId
<1>2. /\ customer \in State
      /\ customer.id = id
      /\ customer.version = Len(past) - 1
  <2>1. NewState(id) \in State /\ NewState(id).id = id /\ NewState(id).version = -1
    BY <1>1, NewStateType DEF NewState
  <2>2. customer.version = -1 + Len(past)
    BY <2>1 DEF After
  <2> QED
    BY <2>1, <2>2, AfterType, AfterKeepsId
<1>3. /\ transition.events = Relocate(customer, cmd.address, cmd.phoneNumber).events
      /\ transition.state = After(customer, transition.events)
  BY DEF RelocateStory, Relocate, Transition
<1> HIDE DEF customer, transition
<1>4. /\ transition.events \in Seq(Event)
      /\ \A i \in 1..Len(transition.events) :
           transition.events[i].customerId = id
  BY <1>1, <1>2, <1>3, RelocateDecision, CommandFields
<1>5. transition.state.id = id
  BY <1>2, <1>3, <1>4, AfterKeepsId
<1>6. transition.state.version - Len(transition.events) = Len(past) - 1
  <2>1. transition.state.version = customer.version + Len(transition.events)
    BY <1>3 DEF After
  <2>2. Len(transition.events) \in Nat /\ Len(past) \in Nat
    BY <1>4
  <2> QED
    BY <2>1, <2>2, <1>2
<1>7. Decide(cmd, past) = transition.events
  BY DEF Decide, transition
<1>8. UnitOf(c, transition) = DecidedUnit(c, past)
  BY <1>5, <1>6, <1>7 DEF UnitOf, DecidedUnit
<1> QED
  BY <1>4, <1>8 DEF transition

\* The events a call has read are those of its customer.
LEMMA OwnLoad ==
  ASSUME TypeOK, OwnStream, NEW c \in Call,
         NEW p \in Seq(RecordedEvent), IsPrefix(p, Source(c))
  PROVE  \A i \in 1..Len(Bodies(p)) :
           Bodies(p)[i].customerId = command[c].customerId
<1> DEFINE id == command[c].customerId
<1>1. id \in Stream
  BY CommandAssumption, CommandFields DEF TypeOK, Stream, StateId
<1>2. Source(c) = streams[id] /\ streams[id] \in Seq(RecordedEvent)
  BY <1>1 DEF Source, TypeOK
<1> HIDE DEF id
<1>3. Len(p) <= Len(streams[id]) /\ \A i \in 1..Len(p) : p[i] = streams[id][i]
  BY <1>2, PrefixPointwise
<1>4. Len(p) \in Nat /\ Len(streams[id]) \in Nat
  BY <1>2
<1>5. \A i \in 1..Len(p) : p[i].body.customerId = id
  BY <1>1, <1>3, <1>4 DEF OwnStream
<1> QED
  BY <1>5, BodiesType DEF id

\* Every step keeps the units of work decided on what was loaded.
LEMMA UnitStep ==
  ASSUME TypeOK, LoadIsExact, UnitIsDecided, OwnStream, NEW c \in Call, Step(c)
  PROVE  UnitIsDecided'
<1> DEFINE Saves(d) == phase[d] \in {"saving", "succeeded", "conflict", "abandoned"}
           Decided(d) ==
             /\ CanTell(command[d])
             /\ command[d].type = "RegisterCustomer" => loaded[d] = <<>>
             /\ unit[d] = DecidedUnit(d, Bodies(loaded[d]))
             /\ phase[d] # "succeeded" => unit[d].changes # <<>>
           Good(d) == IF Saves(d) THEN Decided(d) ELSE unit[d] = EmptyUnit
<1>1. ASSUME NEW d \in Call
      PROVE  Len(Bodies(loaded[d])) = Len(loaded[d])
  BY BodiesType DEF TypeOK
<1>2. \A d \in Call : Good(d)
  BY <1>1 DEF UnitIsDecided, DecidedUnit
<1>3. SUFFICES \A d \in Call : Good(d)'
  <2>1. loaded' \in [Call -> Seq(RecordedEvent)]
    BY TypeStep DEF TypeOK
  <2>2. ASSUME NEW d \in Call
        PROVE  Len(Bodies(loaded'[d])) = Len(loaded'[d])
    BY <2>1, BodiesType
  <2> QED
    BY <1>3, <2>2 DEF UnitIsDecided, DecidedUnit
<1>4. ASSUME NEW d \in Call, d # c
      PROVE  Good(d)'
  BY <1>2, <1>4, OthersUnchanged, CommandUnchanged DEF DecidedUnit
<1> SUFFICES Good(c)'
  BY <1>4
<1>5. ASSUME ~ Saves(c), ~ Saves(c)', unit'[c] = unit[c]
      PROVE  Good(c)'
  BY <1>2, <1>5
<1>6. ASSUME Saves(c), Saves(c)', phase[c] # "succeeded",
             unit'[c] = unit[c], loaded'[c] = loaded[c]
      PROVE  Good(c)'
  BY <1>2, <1>6, CommandUnchanged DEF DecidedUnit
<1>7. CASE TellUnknown(c) \/ LoadTellAndSave(c) \/ ReadSlice(c)
  BY <1>5, <1>7 DEF TypeOK, TellUnknown, LoadTellAndSave, ReadSlice
<1>8. CASE TellAndSaveWithoutLoading(c)
  <2> DEFINE transition == RegisterStory(command[c])
  <2>1. loaded'[c] = <<>> /\ command'[c] = command[c]
    BY <1>8 DEF TellAndSaveWithoutLoading, LoadIsExact
  <2>2. /\ UnitOf(c, transition) = DecidedUnit(c, <<>>)
        /\ transition.events # <<>>
        /\ Len(transition.events) = 1
    BY <1>8, RegisterUnit DEF TellAndSaveWithoutLoading
  <2>3. phase'[c] = "saving" /\ unit'[c] = UnitOf(c, transition)
    BY <1>8, <2>2 DEF TellAndSaveWithoutLoading, Save, TypeOK
  <2>4. unit'[c].changes # <<>>
    <3>1. transition.events \in Seq(Event)
      BY RegisterDecision, CommandAssumption DEF TypeOK
    <3>2. Len(unit'[c].changes) = 1
      BY <2>2, <2>3, <3>1, EnvelopesType DEF UnitOf
    <3> QED
      BY <3>2
  <2>5. Bodies(<<>>) = <<>>
    BY DEF Bodies
  <2>6. CanTell(command[c])
    BY <1>8 DEF TellAndSaveWithoutLoading, CanTell
  <2> HIDE DEF transition
  <2> QED
    BY <2>1, <2>2, <2>3, <2>4, <2>5, <2>6 DEF DecidedUnit
<1>9. CASE ReadLastSlice(c)
  <2> DEFINE past == Bodies(WithSlice(c))
             transition == RelocateStory(past, command[c])
  <2>1. /\ WithSlice(c) \in Seq(RecordedEvent)
        /\ IsPrefix(WithSlice(c), Source(c))
    BY <1>9, WithSliceType DEF ReadLastSlice
  <2>2. /\ past \in Seq(Event)
        /\ \A i \in 1..Len(past) : past[i].customerId = command[c].customerId
    BY <2>1, BodiesType, OwnLoad
  <2>3. command[c].type = "RelocateCustomer"
    BY <1>9 DEF ReadLastSlice, LoadIsExact
  <2>4. /\ UnitOf(c, transition) = DecidedUnit(c, past)
        /\ transition.events \in Seq(Event)
    BY <2>2, <2>3, RelocateUnit
  <2>5. /\ loaded'[c] = WithSlice(c)
        /\ unit'[c] = UnitOf(c, transition)
        /\ phase'[c] = IF transition.events = <<>> THEN "succeeded" ELSE "saving"
        /\ command'[c] = command[c]
    BY <1>9 DEF ReadLastSlice, Save, TypeOK
  <2>6. transition.events # <<>> => unit'[c].changes # <<>>
    <3>1. /\ unit'[c].changes \in Seq(RecordedEvent)
          /\ Len(unit'[c].changes) = Len(transition.events)
      BY <2>4, <2>5, EnvelopesType DEF UnitOf
    <3>2. transition.events # <<>> => Len(transition.events) # 0
      BY <2>4
    <3> QED
      BY <3>1, <3>2
  <2>7. CanTell(command[c])
    BY <2>3 DEF CanTell
  <2>8. Bodies(loaded'[c]) = past
    BY <2>5
  <2> HIDE DEF past, transition
  <2> QED
    BY <2>3, <2>4, <2>5, <2>6, <2>7, <2>8 DEF DecidedUnit
<1>10. CASE AppendEvents(c) \/ AppendAgain(c) \/ RejectAppend(c)
  <2>1. phase'[c] \in {"saving", "succeeded", "conflict"}
    BY <1>10, ReplyProperties DEF AppendEvents, AppendAgain, RejectAppend, Phase
  <2> QED
    BY <1>6, <1>10, <2>1 DEF AppendEvents, AppendAgain, RejectAppend
<1>11. CASE GiveUp(c)
  BY <1>5, <1>6, <1>11 DEF TypeOK, GiveUp
<1>12. CASE AppendLate(c)
  BY <1>6, <1>12 DEF AppendLate
<1> QED
  BY <1>7, <1>8, <1>9, <1>10, <1>11, <1>12 DEF Step

-----------------------------------------------------------------------------
(* Recorded events.                                                        *)

Saves(c) == phase[c] \in {"saving", "succeeded", "conflict", "abandoned"}

Decision(c) == Decide(command[c], Bodies(loaded[c]))

\* What a call saves: the decision on a prefix of its own stream.
LEMMA SavedUnit ==
  ASSUME TypeOK, LoadIsExact, UnitIsDecided, OwnStream, NEW c \in Call, Saves(c)
  PROVE  /\ unit[c].stream = command[c].customerId
         /\ unit[c].stream \in Stream \ {NewGuid}
         /\ Target(c) = Source(c)
         /\ Target(c) \in Seq(RecordedEvent)
         /\ unit[c].version = Len(loaded[c]) - 1
         /\ IsPrefix(loaded[c], Target(c))
         /\ Decision(c) \in Seq(Event)
         /\ unit[c].changes \in Seq(RecordedEvent)
         /\ Len(unit[c].changes) = Len(Decision(c))
         /\ \A i \in 1..Len(unit[c].changes) :
              /\ unit[c].changes[i].id = <<c, i>>
              /\ unit[c].changes[i].body = Decision(c)[i]
              /\ Decision(c)[i].customerId = unit[c].stream
<1> DEFINE cmd == command[c]
           id == cmd.customerId
           past == Bodies(loaded[c])
<1>1. cmd \in AnyCommand /\ id \in CustomerId
  BY CommandAssumption, CommandFields DEF TypeOK
<1>2. id \in Stream \ {NewGuid}
  BY <1>1, GuidAssumption DEF Stream, StateId
<1>3. /\ unit[c].stream = id
      /\ unit[c].version = Len(loaded[c]) - 1
      /\ unit[c].changes = Envelopes(c, Decision(c))
      /\ CanTell(cmd)
  <2>1. /\ CanTell(cmd)
        /\ unit[c] = [stream |-> id, version |-> Len(loaded[c]) - 1,
                      changes |-> Envelopes(c, Decision(c))]
    BY DEF UnitIsDecided, Saves, Decision
  <2> HIDE DEF cmd, id
  <2> QED
    BY <2>1
<1>4. Target(c) = Source(c) /\ Target(c) \in Seq(RecordedEvent)
  BY <1>2, <1>3 DEF Target, Source, TypeOK
<1>5. IsPrefix(loaded[c], Source(c)) /\ loaded[c] \in Seq(RecordedEvent)
  BY DEF LoadIsExact, TypeOK
<1>6. past \in Seq(Event) /\ \A i \in 1..Len(past) : past[i].customerId = id
  BY <1>5, BodiesType, OwnLoad
<1> HIDE DEF past
<1>7. /\ Decision(c) \in Seq(Event)
      /\ \A i \in 1..Len(Decision(c)) : Decision(c)[i].customerId = id
  <2>1. CASE cmd.type = "RegisterCustomer"
    <3>1. Decision(c) = RegisterStory(cmd).events
      BY <2>1 DEF Decision, Decide
    <3> QED
      BY <3>1, <1>1, RegisterDecision
  <2>2. CASE cmd.type = "RelocateCustomer"
    <3>1. Decision(c) = RelocateStory(past, cmd).events
      BY <2>2 DEF Decision, Decide, past
    <3>2. /\ RelocateStory(past, cmd).events \in Seq(Event)
          /\ \A i \in 1..Len(RelocateStory(past, cmd).events) :
               RelocateStory(past, cmd).events[i].customerId = id
      BY <2>2, <1>6, RelocateUnit
    <3> QED
      BY <3>1, <3>2
  <2> QED
    BY <2>1, <2>2, <1>3 DEF CanTell
<1>8. /\ Envelopes(c, Decision(c)) \in Seq(RecordedEvent)
      /\ Len(Envelopes(c, Decision(c))) = Len(Decision(c))
      /\ \A i \in 1..Len(Decision(c)) :
           /\ Envelopes(c, Decision(c))[i].id = <<c, i>>
           /\ Envelopes(c, Decision(c))[i].body = Decision(c)[i]
  BY <1>7, EnvelopesType
<1> QED
  BY <1>2, <1>3, <1>4, <1>5, <1>7, <1>8

\* An append that the server accepts puts its events right after what its
\* call has loaded, and they are the only ones that are new.
LEMMA NewEvents ==
  ASSUME TypeOK, LoadIsExact, UnitIsDecided, OwnStream,
         NEW c \in Call, Step(c), Saves(c),
         Accepts(Target(c), unit[c].version), Extend(c)
  PROVE  LET t == unit[c].stream  n == unit[c].version + 1 IN
         /\ n \in Nat
         /\ Len(streams[t]) = n
         /\ Len(streams'[t]) = n + Len(unit[c].changes)
         /\ \A i \in 1..Len(streams'[t]) :
              IF i <= n THEN streams'[t][i] = streams[t][i]
              ELSE /\ i - n \in 1..Len(unit[c].changes)
                   /\ streams'[t][i] = unit[c].changes[i - n]
         /\ \A s \in Stream \ {t} : streams'[s] = streams[s]
<1> DEFINE t == unit[c].stream  n == unit[c].version + 1
           new == unit[c].changes
<1>1. /\ streams[t] \in Seq(RecordedEvent)
      /\ new \in Seq(RecordedEvent)
      /\ unit[c].version \in Int
      /\ Len(streams[t]) - 1 = unit[c].version
  BY DEF TypeOK, Accepts, LastEventNumber, Target
<1>2. /\ Len(streams'[t]) = Len(streams[t]) + Len(new)
      /\ \A i \in 1..Len(streams'[t]) :
           streams'[t][i] = IF i <= Len(streams[t]) THEN streams[t][i]
                            ELSE new[i - Len(streams[t])]
      /\ \A s \in Stream \ {t} : streams'[s] = streams[s]
  BY ExtendProperties
<1> HIDE DEF t, new
<1>3. /\ Len(streams[t]) \in Nat /\ Len(new) \in Nat
      /\ Len(streams[t]) = n
  BY <1>1
<1> HIDE DEF n
<1>4. n \in Nat
  BY <1>3
<1>5. \A i \in 1..Len(streams'[t]) : ~ (i <= n) => i - n \in 1..Len(new)
  BY <1>2, <1>3
<1> QED
  BY <1>2, <1>3, <1>4, <1>5 DEF t, n, new

\* Every step keeps the streams to their customers.
LEMMA OwnStep ==
  ASSUME TypeOK, LoadIsExact, UnitIsDecided, OwnStream, NEW c \in Call, Step(c)
  PROVE  OwnStream'
<1>1. CASE streams' = streams
  BY <1>1 DEF OwnStream
<1>2. CASE Saves(c) /\ Accepts(Target(c), unit[c].version) /\ Extend(c)
  <2> DEFINE t == unit[c].stream  n == unit[c].version + 1
             new == unit[c].changes
  <2>1. /\ Len(streams[t]) = n
        /\ n \in Nat
        /\ \A i \in 1..Len(streams'[t]) :
              IF i <= n THEN streams'[t][i] = streams[t][i]
              ELSE i - n \in 1..Len(new) /\ streams'[t][i] = new[i - n]
        /\ \A s \in Stream \ {t} : streams'[s] = streams[s]
    BY <1>2, NewEvents
  <2>2. /\ t \in Stream \ {NewGuid}
        /\ \A i \in 1..Len(new) : new[i].body.customerId = t
    BY <1>2, SavedUnit
  <2> HIDE DEF t, n, new
  <2>3. streams'[NewGuid] = <<>>
    BY <2>1, <2>2 DEF OwnStream, Stream, StateId
  <2>4. ASSUME NEW s \in Stream, NEW i \in 1..Len(streams'[s])
        PROVE  streams'[s][i].body.customerId = s
    <3>1. CASE s # t
      BY <3>1, <2>1 DEF OwnStream
    <3>2. CASE s = t /\ i <= n
      <4>1. i \in 1..Len(streams[t])
        BY <3>2, <2>1
      <4> QED
        BY <4>1, <3>2, <2>1, <2>2 DEF OwnStream
    <3>3. CASE s = t /\ ~ (i <= n)
      BY <3>3, <2>1, <2>2
    <3> QED
      BY <3>1, <3>2, <3>3
  <2> QED
    BY <2>3, <2>4 DEF OwnStream
<1> QED
  BY <1>1, <1>2 DEF Step, Saves, TellUnknown, TellAndSaveWithoutLoading,
     LoadTellAndSave, ReadSlice, ReadLastSlice, AppendEvents, AppendAgain,
     RejectAppend, GiveUp, AppendLate

\* What is stored stays stored.
LEMMA StoredStable ==
  ASSUME TypeOK, LoadIsExact, UnitIsDecided, OwnStream,
         NEW c \in Call, Step(c), NEW d \in Call,
         Saves(d), Stored(d), unit'[d] = unit[d]
  PROVE  Stored(d)'
<1> DEFINE t == unit[d].stream  v == unit[d].version  new == unit[d].changes
<1>1. /\ t \in Stream /\ v \in Int /\ v >= -1
      /\ Len(new) \in Nat /\ Len(streams[t]) \in Nat
  <2>1. v = Len(loaded[d]) - 1 /\ Len(loaded[d]) \in Nat
    BY SavedUnit DEF TypeOK
  <2>2. t \in Stream /\ v \in Int /\ new \in Seq(RecordedEvent)
    BY DEF TypeOK
  <2> HIDE DEF t, v, new
  <2>3. streams[t] \in Seq(RecordedEvent)
    BY <2>2 DEF TypeOK
  <2> QED
    BY <2>1, <2>2, <2>3
<1>2. /\ new # <<>>
      /\ v + 1 + Len(new) <= Len(streams[t])
      /\ \A i \in 1..Len(new) : streams[t][v + 1 + i].id = new[i].id
  BY DEF Stored, AlreadyAppended, Target
<1>3. /\ Len(streams[t]) <= Len(streams'[t])
      /\ \A i \in 1..Len(streams[t]) : streams'[t][i] = streams[t][i]
  BY <1>1, StreamsGrow DEF Grows
<1>4. /\ unit'[d].stream = t /\ unit'[d].version = v /\ unit'[d].changes = new
      /\ Len(streams'[t]) \in Nat
  <2>1. TypeOK'
    BY TypeStep
  <2>2. unit'[d].stream = t /\ unit'[d].version = v /\ unit'[d].changes = new
    OBVIOUS
  <2> HIDE DEF t
  <2>3. streams'[t] \in Seq(RecordedEvent)
    BY <1>1, <2>1 DEF TypeOK
  <2> QED
    BY <2>2, <2>3
<1> HIDE DEF t, v, new
<1>5. v + 1 + Len(new) <= Len(streams'[t])
  BY <1>1, <1>2, <1>3, <1>4
<1>6. ASSUME NEW i \in 1..Len(new)
      PROVE  streams'[t][v + 1 + i].id = new[i].id
  <2>1. v + 1 + i \in 1..Len(streams[t])
    BY <1>1, <1>2
  <2> QED
    BY <2>1, <1>2, <1>3
<1> QED
  BY <1>2, <1>4, <1>5, <1>6 DEF Stored, AlreadyAppended, Target

\* An append that the server accepts is stored.
LEMMA NowStored ==
  ASSUME TypeOK, LoadIsExact, UnitIsDecided, OwnStream,
         NEW c \in Call, Step(c), Saves(c), unit[c].changes # <<>>,
         Accepts(Target(c), unit[c].version), Extend(c), unit'[c] = unit[c]
  PROVE  Stored(c)'
<1> DEFINE t == unit[c].stream  v == unit[c].version  new == unit[c].changes
<1>1. /\ v + 1 \in Nat
      /\ Len(streams'[t]) = v + 1 + Len(new)
      /\ \A i \in 1..Len(streams'[t]) : ~ (i <= v + 1) =>
           streams'[t][i] = new[i - (v + 1)]
  BY NewEvents
<1>2. Len(new) \in Nat /\ v \in Int
  BY DEF TypeOK
<1>3. new # <<>> /\ unit'[c].stream = t /\ unit'[c].version = v /\ unit'[c].changes = new
  OBVIOUS
<1> HIDE DEF t, v, new
<1>4. ASSUME NEW i \in 1..Len(new)
      PROVE  streams'[t][v + 1 + i].id = new[i].id
  <2>1. /\ v + 1 + i \in 1..Len(streams'[t])
        /\ ~ (v + 1 + i <= v + 1)
        /\ v + 1 + i - (v + 1) = i
    BY <1>1, <1>2
  <2> QED
    BY <2>1, <1>1
<1>5. Len(streams'[t]) \in Nat /\ v + 1 + Len(new) <= Len(streams'[t])
  BY <1>1, <1>2
<1> QED
  BY <1>3, <1>4, <1>5 DEF Stored, AlreadyAppended, Target

\* The id of a recorded event names the call that made it.
LEMMA OwnerIsCall ==
  ASSUME TypeOK, NEW s \in Stream, NEW i \in 1..Len(streams[s])
  PROVE  streams[s][i].id[1] \in Call
<1>1. streams[s] \in Seq(RecordedEvent)
  BY DEF TypeOK
<1>2. streams[s][i] \in RecordedEvent
  BY <1>1
<1>3. streams[s][i].id \in Call \X Nat
  BY <1>2 DEF RecordedEvent
<1> QED
  BY <1>3

\* Every step keeps the provenance of the recorded events.
LEMMA ProvenanceStep ==
  ASSUME TypeOK, LoadIsExact, UnitIsDecided, OwnStream, Provenance,
         NEW c \in Call, Step(c)
  PROVE  Provenance'
<1> DEFINE Owner(s, i) == streams[s][i].id[1]
<1>1. ASSUME NEW s \in Stream, NEW i \in 1..Len(streams[s]),
             unit'[Owner(s, i)] = unit[Owner(s, i)],
             phase'[Owner(s, i)] \in {"saving", "succeeded", "abandoned"},
             streams'[s][i] = streams[s][i]
      PROVE  ComesFrom(s, i, streams[s][i].id[1])'
  <2> PICK d \in Call : d = Owner(s, i)
    BY OwnerIsCall
  <2>1. ComesFrom(s, i, d)
    BY DEF Provenance
  <2>2. d \in Call
    OBVIOUS
  <2>3. Saves(d) /\ Stored(d)
    BY <2>1 DEF ComesFrom, Saves
  <2>4. Stored(d)'
    BY <1>1, <2>2, <2>3, StoredStable
  <2>5. /\ s = unit'[d].stream
        /\ i - unit'[d].version - 1 \in 1..Len(unit'[d].changes)
        /\ streams'[s][i] = unit'[d].changes[i - unit'[d].version - 1]
        /\ phase'[d] \in {"saving", "succeeded", "abandoned"}
    BY <1>1, <2>1 DEF ComesFrom
  <2>6. streams'[s][i].id[1] = d
    BY <1>1
  <2>7. ComesFrom(s, i, d)'
    BY <2>4, <2>5 DEF ComesFrom
  <2> QED
    BY <2>6, <2>7
<1>2. ASSUME NEW s \in Stream, NEW i \in 1..Len(streams[s])
      PROVE  /\ Owner(s, i) \in Call
             /\ phase[Owner(s, i)] \in {"saving", "succeeded", "abandoned"}
             /\ Stored(Owner(s, i))
  BY OwnerIsCall DEF Provenance, ComesFrom
<1>3. CASE /\ streams' = streams
           /\ \A d \in Call :
                phase[d] \in {"saving", "succeeded", "abandoned"} /\ Stored(d) =>
                  /\ phase'[d] \in {"saving", "succeeded", "abandoned"}
                  /\ unit'[d] = unit[d]
  <2>1. ASSUME NEW s \in Stream, NEW i \in 1..Len(streams'[s])
        PROVE  ComesFrom(s, i, streams[s][i].id[1])'
    BY <1>1, <1>2, <1>3
  <2> QED
    BY <2>1 DEF Provenance
<1>4. CASE /\ phase[c] \in {"saving", "abandoned"}
           /\ phase'[c] \in {"saving", "succeeded", "abandoned"}
           /\ Accepts(Target(c), unit[c].version)
           /\ Extend(c)
           /\ unit' = unit
  <2> DEFINE t == unit[c].stream  n == unit[c].version + 1
             new == unit[c].changes
  <2>1. Saves(c) /\ new # <<>>
    BY <1>4 DEF Saves, UnitIsDecided
  <2>2. /\ n \in Nat
        /\ Len(streams[t]) = n
        /\ \A i \in 1..Len(streams'[t]) :
              IF i <= n THEN streams'[t][i] = streams[t][i]
              ELSE i - n \in 1..Len(new) /\ streams'[t][i] = new[i - n]
        /\ \A s \in Stream \ {t} : streams'[s] = streams[s]
    BY <1>4, <2>1, NewEvents
  <2>3. Stored(c)'
    BY <1>4, <2>1, NowStored
  <2>4. /\ \A i \in 1..Len(new) : new[i].id = <<c, i>>
        /\ t \in Stream
        /\ unit[c].version \in Int
    BY <2>1, SavedUnit DEF TypeOK
  <2>5. unit'[c].stream = t /\ unit'[c].version = n - 1 /\ unit'[c].changes = new
    BY <1>4, <2>4
  <2>6. \A d \in Call : phase[d] \in {"saving", "succeeded", "abandoned"} =>
          phase'[d] \in {"saving", "succeeded", "abandoned"}
    BY <1>4, OthersUnchanged
  <2> HIDE DEF t, n, new
  <2>7. ASSUME NEW s \in Stream, NEW i \in 1..Len(streams'[s]),
               s # t \/ i <= n
        PROVE  ComesFrom(s, i, streams[s][i].id[1])'
    <3>1. i \in 1..Len(streams[s]) /\ streams'[s][i] = streams[s][i]
      BY <2>2, <2>7
    <3> QED
      BY <3>1, <1>1, <1>2, <1>4, <2>6
  <2>8. ASSUME NEW s \in Stream, s = t, NEW i \in 1..Len(streams'[s]), ~ (i <= n)
        PROVE  ComesFrom(s, i, streams[s][i].id[1])'
    <3>1. i - n \in 1..Len(new) /\ streams'[s][i] = new[i - n]
      BY <2>2, <2>8
    <3>2. streams'[s][i].id[1] = c
      BY <3>1, <2>4
    <3>3. i - (n - 1) - 1 = i - n
      BY <2>2
    <3>4. /\ s = unit'[c].stream
          /\ i - unit'[c].version - 1 = i - n
          /\ unit'[c].changes = new
          /\ phase'[c] \in {"saving", "succeeded", "abandoned"}
      BY <3>3, <1>4, <2>5, <2>8
    <3>5. ComesFrom(s, i, c)'
      BY <3>1, <3>4, <2>3 DEF ComesFrom
    <3> QED
      BY <3>2, <3>5
  <2>9. ASSUME NEW s \in Stream, NEW i \in 1..Len(streams'[s])
        PROVE  ComesFrom(s, i, streams[s][i].id[1])'
    BY <2>7, <2>8
  <2> QED
    BY <2>9 DEF Provenance
<1>5. CASE TellUnknown(c) \/ TellAndSaveWithoutLoading(c) \/ LoadTellAndSave(c)
  BY <1>3, <1>5
  DEF TypeOK, TellUnknown, TellAndSaveWithoutLoading, LoadTellAndSave, Save
<1>6. CASE ReadSlice(c) \/ ReadLastSlice(c)
  BY <1>3, <1>6 DEF TypeOK, ReadSlice, ReadLastSlice, Save
<1>7. CASE AppendEvents(c)
  BY <1>4, <1>7, ReplyProperties DEF AppendEvents, Phase
<1>8. CASE AppendAgain(c)
  <2>1. \A d \in Call : phase'[d] \in {phase[d], "succeeded"}
    BY <1>8, ReplyProperties, OthersUnchanged DEF AppendAgain, Phase
  <2> QED
    BY <1>3, <1>8, <2>1 DEF AppendAgain
<1>9. CASE RejectAppend(c)
  <2>1. ~ Stored(c)
    BY <1>9 DEF RejectAppend, Stored
  <2>2. \A d \in Call \ {c} : phase'[d] = phase[d]
    BY OthersUnchanged
  <2> QED
    BY <1>3, <1>9, <2>1, <2>2 DEF RejectAppend
<1>10. CASE GiveUp(c)
  BY <1>3, <1>10 DEF TypeOK, GiveUp
<1>11. CASE AppendLate(c)
  BY <1>4, <1>11 DEF AppendLate
<1> QED
  BY <1>5, <1>6, <1>7, <1>8, <1>9, <1>10, <1>11 DEF Step

-----------------------------------------------------------------------------
(* The invariant.                                                          *)

\* Every step keeps the outcomes justified.
LEMMA ReturnsStep ==
  ASSUME TypeOK, LoadIsExact, UnitIsDecided, OwnStream, ReturnsAreJustified,
         NEW c \in Call, Step(c)
  PROVE  ReturnsAreJustified'
<1> DEFINE Justified(d) ==
      /\ phase[d] = "succeeded" => unit[d].changes = <<>> \/ Stored(d)
      /\ phase[d] = "conflict" => Len(Target(d)) > unit[d].version + 1
<1>1. ASSUME NEW d \in Call, d # c
      PROVE  Justified(d)'
  <2>1. phase'[d] = phase[d] /\ unit'[d] = unit[d]
    BY <1>1, OthersUnchanged
  <2>2. ASSUME phase[d] = "succeeded"
        PROVE  unit'[d].changes = <<>> \/ Stored(d)'
    BY <2>1, <2>2, StoredStable DEF ReturnsAreJustified, Saves
  <2>3. ASSUME phase[d] = "conflict"
        PROVE  Len(Target(d)') > unit'[d].version + 1
    <3> DEFINE t == unit[d].stream  v == unit[d].version
    <3>1. t \in Stream /\ v \in Int
      BY DEF TypeOK
    <3>2. Len(streams[t]) > v + 1
      BY <2>3 DEF ReturnsAreJustified, Target
    <3>3. Len(streams[t]) \in Nat /\ Len(streams'[t]) \in Nat
      <4>1. /\ streams \in [Stream -> Seq(RecordedEvent)]
            /\ streams' \in [Stream -> Seq(RecordedEvent)]
        BY TypeStep DEF TypeOK
      <4> HIDE DEF t
      <4> QED
        BY <3>1, <4>1
    <3>4. Len(streams[t]) <= Len(streams'[t])
      BY <3>1, StreamsGrow DEF Grows
    <3>5. Target(d)' = streams'[t] /\ unit'[d].version = v
      BY <2>1 DEF Target
    <3> HIDE DEF t, v
    <3> QED
      BY <3>1, <3>2, <3>3, <3>4, <3>5
  <2> QED
    BY <2>1, <2>2, <2>3
<1> SUFFICES Justified(c)'
  BY <1>1 DEF ReturnsAreJustified
<1>2. ASSUME NEW transition, transition.events \in Seq(Event), Save(c, transition)
      PROVE  Justified(c)'
  <2>1. /\ unit'[c].changes = Envelopes(c, transition.events)
        /\ phase'[c] = IF transition.events = <<>> THEN "succeeded" ELSE "saving"
    BY <1>2 DEF Save, UnitOf, TypeOK
  <2>2. transition.events = <<>> => Envelopes(c, transition.events) = <<>>
    BY DEF Envelopes
  <2> QED
    BY <2>1, <2>2
<1>3. CASE TellUnknown(c) \/ LoadTellAndSave(c) \/ ReadSlice(c)
  BY <1>3 DEF TypeOK, TellUnknown, LoadTellAndSave, ReadSlice
<1>4. CASE TellAndSaveWithoutLoading(c)
  <2>1. RegisterStory(command[c]).events \in Seq(Event)
    BY RegisterDecision, CommandAssumption DEF TypeOK
  <2> QED
    BY <1>2, <1>4, <2>1 DEF TellAndSaveWithoutLoading
<1>5. CASE ReadLastSlice(c)
  <2>1. WithSlice(c) \in Seq(RecordedEvent)
    BY <1>5, WithSliceType DEF ReadLastSlice
  <2>2. RelocateStory(Bodies(WithSlice(c)), command[c]).events \in Seq(Event)
    BY <2>1, BodiesType, StoryType, CommandAssumption DEF TypeOK
  <2> QED
    BY <1>2, <1>5, <2>2 DEF ReadLastSlice
<1>6. CASE AppendEvents(c)
  <2>1. phase'[c] \in {"saving", "succeeded"} /\ unit'[c] = unit[c]
    BY <1>6, ReplyProperties DEF AppendEvents, Phase
  <2>2. Saves(c) /\ unit[c].changes # <<>>
    BY <1>6 DEF AppendEvents, Saves, UnitIsDecided
  <2>3. Stored(c)'
    BY <1>6, <2>1, <2>2, NowStored DEF AppendEvents
  <2> QED
    BY <2>1, <2>3
<1>7. CASE AppendAgain(c)
  <2>1. phase'[c] \in {"saving", "succeeded"} /\ unit'[c] = unit[c]
    BY <1>7, ReplyProperties DEF AppendAgain, Phase
  <2>2. Stored(c)
    BY <1>7 DEF AppendAgain, UnitIsDecided, Stored
  <2>3. Stored(c)'
    BY <1>7, <2>2 DEF AppendAgain, Stored, Target
  <2> QED
    BY <2>1, <2>3
<1>8. CASE RejectAppend(c)
  <2>1. /\ phase'[c] \in {"saving", "conflict"} /\ unit'[c] = unit[c]
        /\ Target(c)' = Target(c)
    BY <1>8, ReplyProperties DEF RejectAppend, Phase, Target
  <2>2. Saves(c)
    BY <1>8 DEF RejectAppend, Saves
  <2>3. /\ Len(loaded[c]) \in Nat /\ Len(Target(c)) \in Nat
        /\ unit[c].version = Len(loaded[c]) - 1
        /\ Len(loaded[c]) <= Len(Target(c))
    BY <2>2, SavedUnit, PrefixPointwise DEF TypeOK
  <2>4. Len(Target(c)) - 1 # unit[c].version
    BY <1>8 DEF RejectAppend, Accepts, LastEventNumber
  <2>5. Len(Target(c)) > unit[c].version + 1
    BY <2>3, <2>4
  <2> QED
    BY <2>1, <2>5
<1>9. CASE GiveUp(c) \/ AppendLate(c)
  BY <1>9 DEF TypeOK, GiveUp, AppendLate
<1> QED
  BY <1>3, <1>4, <1>5, <1>6, <1>7, <1>8, <1>9 DEF Step

\* The invariant holds at the start.
LEMMA InitInvariant == Init => IInv
<1> SUFFICES ASSUME Init PROVE IInv
  OBVIOUS
<1>1. NewGuid \in Stream
  BY DEF Stream, StateId
<1>2. <<>> \in Seq(RecordedEvent) /\ Len(<<>>) = 0
  OBVIOUS
<1>3. TypeOK
  BY <1>1, <1>2, MaxRetriesAssumption
  DEF Init, TypeOK, EmptyUnit, NoStream, Phase
<1>4. LoadIsExact
  <2>1. ASSUME NEW c \in Call
        PROVE  IsPrefix(<<>>, Source(c))
    <3>1. Source(c) = <<>>
      BY CommandAssumption, CommandFields DEF Init, Source, Stream, StateId
    <3>2. IsPrefix(<<>>, <<>>)
      BY DEF IsPrefix
    <3> QED
      BY <3>1, <3>2
  <2> QED
    BY <2>1 DEF Init, LoadIsExact
<1>5. UnitIsDecided
  BY DEF Init, UnitIsDecided
<1>6. OwnStream /\ Provenance
  BY <1>1, <1>2 DEF Init, OwnStream, Provenance
<1>7. ReturnsAreJustified
  BY DEF Init, ReturnsAreJustified
<1> QED
  BY <1>3, <1>4, <1>5, <1>6, <1>7 DEF IInv

\* Every step preserves it.
LEMMA NextInvariant == IInv /\ [Next]_vars => IInv'
<1> SUFFICES ASSUME IInv, [Next]_vars PROVE IInv'
  OBVIOUS
<1>1. CASE UNCHANGED vars
  <2>1. /\ TypeOK' /\ LoadIsExact' /\ UnitIsDecided'
    BY <1>1 DEF vars, IInv, TypeOK, LoadIsExact, UnitIsDecided, Source
  <2>2. OwnStream' /\ ReturnsAreJustified'
    BY <1>1 DEF vars, IInv, OwnStream, ReturnsAreJustified, Stored, Target
  <2>3. Provenance'
    BY <1>1 DEF vars, IInv, Provenance, ComesFrom, Stored, Target
  <2> QED
    BY <2>1, <2>2, <2>3 DEF IInv
<1>2. CASE Next
  <2>1. PICK c \in Call : Step(c)
    BY <1>2, NextIsStep
  <2>2. TypeOK'
    BY <2>1, TypeStep DEF IInv
  <2>3. LoadIsExact'
    BY <2>1, <2>2, LoadStep DEF IInv
  <2>4. UnitIsDecided'
    BY <2>1, UnitStep DEF IInv
  <2>5. OwnStream'
    BY <2>1, OwnStep DEF IInv
  <2>6. Provenance'
    BY <2>1, ProvenanceStep DEF IInv
  <2>7. ReturnsAreJustified'
    BY <2>1, ReturnsStep DEF IInv
  <2> QED
    BY <2>2, <2>3, <2>4, <2>5, <2>6, <2>7 DEF IInv
<1> QED
  BY <1>1, <1>2

\* The inductive invariant holds in every state of every behaviour.
THEOREM Invariant == Spec => []IInv
BY InitInvariant, NextInvariant, PTL DEF Spec

-----------------------------------------------------------------------------
(* The safety properties.                                                  *)

\* The variables keep their types (Stories, UseCasesOf, EventStorage), for
\* every set of calls, commands and customers.
THEOREM TypeCorrect == Spec => []TypeOK
<1>1. IInv => TypeOK
  BY DEF IInv
<1> QED
  BY <1>1, Invariant, PTL

\* ReadToEnd collects a prefix of its stream, for every slice size.
THEOREM LoadCorrect == Spec => []LoadIsPrefix
<1>1. IInv => LoadIsPrefix
  BY DEF IInv, LoadIsExact, LoadIsPrefix
<1> QED
  BY <1>1, Invariant, PTL

\* Repository.Save puts a customer's events in the customer's stream only.
THEOREM OwnStreams == Spec => []OwnStream
<1>1. IInv => OwnStream
  BY DEF IInv
<1> QED
  BY <1>1, Invariant, PTL

\* The event at a place of a stream is the k-th that call c decided on.
IsDecision(s, i, c, k) ==
  /\ Saves(c)
  /\ s = unit[c].stream
  /\ streams[s][i].id = <<c, k>>
  /\ i = unit[c].version + 1 + k
  /\ unit[c].version = Len(loaded[c]) - 1
  /\ k \in 1..Len(Decision(c))
  /\ streams[s][i].body = Decision(c)[k]

\* The numbers that places in streams are computed from.
LEMMA LengthsAreNat ==
  ASSUME TypeOK, NEW s \in Stream, NEW c \in Call
  PROVE  /\ unit[c].version \in Int
         /\ Len(unit[c].changes) \in Nat
         /\ Len(streams[s]) \in Nat
<1>1. streams[s] \in Seq(RecordedEvent)
  BY DEF TypeOK
<1>2. unit[c].version \in Int /\ unit[c].changes \in Seq(RecordedEvent)
  BY DEF TypeOK
<1> QED
  BY <1>1, <1>2

\* Every recorded event was decided on by a call.
LEMMA DecidedEvent ==
  ASSUME IInv, NEW s \in Stream, NEW i \in 1..Len(streams[s])
  PROVE  \E c \in Call, k \in Nat \ {0} : IsDecision(s, i, c, k)
<1> USE DEF IInv
<1> PICK c \in Call : c = streams[s][i].id[1]
  BY OwnerIsCall
<1> DEFINE k == i - unit[c].version - 1
<1>1. ComesFrom(s, i, c)
  BY DEF Provenance
<1>2. /\ Saves(c)
      /\ s = unit[c].stream
      /\ k \in 1..Len(unit[c].changes)
      /\ streams[s][i] = unit[c].changes[k]
  BY <1>1 DEF ComesFrom, Saves
<1>3. /\ unit[c].version = Len(loaded[c]) - 1
      /\ Len(unit[c].changes) = Len(Decision(c))
      /\ \A j \in 1..Len(unit[c].changes) :
           /\ unit[c].changes[j].id = <<c, j>>
           /\ unit[c].changes[j].body = Decision(c)[j]
  BY <1>2, SavedUnit
<1>4. unit[c].version \in Int /\ i \in Int /\ Len(unit[c].changes) \in Nat
  <2>1. /\ unit[c].version \in Int
        /\ Len(unit[c].changes) \in Nat
        /\ Len(streams[s]) \in Nat
    BY LengthsAreNat
  <2> QED
    BY <2>1
<1>5. /\ streams[s][i].id = <<c, k>>
      /\ streams[s][i].body = Decision(c)[k]
      /\ k \in 1..Len(Decision(c))
  BY <1>2, <1>3
<1>6. i = unit[c].version + 1 + k /\ k \in Nat \ {0}
  <2>1. i = unit[c].version + 1 + k
    BY <1>4
  <2> HIDE DEF k
  <2>2. k \in 1..Len(unit[c].changes)
    BY <1>2
  <2>3. k \in Nat \ {0}
    BY <2>2, <1>4
  <2> QED
    BY <2>1, <2>3
<1> HIDE DEF k
<1> QED
  BY <1>2, <1>3, <1>5, <1>6 DEF IsDecision

\* However often the client transmits an append, its events are stored once.
THEOREM AppliedOnce == Spec => []AppliedAtMostOnce
<1>1. ASSUME IInv PROVE AppliedAtMostOnce
  <2> SUFFICES ASSUME NEW s \in Stream, NEW t \in Stream,
                      NEW i \in 1..Len(streams[s]), NEW j \in 1..Len(streams[t]),
                      streams[s][i].id = streams[t][j].id
               PROVE  s = t /\ i = j
    BY DEF AppliedAtMostOnce
  <2>1. PICK c \in Call, k \in Nat \ {0} : IsDecision(s, i, c, k)
    BY <1>1, DecidedEvent
  <2>2. PICK d \in Call, l \in Nat \ {0} : IsDecision(t, j, d, l)
    BY <1>1, DecidedEvent
  <2>3. <<c, k>> = <<d, l>>
    BY <2>1, <2>2 DEF IsDecision
  <2>4. c = d /\ k = l
    BY <2>3
  <2> QED
    BY <2>1, <2>2, <2>4 DEF IsDecision
<1> QED
  BY <1>1, Invariant, PTL

\* A caller is told what happened to its events, whatever the other calls do.
THEOREM TruthfulOutcomes == Spec => []OutcomesAreTruthful
<1>1. ASSUME IInv PROVE OutcomesAreTruthful
  <2>1. ASSUME NEW c \in Call, NEW s \in Stream, HasTraceIn(c, s)
        PROVE  /\ phase[c] \in {"saving", "succeeded", "abandoned"}
               /\ s = unit[c].stream
               /\ Stored(c)
    <3>1. PICK i \in 1..Len(streams[s]) : streams[s][i].id[1] = c
      BY <2>1 DEF HasTraceIn
    <3>2. ComesFrom(s, i, c)
      BY <1>1, <3>1 DEF IInv, Provenance
    <3> QED
      BY <3>2 DEF ComesFrom
  <2>2. ReturnsAreJustified
    BY <1>1 DEF IInv
  <2> QED
    BY <2>1, <2>2 DEF ReturnsAreJustified, OutcomesAreTruthful
<1> QED
  BY <1>1, Invariant, PTL

\* What a call that loads decides on never registers a customer, and relocates
\* it only as its first event, away from the address that it has loaded.
LEMMA LoadedDecision ==
  ASSUME IInv, NEW c \in Call, Saves(c), command[c].type # "RegisterCustomer",
         NEW k \in 1..Len(Decision(c))
  PROVE  /\ Decision(c)[k].type # "CustomerRegistered"
         /\ Decision(c)[k].type = "CustomerRelocated" =>
              /\ k = 1
              /\ Decision(c)[k].address #
                   After(NewState(unit[c].stream), Bodies(loaded[c])).address
<1> DEFINE cmd == command[c]
           customer == After(NewState(cmd.customerId), Bodies(loaded[c]))
<1>1. cmd \in AnyCommand /\ loaded[c] \in Seq(RecordedEvent)
  BY CommandAssumption DEF IInv, TypeOK
<1>2. customer \in State
  BY <1>1, BodiesType, CommandFields, NewStateType, AfterType DEF StateId
<1>3. Decision(c) = Relocate(customer, cmd.address, cmd.phoneNumber).events
  BY DEF Decision, Decide, RelocateStory
<1>4. unit[c].stream = cmd.customerId
  BY SavedUnit DEF IInv
<1> HIDE DEF customer
<1>5. /\ Decision(c)[k].type # "CustomerRegistered"
      /\ Decision(c)[k].type = "CustomerRelocated" =>
           k = 1 /\ Decision(c)[k].address # customer.address
  BY <1>1, <1>2, <1>3, CommandFields, RelocateDecision
<1> QED
  BY <1>4, <1>5 DEF customer

\* A call that does not load decides on one registration, and loads nothing.
LEMMA RegisterIsAlone ==
  ASSUME IInv, NEW c \in Call, Saves(c), command[c].type = "RegisterCustomer"
  PROVE  /\ Len(loaded[c]) = 0
         /\ Len(Decision(c)) = 1
         /\ Decision(c)[1].type = "CustomerRegistered"
<1>1. loaded[c] = <<>>
  BY DEF IInv, UnitIsDecided, Saves
<1>2. Decision(c) = RegisterStory(command[c]).events
  BY DEF Decision, Decide
<1> QED
  BY <1>1, <1>2, RegisterDecision, CommandAssumption DEF IInv, TypeOK

\* A customer is registered at most once and first of all.
THEOREM RegisteredFirst == Spec => []RegisteredOnlyFirst
<1>1. ASSUME IInv PROVE RegisteredOnlyFirst
  <2> SUFFICES ASSUME NEW s \in Stream, NEW i \in 1..Len(streams[s]),
                      streams[s][i].body.type = "CustomerRegistered"
               PROVE  i = 1
    BY DEF RegisteredOnlyFirst
  <2>0. PICK c \in Call, k \in Nat \ {0} : IsDecision(s, i, c, k)
    BY <1>1, DecidedEvent
  <2>1. /\ Saves(c)
        /\ i = unit[c].version + 1 + k
        /\ unit[c].version = Len(loaded[c]) - 1
        /\ k \in 1..Len(Decision(c))
        /\ streams[s][i].body = Decision(c)[k]
    BY <2>0 DEF IsDecision
  <2>2. command[c].type = "RegisterCustomer"
    BY <1>1, <2>1, LoadedDecision
  <2>3. Len(loaded[c]) = 0 /\ Len(Decision(c)) = 1
    BY <1>1, <2>1, <2>2, RegisterIsAlone
  <2> QED
    BY <2>1, <2>3
<1> QED
  BY <1>1, Invariant, PTL

\* No relocation is recorded to the address a customer has at that point,
\* though its call decided on a history that it had read before.
THEOREM RelocationsAreMoves == Spec => []NoRedundantRelocation
<1>1. ASSUME IInv PROVE NoRedundantRelocation
  <2> SUFFICES ASSUME NEW s \in Stream, NEW i \in 1..Len(streams[s]),
                      streams[s][i].body.type = "CustomerRelocated"
               PROVE  streams[s][i].body.address
                        # After(NewState(s), SubSeq(Bodies(streams[s]), 1, i - 1)).address
    BY DEF NoRedundantRelocation
  <2>0. PICK c \in Call, k \in Nat \ {0} : IsDecision(s, i, c, k)
    BY <1>1, DecidedEvent
  <2>1. /\ Saves(c)
        /\ s = unit[c].stream
        /\ i = unit[c].version + 1 + k
        /\ unit[c].version = Len(loaded[c]) - 1
        /\ k \in 1..Len(Decision(c))
        /\ streams[s][i].body = Decision(c)[k]
    BY <2>0 DEF IsDecision
  <2>2. command[c].type # "RegisterCustomer"
    <3>1. ASSUME command[c].type = "RegisterCustomer" PROVE FALSE
      <4>1. Len(Decision(c)) = 1 /\ Decision(c)[1].type = "CustomerRegistered"
        BY <1>1, <2>1, <3>1, RegisterIsAlone
      <4>2. k = 1
        BY <2>1, <4>1
      <4> QED
        BY <2>1, <4>1, <4>2
    <3> QED
      BY <3>1
  <2>3. k = 1 /\ Decision(c)[k].address
                   # After(NewState(s), Bodies(loaded[c])).address
    BY <1>1, <2>1, <2>2, LoadedDecision
  <2> DEFINE p == loaded[c]  all == streams[s]  cut == SubSeq(Bodies(all), 1, i - 1)
  <2>4. /\ p \in Seq(RecordedEvent) /\ all \in Seq(RecordedEvent)
        /\ IsPrefix(p, all)
    BY <1>1, <2>1, SavedUnit DEF IInv, TypeOK, Target
  <2>5. i - 1 = Len(p) /\ Len(p) \in Nat
    BY <2>1, <2>3, <2>4
  <2> HIDE DEF p, all
  <2>6. /\ Len(p) <= Len(all)
        /\ \A j \in 1..Len(p) : p[j] = all[j]
        /\ Len(all) \in Nat
    BY <2>4, PrefixPointwise
  <2>7. /\ Bodies(p) \in Seq(Event) /\ Bodies(all) \in Seq(Event)
        /\ Len(Bodies(p)) = Len(p) /\ Len(Bodies(all)) = Len(all)
        /\ \A j \in 1..Len(p) : Bodies(p)[j] = Bodies(all)[j]
    <3>1. /\ Bodies(p) \in Seq(Event)
          /\ Len(Bodies(p)) = Len(p)
          /\ \A j \in 1..Len(p) : Bodies(p)[j] = p[j].body
      BY <2>4, BodiesType
    <3>2. /\ Bodies(all) \in Seq(Event)
          /\ Len(Bodies(all)) = Len(all)
          /\ \A j \in 1..Len(all) : Bodies(all)[j] = all[j].body
      BY <2>4, BodiesType
    <3>3. \A j \in 1..Len(p) : j \in 1..Len(all)
      BY <2>5, <2>6
    <3> QED
      BY <3>1, <3>2, <3>3, <2>6
  <2>8. IsPrefix(Bodies(p), Bodies(all))
    BY <2>6, <2>7, PrefixPointwise
  <2>9. Bodies(p) = cut
    <3>1. SubSeq(Bodies(p), 1, Len(Bodies(p))) = SubSeq(Bodies(all), 1, Len(Bodies(p)))
      BY <2>8 DEF IsPrefix
    <3>2. SubSeq(Bodies(p), 1, Len(Bodies(p))) = Bodies(p)
      BY <2>7
    <3> QED
      BY <3>1, <3>2, <2>5, <2>7
  <2> QED
    BY <2>1, <2>3, <2>9 DEF p, all
<1> QED
  BY <1>1, Invariant, PTL

-----------------------------------------------------------------------------
(* Refinement.                                                             *)

\* AtomicCommands decides as the aggregate does.
LEMMA AtomicDecide ==
  ASSUME NEW cmd, NEW past
  PROVE  /\ Atomic!Decide(cmd, past) = Decide(cmd, past)
         /\ Atomic!CanTell(cmd) <=> CanTell(cmd)
BY DEF Decide, RegisterStory, RelocateStory, Register, Relocate, Relocation,
   ContactInfoChange, Transition, NewState, After, Latest, IsLatest, IdsOf,
   AddressesOf, PhoneNumbersOf, SetsId, SetsAddress, SetsPhoneNumber,
   CustomerRegistered, CustomerRelocated, CustomerContactInfoChanged, CanTell,
   Atomic!Decide, Atomic!RegisterStory, Atomic!RelocateStory, Atomic!Register,
   Atomic!Relocate, Atomic!Relocation, Atomic!ContactInfoChange,
   Atomic!Transition, Atomic!NewState, Atomic!After, Atomic!Latest,
   Atomic!IsLatest, Atomic!IdsOf, Atomic!AddressesOf, Atomic!PhoneNumbersOf,
   Atomic!SetsId, Atomic!SetsAddress, Atomic!SetsPhoneNumber,
   Atomic!CustomerRegistered, Atomic!CustomerRelocated,
   Atomic!CustomerContactInfoChanged, Atomic!CanTell

\* The initial states are initial states of AtomicCommands.
LEMMA InitMaps == Init => Atomic!Init
<1> SUFFICES ASSUME Init PROVE Atomic!Init
  OBVIOUS
<1>1. ASSUME NEW id \in CustomerId PROVE Bodies(streams[id]) = <<>>
  BY DEF Init, Stream, StateId, Bodies
<1>2. ASSUME NEW c \in Call PROVE phase[c] = "idle" /\ ~ Stored(c)
  BY DEF Init, EmptyUnit, Stored
<1>3. History = [id \in CustomerId |-> <<>>]
  BY <1>1 DEF History
<1>4. Effect = [c \in Call |-> "pending"]
  BY <1>2 DEF Effect
<1> QED
  BY <1>3, <1>4 DEF Init, Atomic!Init

\* A call that has not decided has nothing stored, and so has one that has
\* just decided.
LEMMA NothingStored ==
  ASSUME IInv, NEW c \in Call, phase[c] \notin {"saving", "succeeded", "abandoned"}
  PROVE  \A s \in Stream : ~ HasTraceIn(c, s)
<1> SUFFICES ASSUME NEW s \in Stream, NEW i \in 1..Len(streams[s]),
                    streams[s][i].id[1] = c
             PROVE  FALSE
  BY DEF HasTraceIn
<1>1. ComesFrom(s, i, c)
  BY DEF IInv, Provenance
<1> QED
  BY <1>1 DEF ComesFrom

\* A unit of work that is stored has left a trace.
LEMMA StoredHasTrace ==
  ASSUME IInv, NEW c \in Call, Saves(c), Stored(c)
  PROVE  HasTraceIn(c, unit[c].stream)
<1> DEFINE t == unit[c].stream  v == unit[c].version  new == unit[c].changes
<1>1. /\ new # <<>>
      /\ v + 1 + Len(new) <= Len(streams[t])
      /\ \A i \in 1..Len(new) : streams[t][v + 1 + i].id = new[i].id
  BY DEF Stored, AlreadyAppended, Target
<1>2. /\ new \in Seq(RecordedEvent)
      /\ \A i \in 1..Len(new) : new[i].id = <<c, i>>
      /\ t \in Stream
      /\ v = Len(loaded[c]) - 1 /\ Len(loaded[c]) \in Nat
  BY SavedUnit DEF IInv, TypeOK
<1>3. Len(streams[t]) \in Nat
  BY LengthsAreNat, SavedUnit DEF IInv
<1> HIDE DEF t, v, new
<1>4. 1 \in 1..Len(new)
  BY <1>1, <1>2
<1>5. v + 1 + 1 \in 1..Len(streams[t])
  BY <1>1, <1>2, <1>3, <1>4
<1>6. streams[t][v + 1 + 1].id = <<c, 1>>
  BY <1>1, <1>2, <1>4
<1>7. streams[t][v + 1 + 1].id[1] = c
  BY <1>6
<1>8. HasTraceIn(c, t)
  BY <1>5, <1>7 DEF HasTraceIn
<1> QED
  BY <1>8 DEF t

\* A unit of work that has not been decided is not stored.
LEMMA UndecidedIsNotStored ==
  ASSUME IInv, NEW c \in Call, Stored(c)
  PROVE  phase[c] \in {"saving", "succeeded", "abandoned"}
<1>1. Saves(c)
  <2>1. unit[c] # EmptyUnit
    BY DEF EmptyUnit, Stored
  <2> QED
    BY <2>1 DEF IInv, UnitIsDecided, Saves
<1>2. HasTraceIn(c, unit[c].stream) /\ unit[c].stream \in Stream
  BY <1>1, StoredHasTrace DEF IInv, TypeOK
<1> QED
  BY <1>2, NothingStored

\* A call that decides now has nothing stored yet.
LEMMA FreshUnit ==
  ASSUME IInv, NEW c \in Call, phase[c] \in {"idle", "reading"},
         NEW past \in Seq(Event), Decide(command[c], past) \in Seq(Event),
         unit'[c] = DecidedUnit(c, past), streams' = streams
  PROVE  ~ Stored(c)'
<1> SUFFICES ASSUME Stored(c)' PROVE FALSE
  OBVIOUS
<1> DEFINE t == command[c].customerId  n == Len(past)
           decision == Decide(command[c], past)  new == Envelopes(c, decision)
<1>1. t \in Stream
  BY CommandAssumption, CommandFields DEF IInv, TypeOK, Stream, StateId
<1>2. /\ unit'[c].stream = t
      /\ unit'[c].version = n - 1
      /\ unit'[c].changes = new
  BY DEF DecidedUnit
<1>3. /\ new \in Seq(RecordedEvent)
      /\ Len(new) = Len(decision)
      /\ \A i \in 1..Len(decision) : new[i].id = <<c, i>>
  BY EnvelopesType
<1>4. Len(streams[t]) \in Nat
  BY <1>1, LengthsAreNat DEF IInv
<1> HIDE DEF t, decision, new
<1>5. /\ new # <<>>
      /\ n - 1 + 1 + Len(new) <= Len(streams[t])
      /\ \A i \in 1..Len(new) : streams[t][n - 1 + 1 + i].id = new[i].id
  BY <1>2 DEF Stored, AlreadyAppended, Target
<1>6. 1 \in 1..Len(new) /\ n \in Nat
  BY <1>3, <1>5
<1>7. n - 1 + 1 + 1 \in 1..Len(streams[t])
  BY <1>3, <1>4, <1>5, <1>6
<1>8. streams[t][n - 1 + 1 + 1].id = <<c, 1>>
  BY <1>3, <1>5, <1>6
<1>9. HasTraceIn(c, t)
  BY <1>7, <1>8 DEF HasTraceIn
<1> QED
  BY <1>1, <1>9, NothingStored

\* A step of a call neither stores nor removes the events of another.
LEMMA OthersStored ==
  ASSUME IInv, NEW c \in Call, Step(c), NEW d \in Call, d # c
  PROVE  Stored(d)' <=> Stored(d)
<1> USE DEF IInv
<1>1. unit'[d] = unit[d]
  BY OthersUnchanged
<1>2. CASE streams' = streams
  BY <1>1, <1>2 DEF Stored, Target
<1>3. CASE ~ Saves(d)
  <2>1. unit[d] = EmptyUnit
    BY <1>3 DEF UnitIsDecided, Saves
  <2> QED
    BY <1>1, <2>1 DEF Stored, EmptyUnit
<1>4. CASE Saves(d) /\ Stored(d)
  BY <1>1, <1>4, StoredStable
<1>5. CASE /\ Saves(d) /\ Stored(d)'
           /\ Saves(c) /\ Accepts(Target(c), unit[c].version) /\ Extend(c)
  <2> SUFFICES Stored(d)
    BY <1>5
  <2> DEFINE t == unit[d].stream  v == unit[d].version  new == unit[d].changes
             u == unit[c].stream  n == unit[c].version + 1
             own == unit[c].changes
  <2>1. /\ new # <<>>
        /\ v + 1 + Len(new) <= Len(streams'[t])
        /\ \A i \in 1..Len(new) : streams'[t][v + 1 + i].id = new[i].id
    BY <1>1, <1>5 DEF Stored, AlreadyAppended, Target
  <2>2. /\ new \in Seq(RecordedEvent)
        /\ \A i \in 1..Len(new) : new[i].id = <<d, i>>
        /\ t \in Stream
        /\ v + 1 \in Nat /\ v \in Int
    <3>1. /\ new \in Seq(RecordedEvent)
          /\ \A i \in 1..Len(new) : new[i].id = <<d, i>>
          /\ t \in Stream
          /\ v = Len(loaded[d]) - 1
      BY <1>5, SavedUnit
    <3>2. Len(loaded[d]) \in Nat
      BY DEF TypeOK
    <3> HIDE DEF new, t, v
    <3> QED
      BY <3>1, <3>2
  <2>3. \A i \in 1..Len(own) : own[i].id = <<c, i>>
    BY <1>5, SavedUnit
  <2>4. /\ n \in Nat
        /\ Len(streams[u]) = n
        /\ Len(streams'[u]) = n + Len(own)
        /\ \A i \in 1..Len(streams'[u]) :
              IF i <= n THEN streams'[u][i] = streams[u][i]
              ELSE i - n \in 1..Len(own) /\ streams'[u][i] = own[i - n]
        /\ \A s \in Stream \ {u} : streams'[s] = streams[s]
    BY <1>5, NewEvents
  <2>5. Len(own) \in Nat
    BY <2>2, LengthsAreNat
  <2>6. Stored(d) <=> /\ new # <<>>
                      /\ v + 1 + Len(new) <= Len(streams[t])
                      /\ \A i \in 1..Len(new) :
                           streams[t][v + 1 + i].id = new[i].id
    BY DEF Stored, AlreadyAppended, Target
  <2> HIDE DEF t, v, new, u, n, own
  <2>7. CASE t # u
    BY <2>1, <2>2, <2>4, <2>6, <2>7
  <2>8. CASE t = u
    <3>1. ASSUME NEW i \in 1..Len(new)
          PROVE  /\ v + 1 + i <= n
                 /\ streams[t][v + 1 + i].id = new[i].id
      <4> DEFINE j == v + 1 + i
      <4>1. j \in 1..Len(streams'[u]) /\ streams'[u][j].id = <<d, i>>
        <5>1. i \in Nat \ {0} /\ i <= Len(new) /\ Len(new) \in Nat
          BY <2>2
        <5>2. Len(streams'[u]) \in Nat
          BY <2>4, <2>5
        <5>3. j \in 1..Len(streams'[u])
          BY <5>1, <5>2, <2>1, <2>2, <2>8
        <5> QED
          BY <5>3, <2>1, <2>2, <2>8
      <4> HIDE DEF j
      <4>2. j <= n
        <5>1. ASSUME ~ (j <= n) PROVE FALSE
          <6>1. j - n \in 1..Len(own) /\ streams'[u][j] = own[j - n]
            BY <4>1, <5>1, <2>4
          <6>2. streams'[u][j].id = <<c, j - n>>
            BY <6>1, <2>3
          <6> QED
            BY <4>1, <6>2
        <5> QED
          BY <5>1
      <4>3. streams[u][j] = streams'[u][j]
        BY <4>1, <4>2, <2>4
      <4> QED
        BY <4>2, <4>3, <2>1, <2>8 DEF j
    <3>2. Len(new) \in 1..Len(new)
      BY <2>1, <2>2
    <3>3. v + 1 + Len(new) <= Len(streams[t])
      BY <3>1, <3>2, <2>4, <2>8
    <3> QED
      BY <3>1, <3>3, <2>1, <2>6
  <2> QED
    BY <2>7, <2>8
<1> QED
  BY <1>2, <1>3, <1>4, <1>5 DEF Step, Saves, TellUnknown,
     TellAndSaveWithoutLoading, LoadTellAndSave, ReadSlice, ReadLastSlice,
     AppendEvents, AppendAgain, RejectAppend, GiveUp, AppendLate

\* A prefix as long as the sequence is the sequence.
LEMMA WholePrefix ==
  ASSUME NEW S, NEW p \in Seq(S), NEW s \in Seq(S), IsPrefix(p, s), Len(p) = Len(s)
  PROVE  p = s
<1>1. SubSeq(p, 1, Len(p)) = p /\ SubSeq(s, 1, Len(p)) = s
  OBVIOUS
<1> QED
  BY <1>1 DEF IsPrefix

\* The bodies of a stream that is extended by events.
LEMMA BodiesConcat ==
  ASSUME NEW c \in Call, NEW s \in Seq(RecordedEvent), NEW events \in Seq(Event)
  PROVE  Bodies(s \o Envelopes(c, events)) = Bodies(s) \o events
<1> DEFINE new == Envelopes(c, events)  all == s \o new
           left == Bodies(all)  right == Bodies(s) \o events
<1>1. /\ new \in Seq(RecordedEvent) /\ Len(new) = Len(events)
      /\ \A i \in 1..Len(events) : new[i].body = events[i]
  BY EnvelopesType
<1> HIDE DEF new
<1>2. /\ all \in Seq(RecordedEvent)
      /\ Len(all) = Len(s) + Len(new)
      /\ \A i \in 1..Len(all) :
           all[i] = IF i <= Len(s) THEN s[i] ELSE new[i - Len(s)]
  BY <1>1, ConcatPointwise
<1> HIDE DEF all
<1>3. /\ left \in Seq(Event) /\ Len(left) = Len(all)
      /\ \A i \in 1..Len(all) : left[i] = all[i].body
  BY <1>2, BodiesType
<1>4. /\ Bodies(s) \in Seq(Event) /\ Len(Bodies(s)) = Len(s)
      /\ \A i \in 1..Len(s) : Bodies(s)[i] = s[i].body
  BY BodiesType
<1>5. /\ right \in Seq(Event)
      /\ Len(right) = Len(Bodies(s)) + Len(events)
      /\ \A i \in 1..Len(right) :
           right[i] = IF i <= Len(Bodies(s)) THEN Bodies(s)[i]
                      ELSE events[i - Len(Bodies(s))]
  BY <1>4, ConcatPointwise
<1> HIDE DEF left, right
<1>6. Len(s) \in Nat /\ Len(events) \in Nat /\ Len(left) = Len(right)
  BY <1>1, <1>2, <1>3, <1>4, <1>5
<1>7. ASSUME NEW i \in 1..Len(left) PROVE left[i] = right[i]
  <2>1. CASE i <= Len(s)
    <3>1. i \in 1..Len(s)
      BY <2>1, <1>6
    <3> QED
      BY <3>1, <2>1, <1>2, <1>3, <1>4, <1>5, <1>6
  <2>2. CASE ~ (i <= Len(s))
    <3>1. i - Len(s) \in 1..Len(events)
      BY <2>2, <1>1, <1>2, <1>3, <1>6
    <3>2. left[i] = new[i - Len(s)].body
      BY <2>2, <1>2, <1>3
    <3>3. right[i] = events[i - Len(s)]
      BY <2>2, <1>4, <1>5, <1>6
    <3> QED
      BY <3>1, <3>2, <3>3, <1>1
  <2> QED
    BY <2>1, <2>2
<1>8. left = right
  BY <1>3, <1>5, <1>6, <1>7, SeqEqual
<1> QED
  BY <1>8 DEF left, right, all, new

EffectOf(c) ==
  IF phase[c] = "succeeded" \/ Stored(c) THEN "applied"
  ELSE IF phase[c] \in {"conflict", "refused", "failed"} THEN "refused"
  ELSE "pending"

\* An append that the server accepts executes its command.
LEMMA AppendExecutes ==
  ASSUME IInv, NEW c \in Call, Step(c), phase[c] \in {"saving", "abandoned"},
         Accepts(Target(c), unit[c].version), Extend(c), unit'[c] = unit[c]
  PROVE  LET id == command[c].customerId IN
         /\ EffectOf(c) = "pending"
         /\ EffectOf(c)' = "applied"
         /\ CanTell(command[c])
         /\ command[c].type = "RegisterCustomer" => History[id] = <<>>
         /\ id \in CustomerId
         /\ History' = [History EXCEPT ![id] =
                          History[id] \o Decide(command[c], History[id])]
<1> USE DEF IInv
<1> DEFINE id == command[c].customerId  new == unit[c].changes
           past == Bodies(loaded[c])
<1>1. /\ Saves(c) /\ new # <<>> /\ CanTell(command[c])
      /\ new = Envelopes(c, Decision(c))
      /\ command[c].type = "RegisterCustomer" => loaded[c] = <<>>
  <2>1. /\ CanTell(command[c])
        /\ command[c].type = "RegisterCustomer" => loaded[c] = <<>>
        /\ unit[c] = [stream |-> id, version |-> Len(loaded[c]) - 1,
                      changes |-> Envelopes(c, Decision(c))]
        /\ unit[c].changes # <<>>
    BY DEF UnitIsDecided, Decision
  <2>2. Saves(c)
    BY DEF Saves
  <2> QED
    BY <2>1, <2>2
<1>2. id \in CustomerId
  BY CommandAssumption, CommandFields DEF TypeOK
<1>3. /\ unit[c].stream = id
      /\ Target(c) = Source(c)
      /\ Target(c) \in Seq(RecordedEvent)
      /\ unit[c].version = Len(loaded[c]) - 1
      /\ IsPrefix(loaded[c], Target(c))
      /\ Decision(c) \in Seq(Event)
      /\ new \in Seq(RecordedEvent)
      /\ loaded[c] \in Seq(RecordedEvent)
  BY <1>1, SavedUnit DEF TypeOK
<1>4. Len(Target(c)) - 1 = unit[c].version
  BY DEF Accepts, LastEventNumber
<1>5. Len(loaded[c]) = Len(Target(c)) /\ Len(Target(c)) \in Nat
  BY <1>3, <1>4
<1>6. loaded[c] = Target(c) /\ Target(c) = streams[id]
  <2>1. loaded[c] = Target(c)
    BY <1>3, <1>5, WholePrefix
  <2> QED
    BY <2>1, <1>3 DEF Target
<1>7. ~ Stored(c)
  <2>1. Len(new) \in Nat /\ Len(new) # 0
    BY <1>1, <1>3
  <2>2. ~ (unit[c].version + 1 + Len(new) <= Len(Target(c)))
    BY <2>1, <1>3, <1>5
  <2> QED
    BY <2>2 DEF Stored, AlreadyAppended
<1>8. Stored(c)'
  BY <1>1, NowStored
<1>9. EffectOf(c) = "pending" /\ EffectOf(c)' = "applied"
  BY <1>7, <1>8 DEF EffectOf
<1>10. History[id] = past
  BY <1>2, <1>6 DEF History
<1>11. command[c].type = "RegisterCustomer" => History[id] = <<>>
  BY <1>1, <1>10 DEF Bodies
<1>12. streams' = [streams EXCEPT ![id] = streams[id] \o Envelopes(c, Decision(c))]
  BY <1>1, <1>3 DEF Extend
<1>13. Bodies(streams[id] \o Envelopes(c, Decision(c))) = past \o Decision(c)
  BY <1>3, <1>6, BodiesConcat
<1>14. History' = [History EXCEPT ![id] = past \o Decision(c)]
  <2>1. \A k \in CustomerId : k \in Stream
    BY DEF Stream, StateId
  <2>2. \A k \in CustomerId :
          Bodies(streams'[k]) = IF k = id THEN past \o Decision(c) ELSE Bodies(streams[k])
    BY <2>1, <1>12, <1>13 DEF TypeOK
  <2> HIDE DEF past, id
  <2> QED
    BY <2>2, <1>2 DEF History
<1>15. past \o Decision(c) = History[id] \o Decide(command[c], History[id])
  BY <1>10 DEF Decision
<1> QED
  BY <1>1, <1>2, <1>9, <1>11, <1>14, <1>15

\* A load that is complete and decides on nothing executes its command.
LEMMA LastSliceExecutes ==
  ASSUME IInv, NEW c \in Call, ReadLastSlice(c), phase'[c] = "succeeded"
  PROVE  LET id == command[c].customerId IN
         /\ CanTell(command[c])
         /\ command[c].type # "RegisterCustomer"
         /\ id \in CustomerId
         /\ History[id] \o Decide(command[c], History[id]) = History[id]
<1> USE DEF IInv
<1> DEFINE id == command[c].customerId  s == Source(c)
           story == RelocateStory(Bodies(WithSlice(c)), command[c])
<1>1. command[c].type = "RelocateCustomer"
  BY DEF ReadLastSlice, LoadIsExact
<1>2. id \in CustomerId
  BY CommandAssumption, CommandFields DEF TypeOK
<1>3. s = streams[id] /\ s \in Seq(RecordedEvent) /\ position[c] \in Nat
  BY <1>2 DEF Source, TypeOK, Stream, StateId
<1>4. /\ WithSlice(c) \in Seq(RecordedEvent)
      /\ IsPrefix(WithSlice(c), s)
      /\ Len(WithSlice(c)) = SliceEnd(s, position[c], SliceSize)
  BY WithSliceType DEF ReadLastSlice
<1>5. SliceEnd(s, position[c], SliceSize) = Len(s)
  <2>1. position[c] + SliceSize >= Len(s)
    BY DEF ReadLastSlice, IsEndOfStream
  <2>2. Len(s) \in Nat
    BY <1>3
  <2> HIDE DEF s
  <2> QED
    BY <2>1, <2>2, <1>3, SliceSizeAssumption DEF SliceEnd
<1>6. WithSlice(c) = s
  BY <1>3, <1>4, <1>5, WholePrefix
<1>7. story.events = <<>>
  BY DEF ReadLastSlice, Save, TypeOK
<1>8. History[id] = Bodies(s) /\ Bodies(s) \in Seq(Event)
  BY <1>2, <1>3, BodiesType DEF History
<1>9. Decide(command[c], History[id]) = <<>>
  BY <1>1, <1>6, <1>7, <1>8 DEF Decide
<1>10. History[id] \o <<>> = History[id]
  BY <1>8
<1> QED
  BY <1>1, <1>2, <1>9, <1>10 DEF CanTell

\* Every step of the write side is a step of AtomicCommands or changes
\* nothing there.
LEMMA StepMaps ==
  ASSUME IInv, NEW c \in Call, Step(c)
  PROVE  [Atomic!Next]_(Atomic!vars)
<1> USE DEF IInv
<1> DEFINE id == command[c].customerId
<1>1. command' = command
  BY CommandUnchanged
<1>2. \A d \in Call \ {c} : EffectOf(d)' = EffectOf(d)
  BY OthersUnchanged, OthersStored DEF EffectOf
<1>3. Effect = [d \in Call |-> EffectOf(d)]
  BY DEF Effect, EffectOf
<1>4. Effect' = [Effect EXCEPT ![c] = EffectOf(c)']
  <2>1. Effect' = [d \in Call |-> EffectOf(d)']
    BY DEF Effect, EffectOf
  <2> QED
    BY <2>1, <1>2, <1>3
<1>5. ASSUME streams' = streams PROVE History' = History
  BY <1>5 DEF History
<1>6. ASSUME History' = History, EffectOf(c)' = EffectOf(c)
      PROVE  UNCHANGED Atomic!vars
  <2>1. Effect' = Effect
    BY <1>3, <1>4, <1>6
  <2> QED
    BY <2>1, <1>1, <1>6 DEF Atomic!vars
<1>7. ASSUME History' = History, EffectOf(c) = "pending", EffectOf(c)' = "refused"
      PROVE  Atomic!Next
  <2>1. Atomic!Refuse(c)
    BY <1>1, <1>3, <1>4, <1>7 DEF Atomic!Refuse
  <2> QED
    BY <2>1 DEF Atomic!Next
<1>8. ASSUME EffectOf(c) = "pending", EffectOf(c)' = "applied",
             CanTell(command[c]),
             command[c].type = "RegisterCustomer" => History[id] = <<>>,
             History' = [History EXCEPT ![id] =
                           History[id] \o Decide(command[c], History[id])]
      PROVE  Atomic!Next
  <2>1. Atomic!CanTell(command[c])
    BY <1>8, AtomicDecide
  <2>2. Atomic!Decide(command[c], History[id]) = Decide(command[c], History[id])
    BY AtomicDecide
  <2>3. Effect[c] = "pending" /\ Effect' = [Effect EXCEPT ![c] = "applied"]
    BY <1>3, <1>4, <1>8
  <2>4. Atomic!Execute(c)
    BY <2>1, <2>2, <2>3, <1>1, <1>8 DEF Atomic!Execute
  <2> QED
    BY <2>4 DEF Atomic!Next
<1>9. Stored(c) => phase[c] \in {"saving", "succeeded", "abandoned"}
  BY UndecidedIsNotStored
<1>10. CASE TellUnknown(c)
  <2>1. EffectOf(c) = "pending"
    BY <1>9, <1>10 DEF EffectOf, TellUnknown
  <2>2. Stored(c)' <=> Stored(c)
    BY <1>10 DEF TellUnknown, Stored, Target
  <2>3. phase'[c] = "refused" /\ phase[c] = "idle" /\ streams' = streams
    BY <1>10 DEF TellUnknown, TypeOK
  <2>4. EffectOf(c)' = "refused"
    BY <2>2, <2>3, <1>9 DEF EffectOf
  <2> QED
    BY <2>1, <2>3, <2>4, <1>5, <1>7
<1>11. CASE TellAndSaveWithoutLoading(c)
  <2> DEFINE story == RegisterStory(command[c])
  <2>1. /\ phase[c] = "idle"
        /\ streams' = streams
        /\ unit'[c] = UnitOf(c, story)
        /\ phase'[c] = IF story.events = <<>> THEN "succeeded" ELSE "saving"
        /\ command[c].type = "RegisterCustomer"
    BY <1>11 DEF TellAndSaveWithoutLoading, Save, TypeOK
  <2>2. UnitOf(c, story) = DecidedUnit(c, <<>>) /\ story.events # <<>>
    BY <2>1, RegisterUnit
  <2>3. <<>> \in Seq(Event) /\ Decide(command[c], <<>>) \in Seq(Event)
    <3>1. Decide(command[c], <<>>) = story.events
      BY <2>1 DEF Decide
    <3>2. story.events \in Seq(Event)
      BY RegisterDecision, CommandAssumption DEF TypeOK
    <3> QED
      BY <3>1, <3>2
  <2> HIDE DEF story
  <2>4. ~ Stored(c)'
    BY <2>1, <2>2, <2>3, FreshUnit
  <2>5. EffectOf(c) = "pending" /\ EffectOf(c)' = "pending"
    BY <2>1, <2>2, <2>4, <1>9 DEF EffectOf
  <2> QED
    BY <2>1, <2>5, <1>5, <1>6
<1>12. CASE LoadTellAndSave(c) \/ ReadSlice(c)
  <2>1. /\ phase[c] \in {"idle", "reading"}
        /\ phase'[c] = "reading"
        /\ streams' = streams
        /\ unit' = unit
    BY <1>12 DEF LoadTellAndSave, ReadSlice, TypeOK
  <2>2. ~ Stored(c) /\ ~ Stored(c)'
    BY <2>1, <1>9 DEF Stored, Target
  <2>3. EffectOf(c)' = EffectOf(c)
    BY <2>1, <2>2 DEF EffectOf
  <2> QED
    BY <2>1, <2>3, <1>5, <1>6
<1>13. CASE ReadLastSlice(c)
  <2> DEFINE past == Bodies(WithSlice(c))
             story == RelocateStory(past, command[c])
  <2>1. /\ phase[c] = "reading"
        /\ streams' = streams
        /\ unit'[c] = UnitOf(c, story)
        /\ phase'[c] = IF story.events = <<>> THEN "succeeded" ELSE "saving"
        /\ command[c].type = "RelocateCustomer"
    BY <1>13 DEF ReadLastSlice, Save, TypeOK, LoadIsExact
  <2>2. /\ past \in Seq(Event)
        /\ \A i \in 1..Len(past) : past[i].customerId = command[c].customerId
    BY <1>13, WithSliceType, BodiesType, OwnLoad DEF ReadLastSlice
  <2>3. UnitOf(c, story) = DecidedUnit(c, past) /\ story.events \in Seq(Event)
    BY <2>1, <2>2, RelocateUnit
  <2>4. Decide(command[c], past) = story.events
    BY <2>1 DEF Decide
  <2> HIDE DEF past, story
  <2>5. ~ Stored(c)'
    BY <2>1, <2>2, <2>3, <2>4, FreshUnit
  <2>6. EffectOf(c) = "pending"
    BY <2>1, <1>9 DEF EffectOf
  <2>7. CASE story.events # <<>>
    <3>1. EffectOf(c)' = "pending"
      BY <2>1, <2>5, <2>7 DEF EffectOf
    <3> QED
      BY <3>1, <2>1, <2>6, <1>5, <1>6
  <2>8. CASE story.events = <<>>
    <3>1. phase'[c] = "succeeded"
      BY <2>1, <2>8
    <3>2. EffectOf(c)' = "applied"
      BY <3>1 DEF EffectOf
    <3>3. /\ CanTell(command[c])
          /\ command[c].type # "RegisterCustomer"
          /\ id \in CustomerId
          /\ History[id] \o Decide(command[c], History[id]) = History[id]
      BY <1>13, <3>1, LastSliceExecutes
    <3>4. History' = [History EXCEPT ![id] =
                        History[id] \o Decide(command[c], History[id])]
      BY <3>3, <2>1, <1>5 DEF History
    <3> QED
      BY <3>2, <3>3, <3>4, <2>6, <1>8
  <2> QED
    BY <2>7, <2>8
<1>14. CASE AppendEvents(c) \/ AppendLate(c)
  <2>1. /\ phase[c] \in {"saving", "abandoned"}
        /\ Accepts(Target(c), unit[c].version)
        /\ Extend(c)
        /\ unit'[c] = unit[c]
    BY <1>14 DEF AppendEvents, AppendLate
  <2> QED
    BY <2>1, AppendExecutes, <1>8
<1>15. CASE AppendAgain(c)
  <2>1. Stored(c) /\ Stored(c)' /\ streams' = streams
    BY <1>15 DEF AppendAgain, UnitIsDecided, Stored, Target
  <2>2. EffectOf(c) = "applied" /\ EffectOf(c)' = "applied"
    BY <2>1 DEF EffectOf
  <2> QED
    BY <2>1, <2>2, <1>5, <1>6
<1>16. CASE RejectAppend(c)
  <2>1. /\ ~ Stored(c) /\ ~ Stored(c)' /\ streams' = streams
        /\ phase[c] = "saving"
    BY <1>16 DEF RejectAppend, Stored, Target
  <2>2. phase'[c] \in {"saving", "conflict"}
    BY <1>16, ReplyProperties DEF RejectAppend, Phase
  <2>3. EffectOf(c) = "pending" /\ EffectOf(c)' \in {"pending", "refused"}
    BY <2>1, <2>2 DEF EffectOf
  <2> QED
    BY <2>1, <2>3, <1>5, <1>6, <1>7
<1>17. CASE GiveUp(c)
  <2>1. /\ streams' = streams
        /\ Stored(c)' <=> Stored(c)
        /\ \/ phase[c] = "reading" /\ phase'[c] = "failed"
           \/ phase[c] = "saving" /\ phase'[c] = "abandoned"
    BY <1>17 DEF GiveUp, Stored, Target, TypeOK
  <2>2. \/ EffectOf(c)' = EffectOf(c)
        \/ EffectOf(c) = "pending" /\ EffectOf(c)' = "refused"
    BY <2>1, <1>9 DEF EffectOf
  <2> QED
    BY <2>1, <2>2, <1>5, <1>6, <1>7
<1> QED
  BY <1>10, <1>11, <1>12, <1>13, <1>14, <1>15, <1>16, <1>17 DEF Step

\* The concurrent write side, with its slices, versions, lost replies and
\* late appends, implements commands that are executed one at a time.
THEOREM Refinement == Spec => ImplementsAtomicCommands
<1>1. Init => Atomic!Init
  BY InitMaps
<1>2. IInv /\ [Next]_vars => [Atomic!Next]_(Atomic!vars)
  <2> SUFFICES ASSUME IInv, [Next]_vars
               PROVE  [Atomic!Next]_(Atomic!vars)
    OBVIOUS
  <2>1. CASE UNCHANGED vars
    <3>1. History' = History /\ Effect' = Effect /\ command' = command
      BY <2>1 DEF vars, History, Effect, Stored, Target
    <3> QED
      BY <3>1 DEF Atomic!vars
  <2>2. CASE Next
    <3>1. PICK c \in Call : Step(c)
      BY <2>2, NextIsStep
    <3> QED
      BY <3>1, StepMaps
  <2> QED
    BY <2>1, <2>2
<1> QED
  BY <1>1, <1>2, Invariant, PTL DEF Spec, Atomic!Spec, ImplementsAtomicCommands
=============================================================================
