------------------------- MODULE EventSchemaProofs -------------------------
(* Theorems about EventSchema, for any schemas and any names of classes. *)
EXTENDS EventSchema, TLAPS

\* The name that a mapping gives its class, if it is accepted, is a key.
LEMMA NamesAreKeys ==
  ASSUME TypeOK, NEW mapping \in Mapping, NameOf(mapping) # Null
  PROVE  NameOf(mapping) \in Key
  BY SchemaAssumption DEF TypeOK, NameOf, Mapping, SchemaName, Key

LEMMA InitInvariant == Init => IInv
  <1> SUFFICES ASSUME Init PROVE IInv
    OBVIOUS
  <1>1. schema \in Seq(Mapping) /\ Len(schema) \in Nat
    BY SchemaAssumption DEF Init
  <1>2. DOMAIN NoEntries = {} /\ NoEntries \in [{} -> Type] /\ NoEntries \in [{} -> Key]
    BY DEF NoEntries
  <1>3. TypeOK
    BY <1>1, <1>2 DEF Init, TypeOK
  <1>4. ConfigsAgree /\ PresentEvents /\ Served
    BY <1>2 DEF Init, ConfigsAgree, PresentEvents, Served
  <1>. QED
    BY <1>3, <1>4 DEF IInv

\* A mapping is added under a name of its own, so no other loses its class.
LEMMA AddInvariant == IInv /\ Add => IInv'
  <1> SUFFICES ASSUME IInv, Add PROVE IInv'
    OBVIOUS
  <1> DEFINE mapping == schema[added + 1]
             name == NameOf(mapping)
  <1>1. /\ TypeOK /\ ConfigsAgree /\ PresentEvents /\ Served
        /\ schema \in Seq(Mapping) /\ Len(schema) \in Nat /\ added \in Nat
        /\ phase = "creating" /\ added < Len(schema)
    BY SchemaAssumption DEF IInv, Add, TypeOK
  <1>2. mapping \in Mapping /\ mapping.type \in Type
    <2>1. added + 1 \in 1..Len(schema)
      BY <1>1
    <2>2. mapping \in Mapping
      BY <1>1, <2>1
    <2>. QED
      BY <2>2 DEF Mapping
  <1>3. name # Null /\ name \notin DOMAIN typesByName
    BY DEF Add, Accepts
  <1>4. name \in Key
    BY <1>1, <1>2, <1>3, NamesAreKeys
  <1>5. /\ typesByName' = Put(typesByName, name, mapping.type)
        /\ namesByType' = Put(namesByType, mapping.type, name)
        /\ added' = added + 1
        /\ UNCHANGED <<schema, fullName, phase, log, deployments>>
    BY DEF Add
  <1> HIDE DEF mapping, name
  <1>6. /\ DOMAIN typesByName' = DOMAIN typesByName \cup {name}
        /\ DOMAIN typesByName' \subseteq Key
        /\ typesByName' \in [DOMAIN typesByName' -> Type]
        /\ typesByName'[name] = mapping.type
        /\ \A x \in DOMAIN typesByName : typesByName'[x] = typesByName[x]
    <2>1. DOMAIN typesByName \subseteq Key /\ typesByName \in [DOMAIN typesByName -> Type]
      BY <1>1 DEF TypeOK
    <2>. QED
      BY <1>2, <1>3, <1>4, <1>5, <2>1 DEF Put
  <1>7. /\ DOMAIN namesByType' = DOMAIN namesByType \cup {mapping.type}
        /\ DOMAIN namesByType' \subseteq Type
        /\ namesByType' \in [DOMAIN namesByType' -> Key]
        /\ namesByType'[mapping.type] = name
        /\ \A x \in DOMAIN namesByType : x # mapping.type => namesByType'[x] = namesByType[x]
    <2>1. DOMAIN namesByType \subseteq Type /\ namesByType \in [DOMAIN namesByType -> Key]
      BY <1>1 DEF TypeOK
    <2>. QED
      BY <1>2, <1>4, <1>5, <2>1 DEF Put
  <1>8. TypeOK'
    BY <1>1, <1>5, <1>6, <1>7 DEF TypeOK
  <1>9. ConfigsAgree'
    <2>1. ASSUME NEW type \in DOMAIN namesByType'
          PROVE  /\ namesByType'[type] \in DOMAIN typesByName'
                 /\ typesByName'[namesByType'[type]] = type
      <3>1. CASE type = mapping.type
        BY <3>1, <1>6, <1>7
      <3>2. CASE type # mapping.type
        BY <3>2, <1>1, <1>6, <1>7 DEF ConfigsAgree
      <3>. QED
        BY <3>1, <3>2
    <2>2. ASSUME NEW j \in 1..added'
          PROVE  /\ NameOf(schema[j]) \in DOMAIN typesByName'
                 /\ typesByName'[NameOf(schema[j])] = schema[j].type
      <3>1. CASE j = added + 1
        BY <3>1, <1>6 DEF mapping, name
      <3>2. CASE j \in 1..added
        BY <3>2, <1>1, <1>6 DEF ConfigsAgree
      <3>. QED
        BY <3>1, <3>2, <1>1, <1>5
    <2>3. \A j \in 1..added' : NameOf(schema[j])' = NameOf(schema[j])
      BY <1>5 DEF NameOf
    <2>. QED
      BY <2>1, <2>2, <2>3, <1>5 DEF ConfigsAgree
  <1>10. PresentEvents' /\ Served'
    BY <1>1, <1>5 DEF PresentEvents, Served
  <1>. QED
    BY <1>8, <1>9, <1>10 DEF IInv

\* An event is stored under a name that the other dictionary knows.
LEMMA StoreInvariant ==
  ASSUME IInv, NEW type \in Type, Store(type)
  PROVE  IInv'
  <1> DEFINE event == [type |-> type, name |-> namesByType[type], deployment |-> deployments]
  <1>1. /\ TypeOK /\ ConfigsAgree /\ PresentEvents /\ Served
        /\ log \in Seq(StoredEvent) /\ deployments \in Nat
    BY DEF IInv, TypeOK
  <1>2. /\ phase = "serving" /\ type \in DOMAIN namesByType
        /\ log' = Append(log, event)
        /\ UNCHANGED <<schema, fullName, phase, configs, deployments>>
    BY DEF Store
  <1>3. event \in StoredEvent
    BY <1>1, <1>2 DEF TypeOK, StoredEvent
  <1>4. IsReadAs(event, event.type)
    BY <1>1, <1>2 DEF ConfigsAgree, IsReadAs
  <1> HIDE DEF event
  <1>5. /\ log' \in Seq(StoredEvent) /\ Len(log') = Len(log) + 1 /\ Len(log) \in Nat
        /\ \A i \in 1..Len(log) : log'[i] = log[i]
        /\ log'[Len(log) + 1] = event
    BY <1>1, <1>2, <1>3
  <1>6. TypeOK'
    BY <1>1, <1>2, <1>5 DEF TypeOK, configs
  <1>7. ConfigsAgree' /\ Served'
    BY <1>1, <1>2 DEF ConfigsAgree, Served, NameOf, configs
  <1>8. PresentEvents'
    <2> SUFFICES ASSUME NEW i \in 1..Len(log')
                 PROVE  /\ log'[i].deployment <= deployments
                        /\ log'[i].deployment = deployments =>
                             phase = "serving" /\ IsReadAs(log'[i], log'[i].type)
      BY <1>2 DEF PresentEvents, IsReadAs, configs
    <2>1. CASE i \in 1..Len(log)
      BY <2>1, <1>1, <1>5 DEF PresentEvents
    <2>2. CASE i = Len(log) + 1
      BY <2>2, <1>1, <1>2, <1>4, <1>5 DEF event
    <2>. QED
      BY <2>1, <2>2, <1>5
  <1>. QED
    BY <1>6, <1>7, <1>8 DEF IInv

LEMMA NextInvariant == IInv /\ [Next]_vars => IInv'
  <1> SUFFICES ASSUME IInv, [Next]_vars PROVE IInv'
    OBVIOUS
  <1>1. /\ TypeOK /\ ConfigsAgree /\ PresentEvents /\ Served
        /\ schema \in Seq(Mapping) /\ Len(schema) \in Nat
        /\ log \in Seq(StoredEvent) /\ deployments \in Nat
    BY SchemaAssumption DEF IInv, TypeOK
  <1>2. CASE Add
    BY <1>2, AddInvariant
  <1>3. CASE AddThrows
    <2>1. /\ phase = "creating" /\ phase' = "failed"
          /\ UNCHANGED <<schema, fullName, configs, log, deployments>>
      BY <1>3 DEF AddThrows
    <2>2. TypeOK' /\ ConfigsAgree' /\ Served'
      BY <1>1, <2>1 DEF TypeOK, ConfigsAgree, Served, NameOf, configs
    <2>3. PresentEvents'
      BY <1>1, <2>1 DEF PresentEvents
    <2>. QED
      BY <2>2, <2>3 DEF IInv
  <1>4. CASE Created
    <2>1. /\ phase = "creating" /\ phase' = "serving" /\ added = Len(schema)
          /\ UNCHANGED <<schema, fullName, configs, log, deployments>>
      BY <1>4 DEF Created
    <2>2. TypeOK' /\ ConfigsAgree' /\ Served'
      BY <1>1, <2>1 DEF TypeOK, ConfigsAgree, Served, NameOf, configs
    <2>3. PresentEvents'
      BY <1>1, <2>1 DEF PresentEvents
    <2>. QED
      BY <2>2, <2>3 DEF IInv
  <1>5. ASSUME NEW type \in Type, Store(type) PROVE IInv'
    BY <1>5, StoreInvariant
  <1>6. CASE Deploy
    <2>1. /\ deployments' = deployments + 1 /\ phase' = "creating" /\ added' = 0
          /\ schema' \in Schema /\ fullName' \in FullName
          /\ typesByName' = NoEntries /\ namesByType' = NoEntries /\ log' = log
      BY <1>6 DEF Deploy
    <2>2. schema' \in Seq(Mapping) /\ Len(schema') \in Nat
      BY <2>1, SchemaAssumption
    <2>3. DOMAIN NoEntries = {} /\ NoEntries \in [{} -> Type] /\ NoEntries \in [{} -> Key]
      BY DEF NoEntries
    <2>4. TypeOK'
      BY <1>1, <2>1, <2>2, <2>3 DEF TypeOK
    <2>5. ConfigsAgree' /\ Served'
      BY <2>1, <2>3 DEF ConfigsAgree, Served
    <2>6. PresentEvents'
      <3>1. \A i \in 1..Len(log) : log[i].deployment \in Nat /\ log[i].deployment <= deployments
        <4>1. \A i \in 1..Len(log) : log[i] \in StoredEvent
          BY <1>1
        <4>. QED
          BY <1>1, <4>1 DEF PresentEvents, StoredEvent
      <3>. QED
        BY <1>1, <2>1, <3>1 DEF PresentEvents
    <2>. QED
      BY <2>4, <2>5, <2>6 DEF IInv
  <1>7. CASE UNCHANGED vars
    BY <1>1, <1>7 DEF vars, configs, IInv, TypeOK, ConfigsAgree, PresentEvents, Served,
                      NameOf, IsReadAs
  <1>. QED
    BY <1>2, <1>3, <1>4, <1>5, <1>6, <1>7 DEF Next

\* The dictionaries agree, whatever schemas are deployed.
THEOREM Invariant == Spec => []IInv
  BY InitInvariant, NextInvariant, PTL DEF Spec

\* Every variable keeps its type.
THEOREM TypeCorrect == Spec => []TypeOK
  <1>1. IInv => TypeOK
    BY DEF IInv
  <1>. QED
    BY <1>1, Invariant, PTL

\* A deployment reads the events that it stores as what they were.
THEOREM RoundTrip == Spec => []ReadsWhatItStores
  <1>1. IInv => ReadsWhatItStores
    BY DEF IInv, PresentEvents, ReadsWhatItStores
  <1>. QED
    BY <1>1, Invariant, PTL

\* An event is read by any deployment that maps its class to its name, whatever
\* classes are called.
THEOREM NamesOutliveClasses == Spec => []RenamingIsHarmless
  <1>1. IInv => RenamingIsHarmless
    <2> SUFFICES ASSUME IInv, phase = "serving",
                        NEW i \in 1..Len(log), NEW j \in 1..Len(schema),
                        schema[j] = [type |-> log[i].type, name |-> log[i].name]
                 PROVE  IsReadAs(log[i], log[i].type)
      BY DEF RenamingIsHarmless
    <2>1. j \in 1..added
      BY DEF IInv, Served
    <2>2. log[i].name \in Key
      <3>1. log \in Seq(StoredEvent)
        BY DEF IInv, TypeOK
      <3>2. log[i] \in StoredEvent
        BY <3>1
      <3>. QED
        BY <3>2 DEF StoredEvent
    <2>3. log[i].name # ByFullName
      BY <2>2, NameAssumption DEF Key
    <2>4. NameOf(schema[j]) = log[i].name /\ schema[j].type = log[i].type
      BY <2>3 DEF NameOf
    <2>. QED
      BY <2>1, <2>4 DEF IInv, ConfigsAgree, IsReadAs
  <1>. QED
    BY <1>1, Invariant, PTL
=============================================================================
