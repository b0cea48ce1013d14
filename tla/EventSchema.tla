---------------------------- MODULE EventSchema ----------------------------
(***************************************************************************)
(* The names under which events are stored: ContextSchemaConfigs, filled   *)
(* by the schema of the program when it starts, over deployments between   *)
(* which classes may be renamed and the schema may change, while the       *)
(* events that are stored stay what they are.  A class keeps its identity  *)
(* here; its FullName is what a renaming changes.                          *)
(***************************************************************************)
EXTENDS Integers, Sequences

CONSTANTS
  Type,        \* the classes of events
  Name,        \* the names that are not blank
  Null, White, \* the names that are blank
  ByFullName,  \* the schema SchemaFor without a name: that of the class
  Schema,      \* the schemas that may be deployed
  FullName,    \* the full names that the classes may have
  MaxDeployments, MaxStored

SchemaName == Name \cup {Null, White, ByFullName}
Mapping == [type : Type, name : SchemaName]

ASSUME NameAssumption ==
  /\ {Null, White, ByFullName} \cap Name = {}
  /\ ByFullName \notin {Null, White}
  /\ Null # White
ASSUME SchemaAssumption ==
  /\ Schema \subseteq Seq(Mapping)
  /\ FullName \subseteq [Type -> Name]
ASSUME BoundAssumption == MaxDeployments \in Nat /\ MaxStored \in Nat

VARIABLES
  schema,       \* the schema that is deployed
  fullName,     \* the full names of the classes
  phase,        \* "creating" the configs, "serving", or "failed" at it
  added,        \* how many mappings of the schema are added
  typesByName, namesByType,
  log,          \* the events that are stored
  deployments   \* the deployments so far

configs == <<added, typesByName, namesByType>>
vars == <<schema, fullName, phase, configs, log, deployments>>

Put(dictionary, key, value) ==
  [k \in DOMAIN dictionary \cup {key} |-> IF k = key THEN value ELSE dictionary[k]]

NoEntries == [k \in {} |-> Null]

Init ==
  /\ schema \in Schema
  /\ fullName \in FullName
  /\ phase = "creating"
  /\ added = 0
  /\ typesByName = NoEntries
  /\ namesByType = NoEntries
  /\ log = <<>>
  /\ deployments = 1

-----------------------------------------------------------------------------
(* ContextSchemaConfigs.Add, for every mapping of the schema in its order. *)

\* The name that the schema gives its class.  It is read before a blank one is
\* replaced by the full name, so that has no effect on it.
NameOf(mapping) ==
  IF mapping.name = ByFullName THEN fullName[mapping.type] ELSE mapping.name

\* Mistake: the name of another class is accepted.
AcceptsAnyName(name) == name # Null

\* Null is no key of a dictionary.
Accepts(name) == name # Null /\ name \notin DOMAIN typesByName

Add ==
  /\ phase = "creating"
  /\ added < Len(schema)
  /\ LET mapping == schema[added + 1] IN
       /\ Accepts(NameOf(mapping))
       /\ typesByName' = Put(typesByName, NameOf(mapping), mapping.type)
       /\ namesByType' = Put(namesByType, mapping.type, NameOf(mapping))
  /\ added' = added + 1
  /\ UNCHANGED <<schema, fullName, phase, log, deployments>>

\* The constructor of the schema throws, and the program does not start.
AddThrows ==
  /\ phase = "creating"
  /\ added < Len(schema)
  /\ ~Accepts(NameOf(schema[added + 1]))
  /\ phase' = "failed"
  /\ UNCHANGED <<schema, fullName, configs, log, deployments>>

Created ==
  /\ phase = "creating"
  /\ added = Len(schema)
  /\ phase' = "serving"
  /\ UNCHANGED <<schema, fullName, configs, log, deployments>>

-----------------------------------------------------------------------------
(* JsonEventSchemaInterpreter. *)

\* Mistake: the event is stored under the full name of its class.
StoreUnderFullName(type) ==
  /\ phase = "serving"
  /\ Len(log) < MaxStored
  /\ type \in DOMAIN namesByType
  /\ log' = Append(log, [type |-> type, name |-> fullName[type],
                         deployment |-> deployments])
  /\ UNCHANGED <<schema, fullName, phase, configs, deployments>>

\* Serialize, and the append that follows.  A class without a name throws, and
\* nothing is stored.
Store(type) ==
  /\ phase = "serving"
  /\ Len(log) < MaxStored
  /\ type \in DOMAIN namesByType
  /\ log' = Append(log, [type |-> type, name |-> namesByType[type],
                         deployment |-> deployments])
  /\ UNCHANGED <<schema, fullName, phase, configs, deployments>>

\* Deserialize gives an event of this type, without an exception.
IsReadAs(event, type) ==
  /\ event.name \in DOMAIN typesByName
  /\ typesByName[event.name] = type

\* Mistake: the names of the deployment before are still there.
DeployOver ==
  /\ phase # "creating"
  /\ deployments < MaxDeployments
  /\ deployments' = deployments + 1
  /\ schema' \in Schema
  /\ fullName' \in FullName
  /\ phase' = "creating"
  /\ UNCHANGED <<added, typesByName, namesByType, log>>

\* Another version of the program is started.
Deploy ==
  /\ phase # "creating"
  /\ deployments < MaxDeployments
  /\ deployments' = deployments + 1
  /\ schema' \in Schema
  /\ fullName' \in FullName
  /\ phase' = "creating"
  /\ added' = 0
  /\ typesByName' = NoEntries
  /\ namesByType' = NoEntries
  /\ UNCHANGED log

Next ==
  \/ Add \/ AddThrows \/ Created
  \/ \E type \in Type : Store(type)
  \/ Deploy

Spec == Init /\ [][Next]_vars

-----------------------------------------------------------------------------
(* Properties. *)

Key == Name \cup {White}
StoredEvent == [type : Type, name : Key, deployment : Nat]

\* Every variable keeps its type, and a deployment begins with no names.
TypeOK ==
  /\ schema \in Schema
  /\ fullName \in FullName
  /\ phase \in {"creating", "serving", "failed"}
  /\ added \in 0..Len(schema)
  /\ DOMAIN typesByName \subseteq Key
  /\ typesByName \in [DOMAIN typesByName -> Type]
  /\ DOMAIN namesByType \subseteq Type
  /\ namesByType \in [DOMAIN namesByType -> Key]
  /\ log \in Seq(StoredEvent)
  /\ deployments \in Nat

\* The two dictionaries agree, and the names that the schema gave have not been
\* taken from their classes since.
ConfigsAgree ==
  /\ \A type \in DOMAIN namesByType :
       /\ namesByType[type] \in DOMAIN typesByName
       /\ typesByName[namesByType[type]] = type
  /\ \A j \in 1..added :
       /\ NameOf(schema[j]) \in DOMAIN typesByName
       /\ typesByName[NameOf(schema[j])] = schema[j].type

\* The events of this deployment are of one that serves.
PresentEvents ==
  \A i \in 1..Len(log) :
    /\ log[i].deployment <= deployments
    /\ log[i].deployment = deployments =>
         phase = "serving" /\ IsReadAs(log[i], log[i].type)

Served == phase = "serving" => added = Len(schema)

\* The inductive invariant.
IInv == TypeOK /\ ConfigsAgree /\ PresentEvents /\ Served

\* The events that the program stores it can read, and as what they were, even
\* if its schema has blank names or several names of a class.
ReadsWhatItStores ==
  \A i \in 1..Len(log) :
    log[i].deployment = deployments => IsReadAs(log[i], log[i].type)

\* "To avoid the renaming of types from affecting the event reading behaviour":
\* if the schema maps the class to the name an event of it was stored under, the
\* event is read as that class, whatever the classes are called by now, whatever
\* else the schema maps, and whichever deployment stored it.
RenamingIsHarmless ==
  phase = "serving" =>
    \A i \in 1..Len(log), j \in 1..Len(schema) :
      schema[j] = [type |-> log[i].type, name |-> log[i].name]
        => IsReadAs(log[i], log[i].type)
=============================================================================
