--------------------------- MODULE MCEventSchema ---------------------------
(* Values for the constants of EventSchema. *)
EXTENDS EventSchema

CONSTANTS registered, relocated, name1, name2

\* The schemas with up to two mappings.
ShortSchemas == UNION {[1..n -> Mapping] : n \in 0..2}

\* The classes are called differently, and one may take over the old name of
\* the other, or one that the schemas give.
Renamings ==
  {fullNames \in [{registered, relocated} -> Name] :
     fullNames[registered] # fullNames[relocated]}
=============================================================================
