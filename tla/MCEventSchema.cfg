SPECIFICATION Spec
CONSTANTS
  registered = registered
  relocated = relocated
  name1 = name1
  name2 = name2
  Type = {registered, relocated}
  Name = {name1, name2}
  Null = null
  White = white
  ByFullName = by_full_name
  Schema <- ShortSchemas
  FullName <- Renamings
  MaxDeployments = 2
  MaxStored = 2
INVARIANTS
  TypeOK
  ReadsWhatItStores
  RenamingIsHarmless
CHECK_DEADLOCK FALSE
