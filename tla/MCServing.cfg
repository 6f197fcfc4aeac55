CONSTANTS
  Char <- MCChar
  ScriptTables <- MCScriptTables
  MimetypeTables <- MCMimetypeTables
  default_mimetypes <- MCDefaultMimetypes
  TypeName <- MCTypeName
  RequestPaths <- MCRequestPaths
  Location <- MCLocation
  DefaultFile <- MCDefaultFile
  StackSize = 3
  None = None
SPECIFICATION Spec
INVARIANTS
  TypeOK
  TableSound
  ScriptServes
  StatesKept
  BelowLocation
  FileServed
CHECK_DEADLOCK FALSE
