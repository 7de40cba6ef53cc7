SPECIFICATION WireSpec
CONSTANTS
  Offset <- Offsets
  Types <- WireTypes
  TypeOrder <- WireOrder
  PathOrder <- WirePaths
  WriteColumn_ <- WriteColumn
  ReadColumn_ <- ReadColumn
  Jobs <- WireJobs
  Scripts <- WireScripts
  WriteMax = 4
  ReadMax = 3
INVARIANTS
  ReadsWhatWasWritten
  InStep
  FailsForItsData
  RetrySendsTheSame
  ReadsWhatWasSent
  FailsForTheNetwork
  NothingIsStuck
CHECK_DEADLOCK FALSE
