SPECIFICATION Spec
CONSTANTS
  BackupCount = 2
  DefaultPath = TRUE
  MaxVersion = 3
  MaxFaults = 2
INVARIANTS
  TypeOK
  SomeCopySurvives
  CopiesAreComplete
  UndisturbedSaveIsExact
PROPERTIES
  ImplementsStateStore
