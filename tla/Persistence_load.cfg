SPECIFICATION Spec
CONSTANTS
  BackupCount = 1
  DefaultPath = TRUE
  MaxVersion = 2
  MaxFaults = 0
PROPERTIES
  LoadRecovers
