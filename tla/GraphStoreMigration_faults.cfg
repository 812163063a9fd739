\* Three committed generations, up to five failed calls or crashes.
CONSTANTS
  Commits = 3
  MaxFaults = 5
SPECIFICATION Spec
INVARIANTS AlwaysRecoverable
PROPERTIES FilesStay Converts
