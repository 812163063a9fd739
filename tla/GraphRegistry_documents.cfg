CONSTANTS
  r1 = r1
  r2 = r2
  s1 = s1
  s2 = s2
  c1 = c1
  c2 = c2
  Routes <- MCRoutes
  Sessions <- MCSessions
  CursorIds <- MCCursorIds
  UploadIds = {"u1"}
  Requests <- MCRequests
  Declared <- MCDeclared
  MaxOwners = 2
  MaxVersion = 2
  MaxSeq = 4
  MaxFaults = 1
SPECIFICATION Spec
SYMMETRY Alike
INVARIANTS RegistryCoherent GraphsShared
PROPERTIES ValidatedStays
