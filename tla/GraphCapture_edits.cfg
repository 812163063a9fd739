\* A document with two contents, two readers, up to four edits.
CONSTANTS
  Contents <- MCContents
  v1 = v1
  v2 = v2
  Readers = 2
  MaxEdits = 4
SPECIFICATION CaptureSpec
INVARIANTS CaptureTidy GraphIsSound
PROPERTIES CaptureEnds
