\* Two restores, three edits and a death of Hangul.
CONSTANTS
  Bodies <- MCBodies
  Initial = 1
  Pages <- MCPages
  MaxCalls = 2
  MaxEdits = 3
  MaxUndo = 1
SPECIFICATION Spec
INVARIANTS CopiesAccounted AnswersAreTrue
PROPERTIES CopiesStay
