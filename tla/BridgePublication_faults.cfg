\* Two windows and two documents, up to two failed calls of the table.
CONSTANTS
  Windows <- MCWindows
  Documents <- MCDocuments
  w1 = w1
  w2 = w2
  d1 = d1
  d2 = d2
  MaxFaults = 2
SPECIFICATION PublicationSpec
INVARIANTS RegistrationsOwned
PROPERTIES TakesDownItsOwn PublishedAgain
