SPECIFICATION FairSpec
CONSTANTS
  Ids = {old, e1}
  Old = {old}
  MaxTotal = 1
  HistoryLimit = 1
  MaxCrashes = 2
  Nil = Nil
INVARIANTS
  PublishedIsStored
  StoreSound
  ListingSound
PROPERTIES
  AnswersAgree
  FinishedPersists
  AnswersSpec
