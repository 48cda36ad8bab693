SPECIFICATION Spec
CONSTANTS
  movie = movie
  series = series
  season = season
  episode = episode
  dawah = dawah
  NoContent = NoContent
  NoTx = NoTx
  Users = {ann}
  Emailed = {ann}
  Contents = {movie}
  Kind <- KindOfContents
  Parent <- ParentOfContents
  TxRefs = {tx1}
  Verifiers = {v1, v2, v3}
  Durations = {1}
  MaxNow = 2
  Disturbances = {"early", "gateway", "database", "crash", "deletion", "staleSave"}
SYMMETRY SlotSymmetry
INVARIANTS TypeOK NoDoubleGrant AllOrNothing AnswersAreFinal PaidAccessLasts
PROPERTY ImplementsLedger
CHECK_DEADLOCK FALSE
