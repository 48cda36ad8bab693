SPECIFICATION Spec
CONSTANTS
  movie = movie
  series = series
  season = season
  episode = episode
  dawah = dawah
  NoContent = NoContent
  NoTx = NoTx
  Users = {ann, ben}
  Emailed = {ann, ben}
  Contents = {series, season, episode}
  Kind <- KindOfContents
  Parent <- ParentOfContents
  TxRefs = {tx1, tx2}
  Verifiers = {v1}
  Durations = {1}
  MaxNow = 1
  Disturbances = {"crash", "deletion"}
SYMMETRY ActorSymmetry
INVARIANTS PaidOrderKept WholeSeriesUnlocked OwnerNotLockedOut NothingUnpaidUnlocked
CHECK_DEADLOCK FALSE
