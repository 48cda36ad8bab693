SPECIFICATION Spec
CONSTANTS
  movie = movie
  series = series
  season = season
  episode = episode
  dawah = dawah
  NoContent = NoContent
  NoTx = NoTx
  Users = {ann}
  Emailed = {ann}
  Contents = {movie}
  Kind <- KindOfContents
  Parent <- ParentOfContents
  TxRefs = {tx1}
  Verifiers = {v1}
  Durations = {1}
  MaxNow = 1
  Disturbances = {}
INVARIANTS UnlockedOnlyWhileValid
CHECK_DEADLOCK FALSE
