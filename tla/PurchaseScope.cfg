SPECIFICATION Spec
CONSTANTS
  movie = movie
  series = series
  season = season
  episode = episode
  dawah = dawah
  NoContent = NoContent
  NoTx = NoTx
  Users = {ann}
  Emailed = {ann}
  Contents = {movie, dawah}
  Kind <- KindOfContents
  Parent <- ParentOfContents
  TxRefs = {tx1}
  Verifiers = {v1}
  Durations = {1}
  MaxNow = 1
  Disturbances = {}
INVARIANTS PricedContentIsSold
CHECK_DEADLOCK FALSE
