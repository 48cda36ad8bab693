SPECIFICATION WebhookSpec
CONSTANTS
  movie = movie
  series = series
  season = season
  episode = episode
  dawah = dawah
  NoContent = NoContent
  NoTx = NoTx
  Users = {ann}
  Emailed = {ann}
  Contents = {movie}
  Kind <- KindOfContents
  Parent <- ParentOfContents
  TxRefs = {tx1, tx2}
  Verifiers = {v1, v2}
  Durations = {1}
  MaxNow = 0
  Disturbances = {"deletion"}
PROPERTIES PaidEventuallyGranted
CHECK_DEADLOCK FALSE
