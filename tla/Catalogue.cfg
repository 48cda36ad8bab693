SPECIFICATION Spec
CONSTANTS
  Requests = {r1, r2}
  Medias <- SomeMedias
  NoUrl = NoUrl
  Absent = Absent
SYMMETRY RequestSymmetry
INVARIANTS TypeOK PublishedWasReviewed PublishedAsReviewed LockAndPriceAgree AnnouncedOnce ThumbnailInStep
CHECK_DEADLOCK FALSE
