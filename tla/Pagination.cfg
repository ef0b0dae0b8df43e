\* Four rows on three times, pages of one to three rows.
SPECIFICATION PageFairSpec
CONSTANTS
  Row = {r1, r2, r3, r4}
  Time = {1, 2, 3}
  DefaultLimit = 2
  MaxLimit = 3
  Limit <- Limits
INVARIANTS NewestFirst NothingIsMissed
PROPERTY ListingEnds
CHECK_DEADLOCK FALSE
