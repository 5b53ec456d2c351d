\* A process that dies between the claim and the end of a purge.
SPECIFICATION FairSweepSpec
CONSTANTS
  m1 = m1
  m2 = m2
  MediaIDs = {m1}
  Slots = {s1}
  NoMedia = NoMedia
  AccessModes = {"private"}
  ContentTypes = {"png"}
  Sizes = {1}
  pic = pic
  Contents = {pic}
  NoContent = NoContent
  ShapeOf <- MCShapeOf
  Images = {pic}
  Workers = {w1, u1}
  Sweepers = {w1}
  Rank <- MCRank
  Limit = 1
  Crashes = TRUE
  Recovery = 1
  OrphanGrace = 1
  UploadGrace = 1
  MaxGeneration = 1
  Retries = FALSE
  AmbiguousDelete = FALSE
PROPERTY PurgesEnd
