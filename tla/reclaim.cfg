\* Sweeps reclaim what is due, for as long as they are scheduled.
SPECIFICATION FairSweepSpec
CONSTANTS
  m1 = m1
  m2 = m2
  MediaIDs = {m1, m2}
  Slots = {s1}
  NoMedia = NoMedia
  AccessModes = {"private"}
  ContentTypes = {"png"}
  Sizes = {1}
  pic = pic
  Contents = {pic}
  NoContent = NoContent
  ShapeOf <- MCShapeOf
  Images = {pic}
  Workers = {w1, u1}
  Sweepers = {w1}
  Rank <- MCRank
  Limit = 2
  Crashes = FALSE
  Recovery = 1
  OrphanGrace = 1
  UploadGrace = 1
  MaxGeneration = 1
  Retries = FALSE
  AmbiguousDelete = FALSE
PROPERTIES ExpiredLinksGo OrphansGo UploadsEnd Spec
