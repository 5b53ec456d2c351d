\* Sweeps and readers together: what is unlinked goes from everywhere.
SPECIFICATION FairPlatformSpec
CONSTANTS
  MediaIDs = {m1}
  Slots = {s1}
  NoMedia = NoMedia
  AccessModes = {"private", "public"}
  ContentTypes = {"png"}
  Sizes = {1}
  Contents = {pic}
  NoContent = NoContent
  ShapeOf <- MCShapeOf
  Images = {pic}
  Workers = {w1, u1}
  Sweepers = {w1}
  Rank <- MCRank
  Limit = 1
  Crashes = FALSE
  Requests = {r1}
  RequestTTL = 1
  TokenTTL = 1
  PrivateTTL = 1
  PublicTTL = 2
  Methods = {"GET"}
  StrayLocations = {}
  StrayContents = {}
  Recovery = 2
  OrphanGrace = 2
  UploadGrace = 1
  MaxGeneration = 2
  Retries = FALSE
  AmbiguousDelete = FALSE
PROPERTIES UnlinkedVanishes FadesInTime
