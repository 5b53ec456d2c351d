\* Readers beside everything the service does.
SPECIFICATION WorkerSpec
CONSTANTS
  MediaIDs = {m1}
  Slots = {s1}
  NoMedia = NoMedia
  AccessModes = {"private", "public"}
  ContentTypes = {"png"}
  Sizes = {1}
  Contents = {pic, other}
  NoContent = NoContent
  ShapeOf <- MCShapeOf
  Images = {pic, other}
  Workers = {w1}
  Requests = {r1}
  RequestTTL = 2
  TokenTTL = 2
  PrivateTTL = 1
  PublicTTL = 6
  Recovery = 4
  Methods = {"GET", "HEAD"}
  StrayLocations = {"none", "elsewhere", "storage.googleapis.com"}
  StrayContents = {foreign}
  OrphanGrace = 3
  UploadGrace = 1
  MaxGeneration = 2
  Retries = FALSE
  AmbiguousDelete = FALSE
SYMMETRY Symmetry
INVARIANTS WorkerTypeOK PublicDeliveryIsExplicit CachedIsRecorded TokensAreServed PrivateCacheIsLive SharedIsPublic CopiesAreRecorded RevocationIsBounded
