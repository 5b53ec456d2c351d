\* A database that runs the body of a conflicting transaction again.
SPECIFICATION Spec
CONSTANTS
  MediaIDs = {m1}
  Slots = {s1}
  NoMedia = NoMedia
  AccessModes = {"private"}
  ContentTypes = {"png"}
  Sizes = {1}
  pic = pic
  other = other
  junk = junk
  Contents = {pic}
  NoContent = NoContent
  ShapeOf <- MCShapeOf
  Images <- MCImages
  Workers = {w1}
  Recovery = 2
  OrphanGrace = 1
  UploadGrace = 1
  MaxGeneration = 1
  Retries = TRUE
  AmbiguousDelete = FALSE
PROPERTY BytesOutliveLinks
