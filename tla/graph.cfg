\* Links, counters and references, in the most hostile environment.
SPECIFICATION Spec
CONSTANTS
  MediaIDs = {m1, m2}
  Slots = {s1, s2}
  NoMedia = NoMedia
  AccessModes = {"private"}
  ContentTypes = {"png"}
  Sizes = {1}
  pic = pic
  other = other
  junk = junk
  Contents = {pic}
  NoContent = NoContent
  ShapeOf <- MCShapeOf
  Images <- MCImages
  Workers = {w1}
  Recovery = 2
  OrphanGrace = 1
  UploadGrace = 1
  MaxGeneration = 1
  Retries = TRUE
  AmbiguousDelete = TRUE
SYMMETRY Symmetry
INVARIANTS TypeOK CountsExact RefsAgree LinkedIsReady
PROPERTIES RemovalIsRecoverable
