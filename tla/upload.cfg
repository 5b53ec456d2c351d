\* Uploads, finalizers and purges racing for one object.
SPECIFICATION Spec
CONSTANTS
  MediaIDs = {m1}
  Slots = {s1, s2}
  NoMedia = NoMedia
  AccessModes = {"private"}
  ContentTypes = {"png"}
  Sizes = {1, 2}
  pic = pic
  other = other
  junk = junk
  Contents = {pic, other, junk}
  NoContent = NoContent
  ShapeOf <- MCShapeOf
  Images <- MCImages
  Workers = {w1, w2, w3}
  Recovery = 2
  OrphanGrace = 1
  UploadGrace = 1
  MaxGeneration = 2
  Retries = FALSE
  AmbiguousDelete = FALSE
SYMMETRY Symmetry
INVARIANTS ServedIsIntact PurgeIsExclusive
PROPERTIES BytesOutliveLinks MetadataIsFrozen EndIsFinal KeepsPromise
