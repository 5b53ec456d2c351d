\* Two sweeps at once, beside users who link, restore and store again, and
\* deletes that work and report an error.
SPECIFICATION SweepSpec
CONSTANTS
  m1 = m1
  m2 = m2
  MediaIDs = {m1}
  Slots = {s1}
  NoMedia = NoMedia
  AccessModes = {"private"}
  ContentTypes = {"png"}
  Sizes = {1}
  pic = pic
  Contents = {pic, other}
  NoContent = NoContent
  ShapeOf <- MCShapeOf
  Images = {pic, other}
  Workers = {w1, w2, u1}
  Sweepers = {w1, w2}
  Rank <- MCRank
  Limit = 1
  Crashes = TRUE
  Recovery = 1
  OrphanGrace = 1
  UploadGrace = 1
  MaxGeneration = 2
  Retries = FALSE
  AmbiguousDelete = TRUE
SYMMETRY Symmetry
INVARIANTS SweepTypeOK RefsAgree PurgeIsExclusive PinnedIsRecorded
PROPERTIES BytesOutliveLinks KeepsPromise
