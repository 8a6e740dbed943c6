SPECIFICATION Spec
CONSTANTS
  Handlers = {h1, h2}
  None = None
  Categories = {c1}
  Tiers = {t1}
  Sites = {1, 2}
  OneSite = {s3}
  Requests = {r1}
  Names = {"a", "ab"}
  Slugs = {x1, x2}
  Contains <- ContainsDef
  Users = {u1}
  Everybody = everybody
  Ips = {i1, i2}
  Gifticons = {g1}
  PocaEvents = {p1}
  SiteEvents = {e1}
  Files = {1, 2, 3}
  MaxBanners = 2
  Keep = Keep
  Authors = {u2, u3}
  Writs = {1, 2, 3}
  Reviews = {1, 2}
  Reports = {b1}
  Ratings = {1, 2}
  Ids = {1, 2, 3}
  Values = {0, 1, 2}
  Limits = {1, 2}
  MaxEdits = 1
  MaxPages = 4
  Null = Null
INVARIANTS TypeOK CalmCatalogue MadeOnce CopiesFollow FilesOfRows ReadsEachOnce OnRecord OneReviewEach CalmPublished CalmDerived
SYMMETRY Symmetry
ACTION_CONSTRAINTS UntilOverlap OneItem NextOfAlike OneLoss
CHECK_DEADLOCK FALSE
