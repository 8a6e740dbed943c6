SPECIFICATION Spec
CONSTANTS
  Handlers = {h1, h2}
  None = None
  Users = {u1}
  Admins = {a1}
  Sites = {s1}
  UserBadges = {b1}
  SiteBadges = {b2}
  Requests = {r1, r2}
  MaxAwards = 2
  RoleRows = {1, 2, 3}
  PartnerRequests = {1, 2}
  Applications = {a2, a3}
  Tokens = {1, 2, 3}
  Grants = {g1}
  MaxPasswords = 1
  People = {u2, u3}
  Phones = {p1, p2}
  MaxRequests = 2
  MaxDay = 2
INVARIANTS TypeOK CalmAwards CalmManagersArePartners OneOpenEach CalmSessions CalmPhones OncePerDay CalmAttendance
PROPERTY DecidesPendingOnly
SYMMETRY Symmetry
ACTION_CONSTRAINTS UntilOverlap OneAccount
CHECK_DEADLOCK FALSE
