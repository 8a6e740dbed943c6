------------------------------ MODULE MCAccounts ------------------------------
(***************************************************************************)
(* Who users are and what they have: badges, memberships, sessions of users *)
(* and of administrators, telephone numbers, attendance.                    *)
(*                                                                          *)
(* A use case that writes rows of several components is in each of them,    *)
(* with what it does to the rows of that one: saving the account is what    *)
(* update-user does in Logins, with the roles and managers in Members, with *)
(* the number in Numbers.  So every writer of a component's rows is a       *)
(* writer in it, and one of them runs at a time: a behaviour is one of the  *)
(* part that is chosen at first.                                            *)
(***************************************************************************)
EXTENDS UseCases, FiniteSets, TLC

CONSTANTS Users, Admins, Sites, UserBadges, SiteBadges, Requests, MaxAwards,
          RoleRows, PartnerRequests, Applications,
          Tokens, Grants, MaxPasswords,
          People, Phones, MaxRequests, MaxDay

VARIABLES part,
          badge, request, award,
          account, roleRow, partnerReq, application, site, manager,
          credentials, token, code, grant, rewarded, resetAt,
          otp, phoneOf, member, formerly, sent,
          day, clock, stat, rewards

badgeVars == <<badge, request, award>>
memberVars == <<account, roleRow, partnerReq, application, site, manager>>
sessionVars == <<credentials, token, code, grant, rewarded, resetAt>>
phoneVars == <<otp, phoneOf, member, formerly, sent>>
attendanceVars == <<day, clock, stat, rewards>>

vars == <<part, badgeVars, memberVars, sessionVars, phoneVars, attendanceVars, job, calm>>

Badges == INSTANCE BadgeRequests WITH Manages <- [s \in Sites |-> Users]
Members == INSTANCE Memberships
Logins == INSTANCE Sessions WITH account <- credentials
Numbers == INSTANCE SignUp WITH Users <- People
Days == INSTANCE Attendances WITH Users <- People

ASSUME Assumptions ==
  /\ Badges!MaxAwardsIsNumber
  /\ Members!IdsAreOrdered /\ Members!NoneIsNoUser
  /\ Logins!TokensAreOrdered /\ Logins!MaxPasswordsIsNumber /\ Logins!NoneIsNoId
  /\ Numbers!NoneIsNobody /\ Numbers!LimitIsPositive
  /\ Days!FiniteInstance

Init ==
  /\ part \in {"badges", "members", "sessions", "numbers", "days"}
  /\ Badges!Init
  /\ Members!Init
  /\ Logins!Init
  /\ Numbers!Init
  /\ Days!Init

Next ==
  \/ /\ part = "badges" /\ Badges!Next
     /\ UNCHANGED <<part, memberVars, sessionVars, phoneVars, attendanceVars>>
  \/ /\ part = "members" /\ Members!Next
     /\ UNCHANGED <<part, badgeVars, sessionVars, phoneVars, attendanceVars>>
  \/ /\ part = "sessions" /\ Logins!Next
     /\ UNCHANGED <<part, badgeVars, memberVars, phoneVars, attendanceVars>>
  \/ /\ part = "numbers" /\ Numbers!Next
     /\ UNCHANGED <<part, badgeVars, memberVars, sessionVars, attendanceVars>>
  \/ /\ part = "days" /\ Days!Next
     /\ UNCHANGED <<part, badgeVars, memberVars, sessionVars, phoneVars>>

Spec == Init /\ [][Next]_vars

Symmetry ==
  Permutations(Handlers) \cup Permutations(Applications) \cup Permutations(People)

\* All that is claimed of sessions and numbers is claimed until use cases overlap,
\* and calm never comes back: there, a second use case waits for the first.
UntilOverlap == part \in {"sessions", "numbers"} => calm'

\* Accounts share nothing, and sessions of users and of administrators are alike:
\* there are only users, or only administrators, each time.
OneAccount ==
  part = "sessions" =>
    \/ \A a \in Admins : credentials'[a].state = "none"
    \/ \A u \in Users : credentials'[u].state = "none"

-----------------------------------------------------------------------------

\* Every variable of the part that runs has its type.
TypeOK ==
  CASE part = "badges" -> Badges!TypeOK
    [] part = "members" -> Members!TypeOK
    [] part = "sessions" -> Logins!TypeOK
    [] part = "numbers" -> Numbers!TypeOK
    [] part = "days" -> Days!TypeOK

\* As long as use cases do not overlap, a badge is awarded once and no badge a
\* user has is deleted (approve-user-badge-request, delete-badge).
CalmAwards == part = "badges" => Badges!CalmAwards

\* As long as use cases do not overlap, whoever manages a site is a partner
\* (update-user, approve-application, create-site and update-site).
CalmManagersArePartners == part = "members" => Members!CalmManagersArePartners

\* Whatever overlaps: one open partner request per user, one open application
\* per user and site, and an approved one has its manager.
OneOpenEach == part = "members" => Members!OneOpenEach

\* Whatever overlaps: what an admin decides is pending when the decision
\* commits (approve and reject of badge and partner requests, approve-application).
DecidesPendingOnly == Badges!DecidesPendingOnly /\ Members!DecidesPendingOnly

\* As long as use cases do not overlap: refresh tokens serve once, no session
\* outlives a reset of the password or the account, the first login of a day is
\* rewarded once (login, refresh-token, reset-password, of users and of
\* administrators, update-user, delete-user).
CalmSessions == part = "sessions" => Logins!CalmSessions

\* As long as use cases do not overlap, a number is that of the user it was
\* verified for, and codes are sent within the limit (request-otp-phone,
\* verify-otp, register, update-profile).
CalmPhones == part = "numbers" => Numbers!CalmPhones

\* Whatever overlaps: a check-in is rewarded once a day, and exactly if there
\* is a row (create-attendance).
OncePerDay == part = "days" => Days!OncePerDay

\* As long as check-ins do not overlap, streaks count days and ranks number the
\* rows of a day (create-attendance).
CalmAttendance == part = "days" => Days!CalmAttendance
=============================================================================
