---------------------------- MODULE BadgeRequests ----------------------------
(***************************************************************************)
(* The badge catalogue, and how badges come to users and sites: by a        *)
(* request that an admin approves, or by an admin's own assignment.         *)
(*                                                                          *)
(* Approval and rejection lock the row of the request before they look at   *)
(* it; cancellation, creation and assignment look first and write later.    *)
(* What badges do to points is in PointAccount.                             *)
(***************************************************************************)
EXTENDS UseCases

CONSTANTS
  Users,
  Sites,
  Manages,      \* who manages a site: [Sites -> SUBSET Users]
  UserBadges,   \* badges whose badgeType is "user"
  SiteBadges,   \* and "site"
  Requests,     \* ids of badge requests, of both tables
  MaxAwards     \* bound of the model: rows of one badge of one owner

\* Assumed of the constants: the bound is a number.
MaxAwardsIsNumber == MaxAwards \in Nat

Owners == Users \cup Sites
Badges == UserBadges \cup SiteBadges

BadgesOf(o) == IF o \in Users THEN UserBadges ELSE SiteBadges

VARIABLES
  badge,     \* badges.isActive and badges.deletedAt
  request,   \* user_badge_requests and site_badge_requests
  award      \* how many rows user_badges or site_badges has for owner, badge

vars == <<badge, request, award, job, calm>>

NoRequest == [status |-> "none", owner |-> None, badge |-> None, by |-> None]

Status == {"pending", "approved", "rejected", "cancelled"}

BadgeRequest == [status: Status, owner: Owners, badge: Badges, by: Users]

Awarded(o, b) == award[o][b] > 0

\* findPendingByUserAndBadge, findPendingBySiteAndBadge
HasPending(o, b) ==
  \E r \in Requests : /\ request[r].status = "pending"
                      /\ request[r].owner = o
                      /\ request[r].badge = b

\* SELECT ... FOR UPDATE: the transaction in progress that has locked the row.
Locked(r) == \E h \in Busy({"approve", "reject"}) : job[h].id = r

Init ==
  /\ badge = [b \in Badges |-> "active"]
  /\ request = [r \in Requests |-> NoRequest]
  /\ award = [o \in Owners |-> [b \in Badges |-> 0]]
  /\ NoJobs

-----------------------------------------------------------------------------
(* Requests *)

\* The checks of both creations; a site's request is made by a manager.
MayRequest(u, o, b) ==
  /\ badge[b] = "active"
  /\ b \in BadgesOf(o)
  /\ ~Awarded(o, b)
  /\ ~HasPending(o, b)

CheckUserRequest(h, u, b) ==
  /\ MayRequest(u, u, b)
  /\ Begin(h, [op |-> "create", owner |-> u, badge |-> b, by |-> u])
  /\ UNCHANGED <<badge, request, award>>

CheckSiteRequest(h, u, s, b) ==
  /\ u \in Manages[s]
  /\ MayRequest(u, s, b)
  /\ Begin(h, [op |-> "create", owner |-> s, badge |-> b, by |-> u])
  /\ UNCHANGED <<badge, request, award>>

\* The images are uploaded, then the row is inserted.
InsertRequest(h, r) ==
  /\ At(h, "create")
  /\ request[r] = NoRequest
  /\ request' = [request EXCEPT ![r] =
       [status |-> "pending", owner |-> job[h].owner,
        badge |-> job[h].badge, by |-> job[h].by]]
  /\ End(h)
  /\ UNCHANGED <<badge, award>>

MayCancel(u, r) == request[r].by = u /\ request[r].status = "pending"

CheckCancelUser(h, u, r) ==
  /\ request[r].owner \in Users
  /\ MayCancel(u, r)
  /\ Begin(h, [op |-> "cancel", id |-> r])
  /\ UNCHANGED <<badge, request, award>>

CheckCancelSite(h, u, r) ==
  /\ request[r].owner \in Sites
  /\ MayCancel(u, r)
  /\ Begin(h, [op |-> "cancel", id |-> r])
  /\ UNCHANGED <<badge, request, award>>

\* An UPDATE by id, which waits for the row's lock.
Cancel(h) ==
  /\ At(h, "cancel")
  /\ ~Locked(job[h].id)
  /\ request' = [request EXCEPT ![job[h].id].status = "cancelled"]
  /\ End(h)
  /\ UNCHANGED <<badge, award>>

\* Mutant: the row is read without FOR UPDATE.
ReadUnlocked(h, op, r) ==
  /\ request[r].status = "pending"
  /\ Begin(h, [op |-> op, id |-> r])

\* "Lock request row with pessimistic lock", "Check status is pending".
LockPending(h, op, r) ==
  /\ ~Locked(r)
  /\ request[r].status = "pending"
  /\ Begin(h, [op |-> op, id |-> r])

\* "Validate badge is still active", "Double-check ... (handle race condition)".
LockForApproval(h, r, owners) ==
  /\ request[r].owner \in owners
  /\ LockPending(h, "approve", r)
  /\ badge[request[r].badge] = "active"
  /\ ~Awarded(request[r].owner, request[r].badge)
  /\ UNCHANGED <<badge, request, award>>

ApproveUserRequest(h, r) == LockForApproval(h, r, Users)

ApproveSiteRequest(h, r) == LockForApproval(h, r, Sites)

AddAward(o, b) ==
  /\ award[o][b] < MaxAwards
  /\ award' = [award EXCEPT ![o][b] = @ + 1]

CommitApproval(h) ==
  /\ At(h, "approve")
  /\ LET r == job[h].id
     IN  /\ request' = [request EXCEPT ![r].status = "approved"]
         /\ AddAward(request[r].owner, request[r].badge)
  /\ End(h)
  /\ UNCHANGED badge

RejectUserRequest(h, r) ==
  /\ request[r].owner \in Users
  /\ LockPending(h, "reject", r)
  /\ UNCHANGED <<badge, request, award>>

RejectSiteRequest(h, r) ==
  /\ request[r].owner \in Sites
  /\ LockPending(h, "reject", r)
  /\ UNCHANGED <<badge, request, award>>

CommitRejection(h) ==
  /\ At(h, "reject")
  /\ request' = [request EXCEPT ![job[h].id].status = "rejected"]
  /\ End(h)
  /\ UNCHANGED <<badge, award>>

-----------------------------------------------------------------------------
(* Assignment by an admin *)

\* Mutant: an assignment does not look for the badge the owner has.
AssignAnyway(h, u, b) ==
  /\ badge[b] = "active"
  /\ b \in UserBadges
  /\ Begin(h, [op |-> "assign", owner |-> u, badge |-> b])
  /\ UNCHANGED <<badge, request, award>>

CheckAssignToUser(h, u, b) ==
  /\ badge[b] = "active"
  /\ b \in UserBadges
  /\ ~Awarded(u, b)
  /\ Begin(h, [op |-> "assign", owner |-> u, badge |-> b])
  /\ UNCHANGED <<badge, request, award>>

CheckAssignToSite(h, s, b) ==
  /\ badge[b] = "active"
  /\ b \in SiteBadges
  /\ ~Awarded(s, b)
  /\ Begin(h, [op |-> "assign", owner |-> s, badge |-> b])
  /\ UNCHANGED <<badge, request, award>>

Assign(h) ==
  /\ At(h, "assign")
  /\ AddAward(job[h].owner, job[h].badge)
  /\ End(h)
  /\ UNCHANGED <<badge, request>>

\* DELETE by owner and badge: every row of it.
RemoveRows(o, b) ==
  /\ award' = [award EXCEPT ![o][b] = 0]
  /\ AtOnce
  /\ UNCHANGED <<badge, request>>

RemoveFromUser(u, b) ==
  /\ Awarded(u, b)
  /\ badge[b] # "deleted"
  /\ RemoveRows(u, b)

RemoveFromSite(s, b) == RemoveRows(s, b)

-----------------------------------------------------------------------------
(* The catalogue *)

UpdateBadge(b) ==
  /\ badge[b] # "deleted"
  /\ \E status \in {"active", "inactive"} : badge' = [badge EXCEPT ![b] = status]
  /\ AtOnce
  /\ UNCHANGED <<request, award>>

CheckDeleteBadge(h, b) ==
  /\ badge[b] # "deleted"
  /\ \A u \in Users : ~Awarded(u, b)
  /\ Begin(h, [op |-> "delete", badge |-> b])
  /\ UNCHANGED <<badge, request, award>>

DeleteBadge(h) ==
  /\ At(h, "delete")
  /\ badge' = [badge EXCEPT ![job[h].badge] = "deleted"]
  /\ End(h)
  /\ UNCHANGED <<request, award>>

\* isActive is as it was before the deletion: either value.
RestoreBadge(b) ==
  /\ badge[b] = "deleted"
  /\ \E status \in {"active", "inactive"} : badge' = [badge EXCEPT ![b] = status]
  /\ AtOnce
  /\ UNCHANGED <<request, award>>

\* An error between two parts: what a transaction wrote is rolled back.
Fail(h) == ~Idle(h) /\ End(h) /\ UNCHANGED <<badge, request, award>>

\* The routes of each controller, and what is left of the use cases they begin.
UserBadgeRequestController(h) ==
  \E u \in Users :
    \/ \E b \in Badges : CheckUserRequest(h, u, b)
    \/ \E r \in Requests : CheckCancelUser(h, u, r)

SiteBadgeRequestController(h) ==
  \E u \in Users :
    \/ \E s \in Sites, b \in Badges : CheckSiteRequest(h, u, s, b)
    \/ \E r \in Requests : CheckCancelSite(h, u, r)

AdminUserBadgeRequestController(h) ==
  \E r \in Requests : ApproveUserRequest(h, r) \/ RejectUserRequest(h, r)

AdminSiteBadgeRequests(h) ==
  \E r \in Requests : ApproveSiteRequest(h, r) \/ RejectSiteRequest(h, r)

AdminSiteBadges(h) ==
  \E s \in Sites, b \in Badges : CheckAssignToSite(h, s, b) \/ RemoveFromSite(s, b)

AdminUserBadgeController(h) ==
  \E u \in Users, b \in Badges : CheckAssignToUser(h, u, b) \/ RemoveFromUser(u, b)

AdminBadgeController(h) ==
  \E b \in Badges : CheckDeleteBadge(h, b) \/ UpdateBadge(b) \/ RestoreBadge(b)

Finish(h) ==
  \/ \E r \in Requests : InsertRequest(h, r)
  \/ Cancel(h)
  \/ CommitApproval(h)
  \/ CommitRejection(h)
  \/ Assign(h)
  \/ DeleteBadge(h)
  \/ Fail(h)

Next ==
  \E h \in Handlers :
    \/ UserBadgeRequestController(h)
    \/ SiteBadgeRequestController(h)
    \/ AdminUserBadgeRequestController(h)
    \/ AdminSiteBadgeRequests(h)
    \/ AdminSiteBadges(h)
    \/ AdminUserBadgeController(h)
    \/ AdminBadgeController(h)
    \/ Finish(h)

Spec == Init /\ [][Next]_vars

-----------------------------------------------------------------------------
(* Properties *)

\* Every variable has its type.
TypeOK ==
  /\ badge \in [Badges -> {"active", "inactive", "deleted"}]
  /\ request \in [Requests -> BadgeRequest \cup {NoRequest}]
  /\ award \in [Owners -> [Badges -> 0..MaxAwards]]
  /\ calm \in BOOLEAN

\* Whatever overlaps: an admin's decision, approval or rejection, is made on a
\* request that is pending when the decision commits, so no request is both
\* approved and rejected.  The row lock is what this rests on; cancellations,
\* which have none, wait for it.
DecidesPendingOnly ==
  [][\A r \in Requests :
       request'[r].status \in {"approved", "rejected"} /\ request'[r] # request[r]
         => request[r].status = "pending"]_vars

\* As long as use cases do not overlap, an owner has a badge once, an open
\* request per badge at most, and no badge a user has is deleted from the
\* catalogue.  Only checks before the writes stand for it, no index does.
CalmAwards ==
  calm =>
    /\ \A o \in Owners, b \in Badges : award[o][b] <= 1
    /\ \A u \in Users, b \in UserBadges : Awarded(u, b) => badge[b] # "deleted"
    /\ \A r1, r2 \in Requests :
         /\ request[r1].status = "pending"
         /\ request[r2].status = "pending"
         /\ request[r1].owner = request[r2].owner
         /\ request[r1].badge = request[r2].badge
         => r1 = r2

-----------------------------------------------------------------------------
(* What makes them inductive; the proofs are in BadgeRequestsProofs.        *)

\* Use cases in progress name owners, badges and requests that exist.
JobsAreReal ==
  /\ DOMAIN job = Handlers
  /\ \A h \in Handlers :
       /\ At(h, "create") => /\ job[h].owner \in Owners
                             /\ job[h].badge \in Badges
                             /\ job[h].by \in Users
       /\ At(h, "cancel") => /\ job[h].id \in Requests
                             /\ request[job[h].id] # NoRequest
       /\ At(h, "assign") => job[h].owner \in Owners /\ job[h].badge \in Badges

\* A decision holds the lock on its request, which stays pending under it.
LocksHold ==
  \A h \in Busy({"approve", "reject"}) :
    /\ job[h].id \in Requests
    /\ request[job[h].id].status = "pending"
    /\ \A g \in Busy({"approve", "reject"}) : job[g].id = job[h].id => g = h

\* While use cases do not overlap, what one has checked is still so.
ChecksStand ==
  calm =>
    /\ \A g, h \in Handlers : ~Idle(g) /\ ~Idle(h) => g = h
    /\ \A h \in Handlers :
         /\ At(h, "create") => ~HasPending(job[h].owner, job[h].badge)
         /\ At(h, "approve") =>
              LET r == request[job[h].id]
              IN  ~Awarded(r.owner, r.badge) /\ badge[r.badge] = "active"
         /\ At(h, "assign") => /\ ~Awarded(job[h].owner, job[h].badge)
                               /\ badge[job[h].badge] = "active"
         /\ At(h, "delete") => \A u \in Users : ~Awarded(u, job[h].badge)
=============================================================================
