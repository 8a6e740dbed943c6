----------------------------- MODULE Memberships -----------------------------
(***************************************************************************)
(* Who a user is: the account, the roles "user" and "partner", requests to  *)
(* become a partner, applications to manage a site, and the managers of     *)
(* sites.  The password and the tokens of the account are in Sessions.      *)
(*                                                                          *)
(* Roles are rows without a unique index, read and rewritten by three use   *)
(* cases; managers are rows with a unique index on site and user, which are *)
(* deactivated and never deleted.  UpdateUserUseCase reads the user before  *)
(* its transaction and saves the whole entity in it.                        *)
(***************************************************************************)
EXTENDS UseCases, FiniteSets

CONSTANTS
  Users,
  Sites,
  RoleRows,          \* ids of user_roles rows that exist at one time
  PartnerRequests,   \* ids, in the order they are created
  Applications       \* ids

\* Assumed of the constants: ids of requests tell which is the first.
IdsAreOrdered == PartnerRequests \subseteq Nat

\* And no user is the absent one.
NoneIsNoUser == None \notin Users

Roles == {"user", "partner"}

VARIABLES
  account,       \* users.isActive and users.deletedAt
  roleRow,       \* user_roles
  partnerReq,    \* partner_requests
  application,   \* site_manager_applications
  site,          \* the sites that exist
  manager        \* site_managers

vars == <<account, roleRow, partnerReq, application, site, manager, job, calm>>

NoRow == [status |-> "none", user |-> None, site |-> None]

NoRole == [user |-> None, role |-> "none"]

PartnerRequest == [status: {"pending", "approved", "rejected"},
                   user: Users, site: {None}]

SiteManagerApplication == [status: {"pending", "approved", "rejected"},
                           user: Users, site: Sites]

UserRole == [user: Users, role: Roles]

\* userRoleRepo.find: the rows of a user.
RolesOf(u) == {i \in RoleRows : roleRow[i].user = u}

Has(u, r) == \E i \in RolesOf(u) : roleRow[i].role = r

\* findBySiteAndUser of the managers looks at active ones.
IsManager(s, u) == manager[s][u] = "active"

Locked(id) == \E h \in Busy({"approve partner", "reject partner", "approve"}) :
                job[h].id = id

Init ==
  /\ account = [u \in Users |-> "none"]
  /\ roleRow = [i \in RoleRows |-> NoRole]
  /\ partnerReq = [p \in PartnerRequests |-> NoRow]
  /\ application = [a \in Applications |-> NoRow]
  /\ site = {}
  /\ manager = [s \in Sites |-> [u \in Users |-> "none"]]
  /\ NoJobs

SameUsers == UNCHANGED <<account, roleRow>>
SameRequests == UNCHANGED <<partnerReq, application>>
SameSites == UNCHANGED <<site, manager>>

FreeRow(i) == roleRow[i] = NoRole /\ \A k \in RoleRows : k < i => roleRow[k] # NoRole

\* The rows with those of the set deleted and one of the user inserted.
Replaced(deleted, i, u, r) ==
  [k \in RoleRows |-> IF k = i THEN [user |-> u, role |-> r]
                      ELSE IF k \in deleted THEN NoRole ELSE roleRow[k]]

AddRole(u, r) == \E i \in RoleRows : FreeRow(i) /\ roleRow' = Replaced({}, i, u, r)

-----------------------------------------------------------------------------
(* Users, by an admin *)

CreateUser(u) ==
  /\ account[u] = "none"
  /\ \E status \in {"active", "inactive"} : account' = [account EXCEPT ![u] = status]
  /\ \E r \in Roles : AddRole(u, r)
  /\ AtOnce /\ SameRequests /\ SameSites

\* "Inactive all site managers for this user"
NoLongerManager(u) ==
  manager' = [s \in Sites |-> [manager[s] EXCEPT ![u] =
                                 IF @ = "active" THEN "inactive" ELSE @]]

CheckDeleteUser(h, u) ==
  /\ account[u] \in {"active", "inactive"}
  /\ Begin(h, [op |-> "delete user", user |-> u])
  /\ SameUsers /\ SameRequests /\ SameSites

DeleteUser(h) ==
  /\ At(h, "delete user")
  /\ account' = [account EXCEPT ![job[h].user] = "deleted"]
  /\ NoLongerManager(job[h].user)
  /\ End(h) /\ SameRequests /\ UNCHANGED <<roleRow, site>>

\* isActive and partner are optional: "keep" when they are not in the request.
\* With both kept it is also what every use case does to users that saves the
\* account as it read it: login, a new password, a profile.
CheckUpdateUser(h, u) ==
  /\ account[u] \in {"active", "inactive"}
  /\ \E active \in {"keep", "active", "inactive"}, role \in Roles \cup {"keep"} :
       Begin(h, [op |-> "update user", user |-> u, role |-> role,
                 deactivated |-> active = "inactive",
                 account |-> IF active = "keep" THEN account[u] ELSE active])
  /\ SameUsers /\ SameRequests /\ SameSites

\* "User can only have 1 role": no row, insert; one, update it; more, "should
\* not happen, but handle it", delete all and insert.
OneRoleRow(u, r) ==
  LET rows == RolesOf(u)
  IN  IF Cardinality(rows) = 1
      THEN roleRow' = [i \in RoleRows |-> IF i \in rows THEN [user |-> u, role |-> r]
                                          ELSE roleRow[i]]
      ELSE \E i \in RoleRows : /\ i \in rows \/ FreeRow(i)
                               /\ roleRow' = Replaced(rows, i, u, r)

\* Mutant: a demoted partner keeps the sites.
UpdateUserOnly(h) ==
  /\ At(h, "update user")
  /\ LET j == job[h]
     IN  /\ account' = [account EXCEPT ![j.user] = j.account]
         /\ IF j.role = "keep" THEN UNCHANGED roleRow ELSE OneRoleRow(j.user, j.role)
         /\ IF j.deactivated THEN NoLongerManager(j.user) ELSE UNCHANGED manager
  /\ End(h) /\ SameRequests /\ UNCHANGED site

\* The saved entity overwrites the account, a deletion since then included.
UpdateUser(h) ==
  /\ At(h, "update user")
  /\ LET j == job[h]
     IN  /\ account' = [account EXCEPT ![j.user] = j.account]
         /\ IF j.role = "keep" THEN UNCHANGED roleRow ELSE OneRoleRow(j.user, j.role)
         /\ IF j.deactivated \/ j.role = "user"
            THEN NoLongerManager(j.user) ELSE UNCHANGED manager
  /\ End(h) /\ SameRequests /\ UNCHANGED site

-----------------------------------------------------------------------------
(* Requests to become a partner *)

\* The newest of the user's requests, by createdAt.
Latest(u, p) ==
  /\ partnerReq[p].user = u
  /\ \A q \in PartnerRequests : partnerReq[q].user = u => q <= p

\* Partial unique index: one pending request of a user.
UniquePending(u) ==
  \A p \in PartnerRequests : partnerReq[p].user = u => partnerReq[p].status # "pending"

CheckPartnerRequest(h, u) ==
  /\ account[u] = "active"
  /\ ~Has(u, "partner")
  /\ \E p \in PartnerRequests \cup {None} :
       /\ IF p = None THEN \A q \in PartnerRequests : partnerReq[q].user # u
          ELSE Latest(u, p) /\ partnerReq[p].status = "rejected"
       /\ Begin(h, [op |-> "ask", user |-> u, seen |-> p])
  /\ SameUsers /\ SameRequests /\ SameSites

\* Mutant: the index is missing.
AskUnindexed(h) ==
  /\ At(h, "ask")
  /\ \E p \in PartnerRequests :
       /\ IF job[h].seen = None
          THEN partnerReq[p] = NoRow /\ \A q \in PartnerRequests : q < p => partnerReq[q] # NoRow
          ELSE p = job[h].seen
       /\ partnerReq' = [partnerReq EXCEPT ![p] =
            [status |-> "pending", user |-> job[h].user, site |-> None]]
  /\ End(h) /\ SameUsers /\ SameSites /\ UNCHANGED application

\* A rejected request becomes pending again, otherwise a row is inserted.
CreatePartnerRequest(h) ==
  /\ At(h, "ask")
  /\ UniquePending(job[h].user)
  /\ \E p \in PartnerRequests :
       /\ IF job[h].seen = None
          THEN partnerReq[p] = NoRow /\ \A q \in PartnerRequests : q < p => partnerReq[q] # NoRow
          ELSE p = job[h].seen
       /\ partnerReq' = [partnerReq EXCEPT ![p] =
            [status |-> "pending", user |-> job[h].user, site |-> None]]
  /\ End(h) /\ SameUsers /\ SameSites /\ UNCHANGED application

\* The user, and a request with it if partner is asked for; no role is given.
Register(u) ==
  /\ account[u] = "none"
  /\ account' = [account EXCEPT ![u] = "active"]
  /\ \/ UNCHANGED partnerReq
     \/ /\ UniquePending(u)
        /\ \E p \in PartnerRequests :
             /\ partnerReq[p] = NoRow
             /\ \A q \in PartnerRequests : q < p => partnerReq[q] # NoRow
             /\ partnerReq' = [partnerReq EXCEPT ![p] =
                  [status |-> "pending", user |-> u, site |-> None]]
  /\ AtOnce /\ SameSites /\ UNCHANGED <<roleRow, application>>

\* Both decisions lock the row of the request first.
LockPartnerRequest(h, op, p) ==
  /\ ~Locked(p)
  /\ partnerReq[p].status = "pending"
  /\ Begin(h, [op |-> op, id |-> p])
  /\ SameUsers /\ SameRequests /\ SameSites

\* The partner role is added to the roles there are.
ApprovePartnerRequest(h) ==
  /\ At(h, "approve partner")
  /\ LET u == partnerReq[job[h].id].user
     IN  IF Has(u, "partner") THEN UNCHANGED roleRow ELSE AddRole(u, "partner")
  /\ partnerReq' = [partnerReq EXCEPT ![job[h].id].status = "approved"]
  /\ End(h) /\ SameSites /\ UNCHANGED <<account, application>>

RejectPartnerRequest(h) ==
  /\ At(h, "reject partner")
  /\ partnerReq' = [partnerReq EXCEPT ![job[h].id].status = "rejected"]
  /\ End(h) /\ SameUsers /\ SameSites /\ UNCHANGED application

-----------------------------------------------------------------------------
(* Applications to manage a site *)

ApplicationsOf(s, u, status) ==
  {a \in Applications : application[a] = [status |-> status, user |-> u, site |-> s]}

CheckApply(h, u, s) ==
  /\ account[u] = "active"
  /\ s \in site
  /\ ~IsManager(s, u)
  /\ ApplicationsOf(s, u, "pending") = {}
  /\ ApplicationsOf(s, u, "approved") = {}
  /\ Begin(h, [op |-> "apply", user |-> u, site |-> s])
  /\ SameUsers /\ SameRequests /\ SameSites

\* The insert meets the partial unique index on pending applications.
Apply(h, a) ==
  /\ At(h, "apply")
  /\ application[a] = NoRow
  /\ ApplicationsOf(job[h].site, job[h].user, "pending") = {}
  /\ application' = [application EXCEPT ![a] =
       [status |-> "pending", user |-> job[h].user, site |-> job[h].site]]
  /\ End(h) /\ SameUsers /\ SameSites /\ UNCHANGED partnerReq

CheckApprove(h, a) ==
  /\ ~Locked(a)
  /\ application[a].status = "pending"
  /\ ~IsManager(application[a].site, application[a].user)
  /\ Begin(h, [op |-> "approve", id |-> a])
  /\ SameUsers /\ SameRequests /\ SameSites

\* Convert the role "user" to "partner"; a user without a role gets one.
BecomePartner(u) ==
  LET asUser == {i \in RolesOf(u) : roleRow[i].role = "user"}
  IN  IF (asUser # {} /\ ~Has(u, "partner")) \/ RolesOf(u) = {}
      THEN \E i \in RoleRows : /\ i \in asUser \/ FreeRow(i)
                               /\ roleRow' = Replaced(asUser, i, u, "partner")
      ELSE UNCHANGED roleRow

\* The insert of the manager meets the unique index on site and user: it fails
\* if there is a row, active or not.
ApproveApplication(h) ==
  /\ At(h, "approve")
  /\ LET a == application[job[h].id]
     IN  /\ manager[a.site][a.user] = "none"
         /\ manager' = [manager EXCEPT ![a.site][a.user] = "active"]
         /\ BecomePartner(a.user)
  /\ application' = [application EXCEPT ![job[h].id].status = "approved"]
  /\ End(h) /\ UNCHANGED <<account, partnerReq, site>>

\* No lock: a check, and an UPDATE by id that waits for the lock of an approval.
CheckReject(h, a) ==
  /\ application[a].status = "pending"
  /\ Begin(h, [op |-> "reject", id |-> a])
  /\ SameUsers /\ SameRequests /\ SameSites

RejectApplication(h) ==
  /\ At(h, "reject")
  /\ ~Locked(job[h].id)
  /\ application' = [application EXCEPT ![job[h].id].status = "rejected"]
  /\ End(h) /\ SameUsers /\ SameSites /\ UNCHANGED partnerReq

-----------------------------------------------------------------------------
(* Managers named with the site *)

\* Both creations of a site check the role in their transaction.
CheckPartner(h, s, u) ==
  /\ account[u] \in {"active", "inactive"}
  /\ Has(u, "partner")
  /\ s \notin site
  /\ Begin(h, [op |-> "create site", user |-> u, site |-> s])
  /\ SameUsers /\ SameRequests /\ SameSites

CreateSite(h) ==
  /\ At(h, "create site")
  /\ job[h].site \notin site
  /\ site' = site \cup {job[h].site}
  /\ manager' = [manager EXCEPT ![job[h].site][job[h].user] = "active"]
  /\ End(h) /\ SameUsers /\ SameRequests

CheckPartnerUid(h, s, u) ==
  /\ s \in site
  /\ account[u] \in {"active", "inactive"}
  /\ Has(u, "partner")
  /\ Begin(h, [op |-> "add manager", user |-> u, site |-> s])
  /\ SameUsers /\ SameRequests /\ SameSites

\* An inactive row becomes active again, no row is inserted.
AddManager(h) ==
  /\ At(h, "add manager")
  /\ manager' = [manager EXCEPT ![job[h].site][job[h].user] = "active"]
  /\ End(h) /\ SameUsers /\ SameRequests /\ UNCHANGED site

RemovePartnerUid(s, u) ==
  /\ s \in site
  /\ manager[s][u] # "none"
  /\ manager' = [manager EXCEPT ![s][u] = "inactive"]
  /\ AtOnce /\ SameUsers /\ SameRequests /\ UNCHANGED site

\* An error, or a unique index that is violated: the transaction rolls back.
Fail(h) == ~Idle(h) /\ End(h) /\ SameUsers /\ SameRequests /\ SameSites

\* The routes of each controller, and what is left of the use cases they begin.
AuthController == \E u \in Users : Register(u)

AdminUserController(h) ==
  \E u \in Users : CreateUser(u) \/ CheckDeleteUser(h, u) \/ CheckUpdateUser(h, u)

PartnerController(h) == \E u \in Users : CheckPartnerRequest(h, u)

AdminPartnerController(h) ==
  \E p \in PartnerRequests, op \in {"approve partner", "reject partner"} :
    LockPartnerRequest(h, op, p)

SiteManagerController(h) == \E u \in Users, s \in Sites : CheckApply(h, u, s)

AdminSiteManagerController(h) ==
  \E a \in Applications : CheckApprove(h, a) \/ CheckReject(h, a)

AdminSiteController(h) ==
  \E u \in Users, s \in Sites :
    CheckPartner(h, s, u) \/ CheckPartnerUid(h, s, u) \/ RemovePartnerUid(s, u)

Finish(h) ==
  \/ DeleteUser(h) \/ UpdateUser(h)
  \/ CreatePartnerRequest(h) \/ ApprovePartnerRequest(h) \/ RejectPartnerRequest(h)
  \/ \E a \in Applications : Apply(h, a)
  \/ ApproveApplication(h) \/ RejectApplication(h)
  \/ CreateSite(h) \/ AddManager(h)
  \/ Fail(h)

Next ==
  \E h \in Handlers :
    \/ AuthController \/ AdminUserController(h)
    \/ PartnerController(h) \/ AdminPartnerController(h)
    \/ SiteManagerController(h) \/ AdminSiteManagerController(h)
    \/ AdminSiteController(h)
    \/ Finish(h)

Spec == Init /\ [][Next]_vars

-----------------------------------------------------------------------------
(* Properties *)

\* Every variable has its type.
TypeOK ==
  /\ account \in [Users -> {"none", "active", "inactive", "deleted"}]
  /\ roleRow \in [RoleRows -> UserRole \cup {NoRole}]
  /\ partnerReq \in [PartnerRequests -> PartnerRequest \cup {NoRow}]
  /\ application \in [Applications -> SiteManagerApplication \cup {NoRow}]
  /\ site \subseteq Sites
  /\ manager \in [Sites -> [Users -> {"none", "active", "inactive"}]]
  /\ calm \in BOOLEAN

\* As long as use cases do not overlap, whoever manages a site has the role of
\* a partner, whichever way the user came to it and whatever happened to the
\* roles since: applications convert the role, sites ask for it, and a user who
\* loses it loses the sites.
CalmManagersArePartners ==
  calm => \A s \in Sites, u \in Users : IsManager(s, u) => Has(u, "partner")

\* Whatever overlaps, one request to become a partner and one application per
\* site is open, and an application that was approved has its manager: the row
\* is inserted with the approval and never deleted.
OneOpenEach ==
  /\ \A p, q \in PartnerRequests :
       partnerReq[p].status = "pending" /\ partnerReq[q] = partnerReq[p] => p = q
  /\ \A a, b \in Applications :
       application[a].status = "pending" /\ application[b] = application[a] => a = b
  /\ \A a \in Applications :
       application[a].status = "approved" =>
         manager[application[a].site][application[a].user] # "none"

\* Whatever overlaps: partner requests are decided, and applications approved,
\* only while they are pending.  (Rejecting an application takes no lock.)
DecidesPendingOnly ==
  [][/\ \A p \in PartnerRequests :
          partnerReq'[p].status \in {"approved", "rejected"} /\ partnerReq'[p] # partnerReq[p]
            => partnerReq[p].status = "pending"
     /\ \A a \in Applications :
          application'[a].status = "approved" /\ application'[a] # application[a]
            => application[a].status = "pending"]_vars

-----------------------------------------------------------------------------
(* What makes them inductive; the proofs are in MembershipsProofs.          *)

\* A use case in progress names users, sites and rows that exist.
JobIsReal(h) ==
  /\ job[h].op \in {"delete user", "update user", "ask", "apply",
                    "create site", "add manager"} => job[h].user \in Users
  /\ job[h].op \in {"apply", "create site", "add manager"} => job[h].site \in Sites
  /\ At(h, "update user") => /\ job[h].role \in Roles \cup {"keep"}
                             /\ job[h].account \in {"active", "inactive"}
  /\ At(h, "ask") /\ job[h].seen # None =>
       /\ job[h].seen \in PartnerRequests
       /\ partnerReq[job[h].seen] # NoRow
       /\ partnerReq[job[h].seen].user = job[h].user
  /\ At(h, "reject") => /\ job[h].id \in Applications
                        /\ application[job[h].id] # NoRow

JobsAreReal == DOMAIN job = Handlers /\ \A h \in Handlers : JobIsReal(h)

\* A decision holds the lock on its row, which stays pending under it.
Locking == {"approve partner", "reject partner", "approve"}

LockHolds(h) ==
  /\ IF At(h, "approve")
     THEN job[h].id \in Applications /\ application[job[h].id].status = "pending"
     ELSE job[h].id \in PartnerRequests /\ partnerReq[job[h].id].status = "pending"
  /\ \A g \in Busy(Locking) : job[g].id = job[h].id => g = h

LocksHold == \A h \in Busy(Locking) : LockHolds(h)

\* While use cases do not overlap, the role one has asked for is still there.
RolesStand ==
  calm =>
    /\ \A g, h \in Handlers : ~Idle(g) /\ ~Idle(h) => g = h
    /\ \A h \in Handlers : At(h, "create site") \/ At(h, "add manager") =>
                            Has(job[h].user, "partner")
=============================================================================
