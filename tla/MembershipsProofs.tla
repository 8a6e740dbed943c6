-------------------------- MODULE MembershipsProofs --------------------------
(* Theorems about Memberships, for every value of its constants.            *)
EXTENDS Memberships, FiniteSetTheorems, TLAPS

JobInv == TypeOK /\ JobsAreReal /\ LocksHold /\ OneOpenEach

\* The parts of OneOpenEach.
OneRequestOpen ==
  \A p, q \in PartnerRequests :
    partnerReq[p].status = "pending" /\ partnerReq[q] = partnerReq[p] => p = q

OneApplicationOpen ==
  \A a, b \in Applications :
    application[a].status = "pending" /\ application[b] = application[a] => a = b

ApprovedHaveManagers ==
  \A a \in Applications :
    application[a].status = "approved" =>
      manager[application[a].site][application[a].user] # "none"

\* The steps of a handler, those of the routes and those of Finish.
Step(h) ==
  \/ AuthController \/ AdminUserController(h)
  \/ PartnerController(h) \/ AdminPartnerController(h)
  \/ SiteManagerController(h) \/ AdminSiteManagerController(h)
  \/ AdminSiteController(h)
  \/ Finish(h)

\* Rows of managers are deactivated and never deleted.
ManagersStay ==
  \A s \in Sites, u \in Users : manager[s][u] # "none" => manager'[s][u] # "none"

\* What the variables of users and sites may become.
UsersTyped ==
  /\ account' \in [Users -> {"none", "active", "inactive", "deleted"}]
  /\ roleRow' \in [RoleRows -> UserRole \cup {NoRole}]

SitesTyped ==
  /\ site' \subseteq Sites
  /\ manager' \in [Sites -> [Users -> {"none", "active", "inactive"}]]

-----------------------------------------------------------------------------
(* Rows and jobs *)

LEMMA NoRowIsNone ==
  /\ NoRow.status = "none"
  /\ NoRow \notin PartnerRequest
  /\ NoRow \notin SiteManagerApplication
<1>1. NoRow.status = "none"
  BY DEF NoRow
<1>2. \A row \in PartnerRequest : row.status # "none"
  BY DEF PartnerRequest
<1>3. \A row \in SiteManagerApplication : row.status # "none"
  BY DEF SiteManagerApplication
<1>4. QED
  BY <1>1, <1>2, <1>3

LEMMA BeginJob ==
  ASSUME DOMAIN job = Handlers, NEW h \in Handlers, NEW j, Begin(h, j)
  PROVE  /\ DOMAIN job' = Handlers
         /\ job'[h] = j
         /\ \A g \in Handlers \ {h} : job'[g] = job[g]
         /\ calm' \in BOOLEAN
         /\ calm' => calm /\ \A g \in Handlers : Idle(g)
<1>1. Idle(h) /\ job' = [job EXCEPT ![h] = j]
  BY DEF Begin
<1>2. /\ calm' \in BOOLEAN
      /\ calm' => calm /\ \A g \in Handlers \ {h} : Idle(g)
  BY Zenon DEF Begin
<1>3. QED
  BY <1>1, <1>2

LEMMA EndJob ==
  ASSUME DOMAIN job = Handlers, NEW h \in Handlers, End(h)
  PROVE  /\ DOMAIN job' = Handlers
         /\ job'[h] = Resting /\ job'[h].op = "none"
         /\ \A g \in Handlers \ {h} : job'[g] = job[g]
         /\ calm' = calm
BY DEF End, Resting

LEMMA InvParts ==
  /\ JobInv <=> /\ TypeOK /\ JobsAreReal /\ LocksHold
                /\ OneRequestOpen /\ OneApplicationOpen /\ ApprovedHaveManagers
  /\ JobInv' <=> /\ TypeOK' /\ JobsAreReal' /\ LocksHold'
                 /\ OneRequestOpen' /\ OneApplicationOpen' /\ ApprovedHaveManagers'
BY DEF JobInv, OneOpenEach, OneRequestOpen, OneApplicationOpen, ApprovedHaveManagers

-----------------------------------------------------------------------------
(* Roles and managers are typed *)

LEMMA ReplacedTyped ==
  ASSUME TypeOK, NEW deleted, NEW i, NEW u \in Users, NEW r \in Roles
  PROVE  Replaced(deleted, i, u, r) \in [RoleRows -> UserRole \cup {NoRole}]
BY DEF Replaced, TypeOK, UserRole

LEMMA RolesTyped ==
  ASSUME TypeOK, NEW u \in Users, NEW r \in Roles,
         \/ AddRole(u, r)
         \/ OneRoleRow(u, r)
         \/ BecomePartner(u)
         \/ UNCHANGED roleRow
  PROVE  roleRow' \in [RoleRows -> UserRole \cup {NoRole}]
<1>1. CASE AddRole(u, r)
  BY <1>1, ReplacedTyped DEF AddRole
<1>2. CASE OneRoleRow(u, r)
  <2>1. CASE \E i \in RoleRows : roleRow' = Replaced(RolesOf(u), i, u, r)
    BY <2>1, ReplacedTyped
  <2>2. CASE roleRow' = [i \in RoleRows |-> IF i \in RolesOf(u)
                                            THEN [user |-> u, role |-> r]
                                            ELSE roleRow[i]]
    BY <2>2 DEF TypeOK, UserRole
  <2>3. QED
    BY <1>2, <2>1, <2>2 DEF OneRoleRow
<1>3. CASE BecomePartner(u)
  <2>1. "partner" \in Roles
    BY DEF Roles
  <2>2. CASE UNCHANGED roleRow
    BY <2>2 DEF TypeOK
  <2>3. CASE \E i \in RoleRows, deleted \in SUBSET RoleRows :
               roleRow' = Replaced(deleted, i, u, "partner")
    BY <2>1, <2>3, ReplacedTyped
  <2>4. QED
    BY <1>3, <2>2, <2>3 DEF BecomePartner, RolesOf
<1>4. CASE UNCHANGED roleRow
  BY <1>4 DEF TypeOK
<1>5. QED
  BY <1>1, <1>2, <1>3, <1>4

LEMMA ManagersTyped ==
  ASSUME TypeOK,
         \/ \E u \in Users : NoLongerManager(u)
         \/ \E s \in Sites, u \in Users, status \in {"active", "inactive"} :
              manager' = [manager EXCEPT ![s][u] = status]
         \/ UNCHANGED manager
  PROVE  /\ manager' \in [Sites -> [Users -> {"none", "active", "inactive"}]]
         /\ ManagersStay
<1>0. manager \in [Sites -> [Users -> {"none", "active", "inactive"}]]
  BY DEF TypeOK
<1>1. ASSUME NEW u \in Users, NoLongerManager(u)
      PROVE  /\ manager' \in [Sites -> [Users -> {"none", "active", "inactive"}]]
             /\ ManagersStay
  <2>1. \A s \in Sites : [manager[s] EXCEPT ![u] = IF @ = "active" THEN "inactive" ELSE @]
                           \in [Users -> {"none", "active", "inactive"}]
    BY <1>0
  <2>2. QED
    BY <1>0, <1>1, <2>1 DEF NoLongerManager, ManagersStay
<1>2. ASSUME NEW s \in Sites, NEW u \in Users, NEW status \in {"active", "inactive"},
             manager' = [manager EXCEPT ![s][u] = status]
      PROVE  /\ manager' \in [Sites -> [Users -> {"none", "active", "inactive"}]]
             /\ ManagersStay
  <2>1. [manager[s] EXCEPT ![u] = status] \in [Users -> {"none", "active", "inactive"}]
    BY <1>0
  <2>2. manager' = [manager EXCEPT ![s] = [manager[s] EXCEPT ![u] = status]]
    BY <1>0, <1>2
  <2>3. QED
    BY <1>0, <2>1, <2>2 DEF ManagersStay
<1>3. CASE UNCHANGED manager
  BY <1>0, <1>3 DEF ManagersStay
<1>4. QED
  BY <1>1, <1>2, <1>3

-----------------------------------------------------------------------------
(* Steps that begin a use case, and those that are one *)

Checks(h) ==
  \/ \E u \in Users : \/ CheckDeleteUser(h, u)
                      \/ CheckUpdateUser(h, u)
                      \/ CheckPartnerRequest(h, u)
  \/ \E p \in PartnerRequests, op \in {"approve partner", "reject partner"} :
       LockPartnerRequest(h, op, p)
  \/ \E u \in Users, s \in Sites : \/ CheckApply(h, u, s)
                                  \/ CheckPartner(h, s, u)
                                  \/ CheckPartnerUid(h, s, u)
  \/ \E a \in Applications : CheckApprove(h, a) \/ CheckReject(h, a)

Statements ==
  \E u \in Users : CreateUser(u) \/ \E s \in Sites : RemovePartnerUid(s, u)

LEMMA StepCases ==
  ASSUME NEW h \in Handlers, Step(h)
  PROVE  Checks(h) \/ Statements \/ AuthController \/ Finish(h)
BY DEF Step, Checks, Statements, AdminUserController, PartnerController,
   AdminPartnerController, SiteManagerController, AdminSiteManagerController,
   AdminSiteController

\* What a job must be when it is begun.
MayBegin(j) ==
  /\ j.op \in {"delete user", "update user", "ask", "apply",
               "create site", "add manager"} => j.user \in Users
  /\ j.op \in {"apply", "create site", "add manager"} => j.site \in Sites
  /\ j.op = "update user" => /\ j.role \in Roles \cup {"keep"}
                             /\ j.account \in {"active", "inactive"}
  /\ j.op = "ask" /\ j.seen # None =>
       /\ j.seen \in PartnerRequests
       /\ partnerReq[j.seen] # NoRow /\ partnerReq[j.seen].user = j.user
  /\ j.op = "reject" => j.id \in Applications /\ application[j.id] # NoRow
  /\ j.op = "approve" =>
       j.id \in Applications /\ application[j.id].status = "pending"
  /\ j.op \in {"approve partner", "reject partner"} =>
       j.id \in PartnerRequests /\ partnerReq[j.id].status = "pending"
  /\ j.op \in Locking => ~Locked(j.id)

LEMMA BeginStep ==
  ASSUME JobInv, NEW h \in Handlers, NEW j, Begin(h, j), MayBegin(j),
         SameUsers, SameRequests, SameSites
  PROVE  JobInv'
<1>0. /\ TypeOK /\ JobsAreReal /\ LocksHold
      /\ OneRequestOpen /\ OneApplicationOpen /\ ApprovedHaveManagers
      /\ DOMAIN job = Handlers
  BY InvParts DEF JobsAreReal
<1>1. /\ DOMAIN job' = Handlers
      /\ job'[h] = j
      /\ \A g \in Handlers \ {h} : job'[g] = job[g]
      /\ calm' \in BOOLEAN
  BY <1>0, BeginJob
<1>2. UNCHANGED <<account, roleRow, partnerReq, application, site, manager>>
  BY DEF SameUsers, SameRequests, SameSites
<1>3. TypeOK'
  BY <1>0, <1>1, <1>2 DEF TypeOK
<1>4. OneRequestOpen' /\ OneApplicationOpen' /\ ApprovedHaveManagers'
  BY <1>0, <1>2 DEF OneRequestOpen, OneApplicationOpen, ApprovedHaveManagers
<1>5. JobsAreReal'
  <2>1. ASSUME NEW g \in Handlers PROVE JobIsReal(g)'
    <3>1. CASE g = h
      BY <1>1, <1>2, <3>1 DEF JobIsReal, At, MayBegin
    <3>2. CASE g # h
      BY <1>0, <1>1, <1>2, <3>2 DEF JobsAreReal, JobIsReal, At
    <3>3. QED
      BY <3>1, <3>2
  <2>2. QED
    BY <1>1, <2>1 DEF JobsAreReal
<1>6. LocksHold'
  <2>1. ASSUME NEW g \in Handlers, job'[g].op \in Locking
        PROVE  LockHolds(g)'
    <3>1. CASE g = h
      <4>1. j.op \in Locking /\ ~Locked(j.id)
        BY <1>1, <2>1, <3>1 DEF MayBegin
      <4>2. \A k \in Busy(Locking)' : k # h => job'[k].id # j.id
        BY <1>1, <4>1 DEF Locked, Busy, Locking
      <4>3. IF At(h, "approve")'
            THEN j.id \in Applications /\ application'[j.id].status = "pending"
            ELSE j.id \in PartnerRequests /\ partnerReq'[j.id].status = "pending"
        BY <1>1, <1>2, <4>1 DEF MayBegin, Locking, At
      <4>4. QED
        BY <1>1, <3>1, <4>2, <4>3 DEF LockHolds
    <3>2. CASE g # h
      <4>1. g \in Busy(Locking) /\ LockHolds(g)
        BY <1>0, <1>1, <2>1, <3>2 DEF LocksHold, Busy
      <4>2. job[g].id # j.id \/ j.op \notin Locking
        BY <4>1 DEF MayBegin, Locked, Locking
      <4>3. QED
        BY <1>1, <1>2, <3>2, <4>1, <4>2 DEF LockHolds, At, Busy
    <3>3. QED
      BY <3>1, <3>2
  <2>2. QED
    BY <2>1 DEF LocksHold, Busy
<1>7. QED
  BY <1>3, <1>4, <1>5, <1>6, InvParts

\* A handler that begins a use case finds what the use case works with.
LEMMA CheckStep ==
  ASSUME JobInv, NEW h \in Handlers, Checks(h)
  PROVE  JobInv' /\ SameUsers /\ SameRequests /\ SameSites
<1>0. TypeOK
  BY InvParts
<1>1. SUFFICES ASSUME SameUsers, SameRequests, SameSites
               PROVE  \E j : Begin(h, j) /\ MayBegin(j)
  <2>1. SameUsers /\ SameRequests /\ SameSites
    BY DEF Checks, CheckDeleteUser, CheckUpdateUser, CheckPartnerRequest,
       LockPartnerRequest, CheckApply, CheckPartner, CheckPartnerUid,
       CheckApprove, CheckReject
  <2>2. QED
    BY <2>1, BeginStep
<1>2. ASSUME NEW u \in Users, CheckDeleteUser(h, u)
      PROVE  \E j : Begin(h, j) /\ MayBegin(j)
  <2> DEFINE j == [op |-> "delete user", user |-> u]
  <2>1. Begin(h, j) /\ MayBegin(j)
    BY <1>2 DEF CheckDeleteUser, MayBegin, Locking
  <2>2. QED
    BY <2>1
<1>3. ASSUME NEW u \in Users, CheckUpdateUser(h, u)
      PROVE  \E j : Begin(h, j) /\ MayBegin(j)
  <2>1. PICK active \in {"keep", "active", "inactive"}, role \in Roles \cup {"keep"} :
          Begin(h, [op |-> "update user", user |-> u, role |-> role,
                    deactivated |-> active = "inactive",
                    account |-> IF active = "keep" THEN account[u] ELSE active])
    BY <1>3 DEF CheckUpdateUser
  <2>2. (IF active = "keep" THEN account[u] ELSE active) \in {"active", "inactive"}
    BY <1>3 DEF CheckUpdateUser
  <2>3. ASSUME NEW b, NEW status \in {"active", "inactive"}
        PROVE  MayBegin([op |-> "update user", user |-> u, role |-> role,
                         deactivated |-> b, account |-> status])
    BY DEF MayBegin, Locking
  <2>4. QED
    BY <2>1, <2>2, <2>3
<1>4. ASSUME NEW u \in Users, CheckPartnerRequest(h, u)
      PROVE  \E j : Begin(h, j) /\ MayBegin(j)
  <2>1. PICK p \in PartnerRequests \cup {None} :
          /\ p # None => Latest(u, p) /\ partnerReq[p].status = "rejected"
          /\ Begin(h, [op |-> "ask", user |-> u, seen |-> p])
    BY <1>4 DEF CheckPartnerRequest
  <2>2. p # None => p \in PartnerRequests /\ partnerReq[p] # NoRow /\ partnerReq[p].user = u
    BY <2>1, NoRowIsNone DEF Latest
  <2>3. MayBegin([op |-> "ask", user |-> u, seen |-> p])
    BY <2>2 DEF MayBegin, Locking
  <2>4. QED
    BY <2>1, <2>3
<1>5. ASSUME NEW p \in PartnerRequests, NEW op \in {"approve partner", "reject partner"},
             LockPartnerRequest(h, op, p)
      PROVE  \E j : Begin(h, j) /\ MayBegin(j)
  <2>1. MayBegin([op |-> op, id |-> p])
    BY <1>5 DEF LockPartnerRequest, MayBegin
  <2>2. QED
    BY <1>5, <2>1 DEF LockPartnerRequest
<1>6. ASSUME NEW u \in Users, NEW s \in Sites, NEW op \in {"apply", "create site", "add manager"},
             Begin(h, [op |-> op, user |-> u, site |-> s])
      PROVE  \E j : Begin(h, j) /\ MayBegin(j)
  <2>1. MayBegin([op |-> op, user |-> u, site |-> s])
    BY DEF MayBegin, Locking
  <2>2. QED
    BY <1>6, <2>1
<1>7. ASSUME NEW a \in Applications, CheckApprove(h, a)
      PROVE  \E j : Begin(h, j) /\ MayBegin(j)
  <2>1. MayBegin([op |-> "approve", id |-> a])
    BY <1>7 DEF CheckApprove, MayBegin
  <2>2. QED
    BY <1>7, <2>1 DEF CheckApprove
<1>8. ASSUME NEW a \in Applications, CheckReject(h, a)
      PROVE  \E j : Begin(h, j) /\ MayBegin(j)
  <2>1. MayBegin([op |-> "reject", id |-> a])
    BY <1>8, NoRowIsNone DEF CheckReject, MayBegin, Locking
  <2>2. QED
    BY <1>8, <2>1 DEF CheckReject
<1>9. QED
  BY <1>2, <1>3, <1>4, <1>5, <1>6, <1>7, <1>8
  DEF Checks, CheckApply, CheckPartner, CheckPartnerUid

\* Creating a user, removing a manager: nobody's requests.
LEMMA StatementStep ==
  ASSUME JobInv, Statements PROVE JobInv' /\ SameRequests
<1>0. /\ TypeOK /\ JobsAreReal /\ LocksHold
      /\ OneRequestOpen /\ OneApplicationOpen /\ ApprovedHaveManagers
  BY InvParts
<1>1. AtOnce /\ SameRequests /\ UNCHANGED <<job, site>>
  BY DEF Statements, CreateUser, RemovePartnerUid, AtOnce, SameSites
<1>2. calm' \in BOOLEAN
  BY <1>1 DEF AtOnce
<1>3. UsersTyped
  <2>1. ASSUME NEW u \in Users, CreateUser(u) PROVE UsersTyped
    <3>1. roleRow' \in [RoleRows -> UserRole \cup {NoRole}]
      BY <1>0, <2>1, RolesTyped DEF CreateUser
    <3>2. QED
      BY <1>0, <2>1, <3>1 DEF CreateUser, UsersTyped, TypeOK
  <2>2. ASSUME NEW u \in Users, NEW s \in Sites, RemovePartnerUid(s, u) PROVE UsersTyped
    BY <1>0, <2>2 DEF RemovePartnerUid, SameUsers, UsersTyped, TypeOK
  <2>3. QED
    BY <2>1, <2>2 DEF Statements
<1>4. SitesTyped /\ ManagersStay
  <2>1. manager' \in [Sites -> [Users -> {"none", "active", "inactive"}]] /\ ManagersStay
    BY <1>0, ManagersTyped DEF Statements, CreateUser, RemovePartnerUid, SameSites
  <2>2. QED
    BY <1>0, <1>1, <2>1 DEF SitesTyped, TypeOK
<1>5. UNCHANGED <<partnerReq, application, job>>
  BY <1>1 DEF SameRequests
<1>6. TypeOK'
  BY <1>0, <1>2, <1>3, <1>4, <1>5 DEF TypeOK, UsersTyped, SitesTyped
<1>7. OneRequestOpen' /\ OneApplicationOpen'
  BY <1>0, <1>5 DEF OneRequestOpen, OneApplicationOpen
<1>8. ApprovedHaveManagers'
  BY <1>0, <1>4, <1>5, NoRowIsNone
  DEF ApprovedHaveManagers, ManagersStay, TypeOK, SiteManagerApplication
<1>9. JobsAreReal'
  BY <1>0, <1>5 DEF JobsAreReal, JobIsReal, At
<1>10. LocksHold'
  BY <1>0, <1>5 DEF LocksHold, LockHolds, At, Busy
<1>11. QED
  BY <1>1, <1>6, <1>7, <1>8, <1>9, <1>10, InvParts

\* A new user may come with a request: it is in a row that was none, so nobody
\* has locked it or read it.
LEMMA RegisterStep ==
  ASSUME JobInv, NEW u \in Users, Register(u)
  PROVE  /\ JobInv'
         /\ UNCHANGED application
         /\ \A p \in PartnerRequests :
              partnerReq'[p] = partnerReq[p] \/ partnerReq'[p].status = "pending"
<1>0. /\ TypeOK /\ JobsAreReal /\ LocksHold
      /\ OneRequestOpen /\ OneApplicationOpen /\ ApprovedHaveManagers
      /\ partnerReq \in [PartnerRequests -> PartnerRequest \cup {NoRow}]
  BY InvParts DEF TypeOK
<1>1. /\ account' = [account EXCEPT ![u] = "active"]
      /\ UNCHANGED <<roleRow, application, site, manager, job>>
      /\ calm' \in BOOLEAN
  BY DEF Register, AtOnce, SameSites
<1>2. /\ partnerReq' \in [PartnerRequests -> PartnerRequest \cup {NoRow}]
      /\ \A p \in PartnerRequests : partnerReq[p] # NoRow => partnerReq'[p] = partnerReq[p]
      /\ \A p \in PartnerRequests :
           partnerReq'[p] = partnerReq[p] \/ partnerReq'[p].status = "pending"
      /\ OneRequestOpen'
  <2> DEFINE row == [status |-> "pending", user |-> u, site |-> None]
  <2>1. CASE UNCHANGED partnerReq
    BY <1>0, <2>1 DEF OneRequestOpen
  <2>2. CASE ~UNCHANGED partnerReq
    <3>1. PICK p \in PartnerRequests :
            partnerReq[p] = NoRow /\ partnerReq' = [partnerReq EXCEPT ![p] = row]
      BY <2>2 DEF Register
    <3>2. row \in PartnerRequest /\ row.status = "pending"
      BY DEF PartnerRequest
    <3>3. \A q \in PartnerRequests : partnerReq[q] # row
      BY <2>2 DEF Register, UniquePending
    <3> HIDE DEF row
    <3>4. /\ partnerReq'[p] = row
          /\ \A q \in PartnerRequests \ {p} : partnerReq'[q] = partnerReq[q]
          /\ partnerReq' \in [PartnerRequests -> PartnerRequest \cup {NoRow}]
      BY <1>0, <3>1, <3>2
    <3>5. OneRequestOpen'
      BY <1>0, <3>3, <3>4 DEF OneRequestOpen
    <3>6. QED
      BY <3>1, <3>2, <3>4, <3>5
  <2>3. QED
    BY <2>1, <2>2
<1>3. TypeOK'
  BY <1>0, <1>1, <1>2 DEF TypeOK
<1>4. OneApplicationOpen' /\ ApprovedHaveManagers'
  BY <1>0, <1>1 DEF OneApplicationOpen, ApprovedHaveManagers
<1>5. JobsAreReal'
  <2>1. ASSUME NEW h \in Handlers PROVE JobIsReal(h)'
    <3>1. JobIsReal(h) /\ job'[h] = job[h]
      BY <1>0, <1>1 DEF JobsAreReal
    <3>2. At(h, "ask") /\ job[h].seen # None => partnerReq'[job[h].seen] = partnerReq[job[h].seen]
      BY <1>2, <3>1 DEF JobIsReal
    <3>3. QED
      BY <1>1, <3>1, <3>2 DEF JobIsReal, At
  <2>2. QED
    BY <1>0, <1>1, <2>1 DEF JobsAreReal
<1>6. LocksHold'
  BY <1>0, <1>1, <1>2, NoRowIsNone DEF LocksHold, LockHolds, At, Busy
<1>7. QED
  BY <1>0, <1>1, <1>2, <1>3, <1>4, <1>5, <1>6, InvParts

-----------------------------------------------------------------------------
(* Steps that end a use case *)

\* It writes users and sites only.
LEMMA QuietStep ==
  ASSUME JobInv, NEW h \in Handlers, End(h), SameRequests,
         UsersTyped, SitesTyped, ManagersStay
  PROVE  JobInv'
<1>0. /\ TypeOK /\ JobsAreReal /\ LocksHold
      /\ OneRequestOpen /\ OneApplicationOpen /\ ApprovedHaveManagers
      /\ DOMAIN job = Handlers
  BY InvParts DEF JobsAreReal
<1>1. /\ DOMAIN job' = Handlers
      /\ job'[h].op = "none"
      /\ \A g \in Handlers \ {h} : job'[g] = job[g]
      /\ calm' = calm
  BY <1>0, EndJob
<1>2. UNCHANGED <<partnerReq, application>>
  BY DEF SameRequests
<1>3. TypeOK'
  BY <1>0, <1>1, <1>2 DEF TypeOK, UsersTyped, SitesTyped
<1>4. OneRequestOpen' /\ OneApplicationOpen'
  BY <1>0, <1>2 DEF OneRequestOpen, OneApplicationOpen
<1>5. ApprovedHaveManagers'
  BY <1>0, <1>2, NoRowIsNone
  DEF ApprovedHaveManagers, ManagersStay, TypeOK, SiteManagerApplication
<1>6. JobsAreReal'
  BY <1>0, <1>1, <1>2 DEF JobsAreReal, JobIsReal, At
<1>7. LocksHold'
  BY <1>0, <1>1, <1>2 DEF LocksHold, LockHolds, At, Busy, Locking
<1>8. QED
  BY <1>3, <1>4, <1>5, <1>6, <1>7, InvParts

\* It writes the row of a partner request that nobody else has locked.
LEMMA RequestWritten ==
  ASSUME JobInv, NEW h \in Handlers, End(h), UsersTyped, SameSites,
         UNCHANGED application,
         NEW p \in PartnerRequests, NEW row \in PartnerRequest,
         partnerReq' = [partnerReq EXCEPT ![p] = row],
         partnerReq[p] # NoRow => row.user = partnerReq[p].user,
         partnerReq[p].status = "pending" =>
           \A g \in Busy(Locking) : job[g].id = p => g = h,
         row.status = "pending" =>
           \A q \in PartnerRequests : partnerReq[q] # row
  PROVE  JobInv'
<1>0. /\ TypeOK /\ JobsAreReal /\ LocksHold
      /\ OneRequestOpen /\ OneApplicationOpen /\ ApprovedHaveManagers
      /\ DOMAIN job = Handlers
      /\ partnerReq \in [PartnerRequests -> PartnerRequest \cup {NoRow}]
  BY InvParts DEF JobsAreReal, TypeOK
<1>1. /\ DOMAIN job' = Handlers
      /\ job'[h].op = "none"
      /\ \A g \in Handlers \ {h} : job'[g] = job[g]
      /\ calm' = calm
  BY <1>0, EndJob
<1>2. UNCHANGED <<application, site, manager>>
  BY DEF SameSites
<1>3. /\ partnerReq'[p] = row
      /\ \A q \in PartnerRequests \ {p} : partnerReq'[q] = partnerReq[q]
      /\ partnerReq' \in [PartnerRequests -> PartnerRequest \cup {NoRow}]
      /\ row # NoRow
  BY <1>0, NoRowIsNone
<1>4. TypeOK'
  BY <1>0, <1>1, <1>2, <1>3 DEF TypeOK, UsersTyped
<1>5. OneRequestOpen'
  BY <1>0, <1>3 DEF OneRequestOpen
<1>6. OneApplicationOpen' /\ ApprovedHaveManagers'
  BY <1>0, <1>2 DEF OneApplicationOpen, ApprovedHaveManagers
<1>7. JobsAreReal'
  <2>1. ASSUME NEW g \in Handlers PROVE JobIsReal(g)'
    <3>1. CASE g = h
      BY <1>1, <3>1 DEF JobIsReal, At
    <3>2. CASE g # h
      <4>1. JobIsReal(g) /\ job'[g] = job[g]
        BY <1>0, <1>1, <3>2 DEF JobsAreReal
      <4>2. \A q \in PartnerRequests : partnerReq[q] # NoRow =>
              partnerReq'[q] # NoRow /\ partnerReq'[q].user = partnerReq[q].user
        BY <1>3
      <4>3. QED
        BY <1>2, <4>1, <4>2 DEF JobIsReal, At
    <3>3. QED
      BY <3>1, <3>2
  <2>2. QED
    BY <1>1, <2>1 DEF JobsAreReal
<1>8. LocksHold'
  <2>1. ASSUME NEW g \in Handlers, job'[g].op \in Locking
        PROVE  LockHolds(g)'
    <3>1. g # h /\ g \in Busy(Locking) /\ LockHolds(g) /\ job'[g] = job[g]
      BY <1>0, <1>1, <2>1 DEF LocksHold, Busy, Locking
    <3>2. ~At(g, "approve") => job[g].id # p
      BY <3>1 DEF LockHolds
    <3>3. IF At(g, "approve")'
          THEN job'[g].id \in Applications /\ application'[job'[g].id].status = "pending"
          ELSE job'[g].id \in PartnerRequests /\ partnerReq'[job'[g].id].status = "pending"
      BY <1>2, <1>3, <3>1, <3>2 DEF LockHolds, At
    <3>4. \A k \in Busy(Locking)' : job'[k].id = job'[g].id => k = g
      BY <1>1, <3>1 DEF LockHolds, Busy, Locking
    <3>5. QED
      BY <3>3, <3>4 DEF LockHolds
  <2>2. QED
    BY <2>1 DEF LocksHold, Busy
<1>9. QED
  BY <1>4, <1>5, <1>6, <1>7, <1>8, InvParts

\* It writes the row of an application that nobody else has locked.
LEMMA ApplicationWritten ==
  ASSUME JobInv, NEW h \in Handlers, End(h), UsersTyped, SitesTyped, ManagersStay,
         UNCHANGED partnerReq,
         NEW a \in Applications, NEW row \in SiteManagerApplication,
         application' = [application EXCEPT ![a] = row],
         application[a].status = "pending" =>
           \A g \in Busy(Locking) : job[g].id = a => g = h,
         row.status = "pending" =>
           \A b \in Applications : application[b] # row,
         row.status = "approved" => manager'[row.site][row.user] # "none"
  PROVE  JobInv'
<1>0. /\ TypeOK /\ JobsAreReal /\ LocksHold
      /\ OneRequestOpen /\ OneApplicationOpen /\ ApprovedHaveManagers
      /\ DOMAIN job = Handlers
      /\ application \in [Applications -> SiteManagerApplication \cup {NoRow}]
  BY InvParts DEF JobsAreReal, TypeOK
<1>1. /\ DOMAIN job' = Handlers
      /\ job'[h].op = "none"
      /\ \A g \in Handlers \ {h} : job'[g] = job[g]
      /\ calm' = calm
  BY <1>0, EndJob
<1>2. /\ application'[a] = row
      /\ \A b \in Applications \ {a} : application'[b] = application[b]
      /\ application' \in [Applications -> SiteManagerApplication \cup {NoRow}]
      /\ row # NoRow
  BY <1>0, NoRowIsNone
<1>3. TypeOK'
  BY <1>0, <1>1, <1>2 DEF TypeOK, UsersTyped, SitesTyped
<1>4. OneRequestOpen'
  BY <1>0 DEF OneRequestOpen
<1>5. OneApplicationOpen'
  BY <1>0, <1>2 DEF OneApplicationOpen
<1>6. ApprovedHaveManagers'
  <2>1. ASSUME NEW b \in Applications, application[b].status = "approved"
        PROVE  manager'[application[b].site][application[b].user] # "none"
    BY <1>0, <2>1, NoRowIsNone
    DEF ApprovedHaveManagers, ManagersStay, SiteManagerApplication
  <2>2. QED
    BY <1>2, <2>1 DEF ApprovedHaveManagers
<1>7. JobsAreReal'
  <2>1. ASSUME NEW g \in Handlers PROVE JobIsReal(g)'
    <3>1. CASE g = h
      BY <1>1, <3>1 DEF JobIsReal, At
    <3>2. CASE g # h
      <4>1. JobIsReal(g) /\ job'[g] = job[g]
        BY <1>0, <1>1, <3>2 DEF JobsAreReal
      <4>2. \A b \in Applications : application[b] # NoRow => application'[b] # NoRow
        BY <1>2
      <4>3. QED
        BY <4>1, <4>2 DEF JobIsReal, At
    <3>3. QED
      BY <3>1, <3>2
  <2>2. QED
    BY <1>1, <2>1 DEF JobsAreReal
<1>8. LocksHold'
  <2>1. ASSUME NEW g \in Handlers, job'[g].op \in Locking
        PROVE  LockHolds(g)'
    <3>1. g # h /\ g \in Busy(Locking) /\ LockHolds(g) /\ job'[g] = job[g]
      BY <1>0, <1>1, <2>1 DEF LocksHold, Busy, Locking
    <3>2. At(g, "approve") => job[g].id # a
      BY <3>1 DEF LockHolds
    <3>3. IF At(g, "approve")'
          THEN job'[g].id \in Applications /\ application'[job'[g].id].status = "pending"
          ELSE job'[g].id \in PartnerRequests /\ partnerReq'[job'[g].id].status = "pending"
      BY <1>2, <3>1, <3>2 DEF LockHolds, At
    <3>4. \A k \in Busy(Locking)' : job'[k].id = job'[g].id => k = g
      BY <1>1, <3>1 DEF LockHolds, Busy, Locking
    <3>5. QED
      BY <3>3, <3>4 DEF LockHolds
  <2>2. QED
    BY <2>1 DEF LocksHold, Busy
<1>9. QED
  BY <1>3, <1>4, <1>5, <1>6, <1>7, <1>8, InvParts

\* A row that gets another status is of the same user and site.
LEMMA RequestDecided ==
  ASSUME TypeOK, NEW p \in PartnerRequests, partnerReq[p] # NoRow,
         NEW s \in {"approved", "rejected"},
         partnerReq' = [partnerReq EXCEPT ![p].status = s]
  PROVE  \E row \in PartnerRequest :
           /\ partnerReq' = [partnerReq EXCEPT ![p] = row]
           /\ row.status = s /\ row.user = partnerReq[p].user
<1>1. partnerReq[p] \in PartnerRequest
  BY DEF TypeOK
<1>2. [partnerReq[p] EXCEPT !.status = s] \in PartnerRequest
  BY <1>1 DEF PartnerRequest
<1>3. /\ [partnerReq[p] EXCEPT !.status = s].status = s
      /\ [partnerReq[p] EXCEPT !.status = s].user = partnerReq[p].user
  BY <1>1 DEF PartnerRequest
<1>4. QED
  BY <1>2, <1>3 DEF TypeOK

LEMMA ApplicationDecided ==
  ASSUME TypeOK, NEW a \in Applications, application[a] # NoRow,
         NEW s \in {"approved", "rejected"},
         application' = [application EXCEPT ![a].status = s]
  PROVE  \E row \in SiteManagerApplication :
           /\ application' = [application EXCEPT ![a] = row]
           /\ row.status = s
           /\ row.user = application[a].user /\ row.site = application[a].site
<1>1. application[a] \in SiteManagerApplication
  BY DEF TypeOK
<1>2. [application[a] EXCEPT !.status = s] \in SiteManagerApplication
  BY <1>1 DEF SiteManagerApplication
<1>3. /\ [application[a] EXCEPT !.status = s].status = s
      /\ [application[a] EXCEPT !.status = s].user = application[a].user
      /\ [application[a] EXCEPT !.status = s].site = application[a].site
  BY <1>1 DEF SiteManagerApplication
<1>4. QED
  BY <1>2, <1>3 DEF TypeOK

LEMMA AskStep ==
  ASSUME JobInv, NEW h \in Handlers, CreatePartnerRequest(h) PROVE JobInv'
<1> DEFINE u == job[h].user
           row == [status |-> "pending", user |-> u, site |-> None]
<1>0. TypeOK /\ JobIsReal(h) /\ UniquePending(u)
  BY InvParts DEF JobsAreReal, CreatePartnerRequest
<1>1. PICK p \in PartnerRequests :
        /\ IF job[h].seen = None THEN partnerReq[p] = NoRow ELSE p = job[h].seen
        /\ partnerReq' = [partnerReq EXCEPT ![p] = row]
  BY DEF CreatePartnerRequest
<1>2. u \in Users
  BY <1>0 DEF JobIsReal, CreatePartnerRequest, At
<1>3. row \in PartnerRequest /\ row.status = "pending" /\ row.user = u
  BY <1>2 DEF PartnerRequest
<1>4. partnerReq[p] # NoRow => partnerReq[p].user = u
  BY <1>0, <1>1 DEF JobIsReal, CreatePartnerRequest
<1>5. partnerReq[p].status # "pending"
  BY <1>0, <1>4, NoRowIsNone DEF UniquePending
<1>6. \A q \in PartnerRequests : partnerReq[q] # row
  BY <1>0, <1>3 DEF UniquePending
<1>7. /\ End(h) /\ SameSites /\ UNCHANGED application
      /\ UsersTyped
  BY <1>0 DEF CreatePartnerRequest, SameUsers, UsersTyped, TypeOK
<1> HIDE DEF row, u
<1>8. QED
  BY <1>1, <1>3, <1>4, <1>5, <1>6, <1>7, RequestWritten

LEMMA DecideRequestStep ==
  ASSUME JobInv, NEW h \in Handlers, ApprovePartnerRequest(h) \/ RejectPartnerRequest(h)
  PROVE  JobInv' /\ partnerReq[job[h].id].status = "pending"
                 /\ \A q \in PartnerRequests \ {job[h].id} : partnerReq'[q] = partnerReq[q]
<1> DEFINE p == job[h].id
<1>0. TypeOK /\ LocksHold /\ h \in Busy(Locking) /\ ~At(h, "approve")
  BY InvParts DEF ApprovePartnerRequest, RejectPartnerRequest, At, Busy, Locking
<1>1. /\ p \in PartnerRequests /\ partnerReq[p].status = "pending"
      /\ \A g \in Busy(Locking) : job[g].id = p => g = h
  BY <1>0 DEF LocksHold, LockHolds
<1>2. partnerReq[p] # NoRow
  BY <1>1, NoRowIsNone
<1>3. PICK s \in {"approved", "rejected"} :
        partnerReq' = [partnerReq EXCEPT ![p].status = s]
  BY DEF ApprovePartnerRequest, RejectPartnerRequest
<1>4. PICK row \in PartnerRequest :
        /\ partnerReq' = [partnerReq EXCEPT ![p] = row]
        /\ row.status = s /\ row.user = partnerReq[p].user
  BY <1>0, <1>1, <1>2, <1>3, RequestDecided
<1>5. End(h) /\ SameSites /\ UNCHANGED <<account, application>>
  BY DEF ApprovePartnerRequest, RejectPartnerRequest, SameUsers
<1>6. roleRow' \in [RoleRows -> UserRole \cup {NoRole}]
  <2>1. partnerReq[p].user \in Users /\ "partner" \in Roles
    BY <1>0, <1>1, <1>2 DEF TypeOK, PartnerRequest, Roles
  <2>2. UNCHANGED roleRow \/ AddRole(partnerReq[p].user, "partner")
    BY DEF ApprovePartnerRequest, RejectPartnerRequest, SameUsers
  <2>3. QED
    BY <1>0, <2>1, <2>2, RolesTyped
<1>7. UsersTyped
  BY <1>0, <1>5, <1>6 DEF UsersTyped, TypeOK
<1>8. \A q \in PartnerRequests \ {p} : partnerReq'[q] = partnerReq[q]
  BY <1>0, <1>4 DEF TypeOK
<1> HIDE DEF p
<1>9. JobInv'
  BY <1>1, <1>4, <1>5, <1>7, RequestWritten
<1>10. QED
  BY <1>1, <1>8, <1>9 DEF p

LEMMA ApplyStep ==
  ASSUME JobInv, NEW h \in Handlers, NEW a \in Applications, Apply(h, a)
  PROVE  JobInv' /\ application[a] = NoRow
<1> DEFINE u == job[h].user
           s == job[h].site
           row == [status |-> "pending", user |-> u, site |-> s]
<1>0. TypeOK /\ JobIsReal(h)
  BY InvParts DEF JobsAreReal
<1>1. u \in Users /\ s \in Sites
  BY <1>0 DEF JobIsReal, Apply, At
<1>2. row \in SiteManagerApplication /\ row.status = "pending"
  BY <1>1 DEF SiteManagerApplication
<1>3. \A b \in Applications : application[b] # row
  BY DEF Apply, ApplicationsOf
<1>4. application[a] = NoRow /\ application[a].status # "pending"
  BY NoRowIsNone DEF Apply
<1>5. /\ End(h) /\ UsersTyped /\ SitesTyped /\ ManagersStay /\ UNCHANGED partnerReq
      /\ application' = [application EXCEPT ![a] = row]
  BY <1>0 DEF Apply, SameUsers, SameSites, UsersTyped, SitesTyped, ManagersStay, TypeOK
<1> HIDE DEF row
<1>6. QED
  BY <1>2, <1>3, <1>4, <1>5, ApplicationWritten

LEMMA ApproveStep ==
  ASSUME JobInv, NEW h \in Handlers, ApproveApplication(h)
  PROVE  JobInv' /\ application[job[h].id].status = "pending"
                 /\ \A b \in Applications \ {job[h].id} : application'[b] = application[b]
<1> DEFINE a == job[h].id
           u == application[a].user
           s == application[a].site
<1>0. TypeOK /\ LocksHold /\ h \in Busy(Locking) /\ At(h, "approve")
  BY InvParts DEF ApproveApplication, At, Busy, Locking
<1>1. /\ a \in Applications /\ application[a].status = "pending"
      /\ \A g \in Busy(Locking) : job[g].id = a => g = h
  BY <1>0 DEF LocksHold, LockHolds
<1>2. application[a] # NoRow
  BY <1>1, NoRowIsNone
<1>3. u \in Users /\ s \in Sites
  BY <1>0, <1>1, <1>2 DEF TypeOK, SiteManagerApplication
<1>4. PICK row \in SiteManagerApplication :
        /\ application' = [application EXCEPT ![a] = row]
        /\ row.status = "approved" /\ row.user = u /\ row.site = s
  BY <1>0, <1>1, <1>2, ApplicationDecided DEF ApproveApplication
<1>5. /\ End(h) /\ UNCHANGED <<account, partnerReq, site>>
      /\ manager' = [manager EXCEPT ![s][u] = "active"]
      /\ BecomePartner(u)
  BY DEF ApproveApplication
<1>6. /\ manager' \in [Sites -> [Users -> {"none", "active", "inactive"}]]
      /\ ManagersStay
  BY <1>0, <1>3, <1>5, ManagersTyped
<1>7. manager'[row.site][row.user] # "none"
  BY <1>0, <1>3, <1>4, <1>5 DEF TypeOK
<1>8. UsersTyped /\ SitesTyped
  <2>1. "partner" \in Roles
    BY DEF Roles
  <2>2. roleRow' \in [RoleRows -> UserRole \cup {NoRole}]
    BY <1>0, <1>3, <1>5, <2>1, RolesTyped
  <2>3. QED
    BY <1>0, <1>5, <1>6, <2>2 DEF UsersTyped, SitesTyped, TypeOK
<1>9. \A b \in Applications \ {a} : application'[b] = application[b]
  BY <1>0, <1>4 DEF TypeOK
<1> HIDE DEF a, u, s
<1>10. JobInv'
  BY <1>1, <1>4, <1>5, <1>6, <1>7, <1>8, ApplicationWritten
<1>11. QED
  BY <1>1, <1>9, <1>10 DEF a

LEMMA RejectStep ==
  ASSUME JobInv, NEW h \in Handlers, RejectApplication(h)
  PROVE  JobInv' /\ \A b \in Applications :
                      application'[b].status = "approved" => application'[b] = application[b]
<1> DEFINE a == job[h].id
<1>0. TypeOK /\ JobIsReal(h) /\ ~Locked(a)
  BY InvParts DEF RejectApplication, JobsAreReal
<1>1. a \in Applications /\ application[a] # NoRow
  BY <1>0 DEF JobIsReal, RejectApplication
<1>2. PICK row \in SiteManagerApplication :
        application' = [application EXCEPT ![a] = row] /\ row.status = "rejected"
  BY <1>0, <1>1, ApplicationDecided DEF RejectApplication
<1>3. \A g \in Busy(Locking) : job[g].id # a
  BY <1>0 DEF Locked, Locking
<1>4. /\ End(h) /\ UsersTyped /\ SitesTyped /\ ManagersStay /\ UNCHANGED partnerReq
  BY <1>0 DEF RejectApplication, SameUsers, SameSites, UsersTyped, SitesTyped,
     ManagersStay, TypeOK
<1>5. \A b \in Applications :
        application'[b].status = "approved" => application'[b] = application[b]
  BY <1>0, <1>1, <1>2 DEF TypeOK
<1> HIDE DEF a
<1>6. QED
  BY <1>1, <1>2, <1>3, <1>4, <1>5, ApplicationWritten

\* Users and sites only: deletion and update of a user, sites and their managers.
QuietEnd(h) ==
  DeleteUser(h) \/ UpdateUser(h) \/ CreateSite(h) \/ AddManager(h) \/ Fail(h)

LEMMA QuietEndStep ==
  ASSUME JobInv, NEW h \in Handlers, QuietEnd(h) PROVE JobInv' /\ SameRequests
<1> DEFINE u == job[h].user
<1>0. TypeOK /\ JobIsReal(h)
  BY InvParts DEF JobsAreReal
<1>1. End(h) /\ SameRequests
  BY DEF QuietEnd, DeleteUser, UpdateUser, CreateSite, AddManager, Fail
<1>2. CASE DeleteUser(h)
  <2>1. u \in Users
    BY <1>0, <1>2 DEF JobIsReal, DeleteUser, At
  <2>2. UsersTyped
    BY <1>0, <1>2, <2>1 DEF DeleteUser, UsersTyped, TypeOK
  <2>3. SitesTyped /\ ManagersStay
    BY <1>0, <1>2, <2>1, ManagersTyped DEF DeleteUser, SitesTyped, TypeOK
  <2>4. QED
    BY <1>1, <2>2, <2>3, QuietStep
<1>3. CASE UpdateUser(h)
  <2>1. /\ u \in Users /\ job[h].account \in {"active", "inactive"}
        /\ job[h].role \in Roles \cup {"keep"}
    BY <1>0, <1>3 DEF JobIsReal, UpdateUser, At
  <2>2. roleRow' \in [RoleRows -> UserRole \cup {NoRole}]
    <3>1. CASE UNCHANGED roleRow
      BY <1>0, <3>1 DEF TypeOK
    <3>2. CASE job[h].role \in Roles /\ OneRoleRow(u, job[h].role)
      BY <1>0, <2>1, <3>2, RolesTyped
    <3>3. QED
      BY <1>3, <2>1, <3>1, <3>2 DEF UpdateUser
  <2>3. UsersTyped
    BY <1>0, <1>3, <2>1, <2>2 DEF UpdateUser, UsersTyped, TypeOK
  <2>4. UNCHANGED manager \/ NoLongerManager(u)
    BY <1>3 DEF UpdateUser
  <2>5. SitesTyped /\ ManagersStay
    BY <1>0, <1>3, <2>1, <2>4, ManagersTyped DEF UpdateUser, SitesTyped, TypeOK
  <2>6. QED
    BY <1>1, <2>3, <2>5, QuietStep
<1>4. CASE CreateSite(h) \/ AddManager(h)
  <2>1. u \in Users /\ job[h].site \in Sites
    BY <1>0, <1>4 DEF JobIsReal, CreateSite, AddManager, At
  <2>2. UsersTyped
    BY <1>0, <1>4 DEF CreateSite, AddManager, SameUsers, UsersTyped, TypeOK
  <2>3. manager' = [manager EXCEPT ![job[h].site][u] = "active"]
    BY <1>4 DEF CreateSite, AddManager
  <2>4. SitesTyped /\ ManagersStay
    BY <1>0, <1>4, <2>1, <2>3, ManagersTyped DEF CreateSite, AddManager, SitesTyped, TypeOK
  <2>5. QED
    BY <1>1, <2>2, <2>4, QuietStep
<1>5. CASE Fail(h)
  BY <1>0, <1>1, <1>5, QuietStep
  DEF Fail, SameUsers, SameSites, UsersTyped, SitesTyped, ManagersStay, TypeOK
<1>6. QED
  BY <1>1, <1>2, <1>3, <1>4, <1>5 DEF QuietEnd

-----------------------------------------------------------------------------
(* The invariant *)

LEMMA FinishCases ==
  ASSUME NEW h \in Handlers, Finish(h)
  PROVE  \/ QuietEnd(h)
         \/ CreatePartnerRequest(h)
         \/ ApprovePartnerRequest(h) \/ RejectPartnerRequest(h)
         \/ \E a \in Applications : Apply(h, a)
         \/ ApproveApplication(h)
         \/ RejectApplication(h)
BY DEF Finish, QuietEnd

LEMMA JobInit == ASSUME Init PROVE JobInv
<1>1. /\ DOMAIN job = Handlers
      /\ \A h \in Handlers : job[h].op = "none"
      /\ calm = TRUE
  BY DEF Init, NoJobs, Resting
<1>2. TypeOK
  BY <1>1 DEF Init, TypeOK
<1>3. JobsAreReal /\ LocksHold
  BY <1>1 DEF JobsAreReal, JobIsReal, LocksHold, Locking, At, Busy
<1>4. OneRequestOpen /\ OneApplicationOpen /\ ApprovedHaveManagers
  BY NoRowIsNone DEF Init, OneRequestOpen, OneApplicationOpen, ApprovedHaveManagers
<1>5. QED
  BY <1>2, <1>3, <1>4, InvParts

LEMMA JobStutter == ASSUME JobInv, UNCHANGED vars PROVE JobInv'
<1>0. /\ TypeOK /\ JobsAreReal /\ LocksHold
      /\ OneRequestOpen /\ OneApplicationOpen /\ ApprovedHaveManagers
  BY InvParts
<1>1. UNCHANGED <<account, roleRow, partnerReq, application, site, manager, job, calm>>
  BY DEF vars
<1>2. TypeOK'
  BY <1>0, <1>1 DEF TypeOK
<1>3. JobsAreReal'
  BY <1>0, <1>1 DEF JobsAreReal, JobIsReal, At
<1>4. LocksHold'
  BY <1>0, <1>1 DEF LocksHold, LockHolds, At, Busy
<1>5. OneRequestOpen' /\ OneApplicationOpen' /\ ApprovedHaveManagers'
  BY <1>0, <1>1 DEF OneRequestOpen, OneApplicationOpen, ApprovedHaveManagers
<1>6. QED
  BY <1>2, <1>3, <1>4, <1>5, InvParts

LEMMA JobStep == ASSUME JobInv, [Next]_vars PROVE JobInv'
<1>1. ASSUME NEW h \in Handlers, Finish(h) PROVE JobInv'
  BY <1>1, FinishCases, QuietEndStep, AskStep, DecideRequestStep, ApplyStep,
     ApproveStep, RejectStep
<1>2. ASSUME NEW h \in Handlers, Step(h) PROVE JobInv'
  BY <1>1, <1>2, StepCases, CheckStep, StatementStep, RegisterStep DEF AuthController
<1>3. QED
  BY <1>2, JobStutter DEF Next, Step

LEMMA JobHolds == Spec => []JobInv
<1>1. Init => JobInv
  BY JobInit
<1>2. JobInv /\ [Next]_vars => JobInv'
  BY JobStep
<1>3. QED
  BY <1>1, <1>2, PTL DEF Spec

\* Type correctness: what use cases refer to exists.
THEOREM Typing == Spec => []TypeOK
<1>1. JobInv => TypeOK
  BY DEF JobInv
<1>2. QED
  BY <1>1, JobHolds, PTL

\* Whatever overlaps: one open request per user, one open application per user
\* and site, and a manager for each application that was approved
\* (create-partner-request, apply-site-manager, approve-application).
THEOREM OpenOnce == Spec => []OneOpenEach
<1>1. JobInv => OneOpenEach
  BY DEF JobInv
<1>2. QED
  BY <1>1, JobHolds, PTL

LEMMA DecisionStep ==
  ASSUME JobInv, [Next]_vars
  PROVE  /\ \A p \in PartnerRequests :
              partnerReq'[p].status \in {"approved", "rejected"} /\ partnerReq'[p] # partnerReq[p]
                => partnerReq[p].status = "pending"
         /\ \A a \in Applications :
              application'[a].status = "approved" /\ application'[a] # application[a]
                => application[a].status = "pending"
<1>0. TypeOK
  BY InvParts
<1>1. CASE UNCHANGED <<partnerReq, application>>
  BY <1>1
<1>2. CASE AuthController
  BY <1>2, RegisterStep DEF AuthController
<1>3. SUFFICES ASSUME NEW h \in Handlers, Finish(h), ~UNCHANGED <<partnerReq, application>>
               PROVE  /\ \A p \in PartnerRequests :
                           /\ partnerReq'[p].status \in {"approved", "rejected"}
                           /\ partnerReq'[p] # partnerReq[p]
                           => partnerReq[p].status = "pending"
                      /\ \A a \in Applications :
                           application'[a].status = "approved" /\ application'[a] # application[a]
                             => application[a].status = "pending"
  <2>1. ASSUME NEW h \in Handlers, Step(h), ~UNCHANGED <<partnerReq, application>>
        PROVE  Finish(h) \/ AuthController
    BY <2>1, StepCases, CheckStep, StatementStep DEF SameRequests
  <2>2. QED
    BY <1>1, <1>2, <2>1 DEF Next, Step, vars
<1>4. CASE QuietEnd(h)
  BY <1>1, <1>4, QuietEndStep DEF SameRequests
<1>5. CASE CreatePartnerRequest(h)
  BY <1>0, <1>5 DEF CreatePartnerRequest, TypeOK
<1>6. CASE ApprovePartnerRequest(h) \/ RejectPartnerRequest(h)
  <2>1. UNCHANGED application
    BY <1>6 DEF ApprovePartnerRequest, RejectPartnerRequest
  <2>2. QED
    BY <1>6, <2>1, DecideRequestStep
<1>7. ASSUME NEW a \in Applications, Apply(h, a)
      PROVE  /\ UNCHANGED partnerReq
             /\ \A b \in Applications :
                  application'[b].status = "approved" => application'[b] = application[b]
  BY <1>0, <1>7 DEF Apply, TypeOK
<1>8. CASE ApproveApplication(h)
  <2>1. UNCHANGED partnerReq
    BY <1>8 DEF ApproveApplication
  <2>2. QED
    BY <1>8, <2>1, ApproveStep
<1>9. CASE RejectApplication(h)
  <2>1. UNCHANGED partnerReq
    BY <1>9 DEF RejectApplication
  <2>2. QED
    BY <1>9, <2>1, RejectStep
<1>10. QED
  BY <1>3, <1>4, <1>5, <1>6, <1>7, <1>8, <1>9, FinishCases

\* Partner requests are decided and applications approved while they are
\* pending, whatever overlaps (approve- and reject-partner-request,
\* approve-application): the row lock keeps a request pending until the commit.
THEOREM DecisionsAreOfPending == Spec => DecidesPendingOnly
<1>1. JobInv /\ [Next]_vars =>
        [/\ \A p \in PartnerRequests :
               partnerReq'[p].status \in {"approved", "rejected"} /\ partnerReq'[p] # partnerReq[p]
                 => partnerReq[p].status = "pending"
         /\ \A a \in Applications :
               application'[a].status = "approved" /\ application'[a] # application[a]
                 => application[a].status = "pending"]_vars
  BY DecisionStep
<1>2. QED
  BY <1>1, JobHolds, PTL DEF Spec, DecidesPendingOnly

-----------------------------------------------------------------------------
(* Roles *)

Partner(u) == Has(u, "partner")

\* An inserted row takes no role away.
LEMMA AddRoleKeeps ==
  ASSUME TypeOK, NEW u \in Users, NEW r \in Roles, AddRole(u, r)
  PROVE  /\ \A v \in Users : Partner(v) => Partner(v)'
         /\ r = "partner" => Partner(u)'
<1>1. PICK i \in RoleRows : FreeRow(i) /\ roleRow' = Replaced({}, i, u, r)
  BY DEF AddRole
<1>2. /\ roleRow[i].role # "partner"
      /\ roleRow'[i] = [user |-> u, role |-> r]
      /\ \A k \in RoleRows \ {i} : roleRow'[k] = roleRow[k]
  BY <1>1 DEF FreeRow, NoRole, Replaced
<1>3. QED
  BY <1>2 DEF Partner, Has, RolesOf

\* The rows of one user are replaced by one: others keep theirs.
LEMMA OneRoleRowKeeps ==
  ASSUME TypeOK, NEW u \in Users, NEW r \in Roles, OneRoleRow(u, r)
  PROVE  /\ \A v \in Users \ {u} : Partner(v) => Partner(v)'
         /\ r = "partner" => Partner(u)'
<1>1. CASE Cardinality(RolesOf(u)) = 1
  <2>1. roleRow' = [i \in RoleRows |-> IF i \in RolesOf(u) THEN [user |-> u, role |-> r]
                                       ELSE roleRow[i]]
    BY <1>1 DEF OneRoleRow
  <2>2. RolesOf(u) # {}
    BY <1>1, FS_EmptySet
  <2>3. PICK i \in RoleRows : i \in RolesOf(u)
    BY <2>2 DEF RolesOf
  <2>4. roleRow'[i] = [user |-> u, role |-> r]
    BY <2>1, <2>3
  <2>5. \A k \in RoleRows : roleRow[k].user # u => roleRow'[k] = roleRow[k]
    BY <2>1 DEF RolesOf
  <2>6. QED
    BY <2>4, <2>5 DEF Partner, Has, RolesOf
<1>2. CASE Cardinality(RolesOf(u)) # 1
  <2>1. PICK i \in RoleRows : /\ i \in RolesOf(u) \/ FreeRow(i)
                              /\ roleRow' = Replaced(RolesOf(u), i, u, r)
    BY <1>2 DEF OneRoleRow
  <2>2. /\ roleRow'[i] = [user |-> u, role |-> r]
        /\ roleRow[i].user = u \/ roleRow[i].role # "partner"
        /\ \A k \in RoleRows \ {i} : roleRow[k].user # u => roleRow'[k] = roleRow[k]
    BY <2>1 DEF Replaced, RolesOf, FreeRow, NoRole
  <2>3. QED
    BY <2>2 DEF Partner, Has, RolesOf
<1>3. QED
  BY <1>1, <1>2

\* An approved applicant is a partner, whatever roles there were.
LEMMA BecomePartnerWorks ==
  ASSUME NoneIsNoUser, TypeOK, NEW u \in Users, BecomePartner(u)
  PROVE  \A v \in Users : v = u \/ Partner(v) => Partner(v)'
<1> DEFINE asUser == {i \in RolesOf(u) : roleRow[i].role = "user"}
<1>1. CASE (asUser # {} /\ ~Partner(u)) \/ RolesOf(u) = {}
  <2>1. PICK i \in RoleRows : /\ i \in asUser \/ FreeRow(i)
                              /\ roleRow' = Replaced(asUser, i, u, "partner")
    BY <1>1 DEF BecomePartner, Partner
  <2>2. /\ roleRow'[i] = [user |-> u, role |-> "partner"]
        /\ roleRow[i].role # "partner"
        /\ \A k \in RoleRows \ {i} : roleRow[k].role # "user" => roleRow'[k] = roleRow[k]
    BY <2>1 DEF Replaced, FreeRow, NoRole
  <2>3. QED
    BY <2>2 DEF Partner, Has, RolesOf
<1>2. CASE ~((asUser # {} /\ ~Partner(u)) \/ RolesOf(u) = {})
  <2>1. UNCHANGED roleRow
    BY <1>2 DEF BecomePartner, Partner
  <2>2. Partner(u)
    <3>1. SUFFICES ASSUME asUser = {}, NEW i \in RolesOf(u) PROVE roleRow[i].role = "partner"
      BY <1>2 DEF Partner, Has
    <3>2. i \in RoleRows /\ roleRow[i].user = u /\ roleRow[i].user # None
      BY <3>1 DEF RolesOf, NoneIsNoUser
    <3>3. roleRow[i] \in UserRole
      BY <3>2 DEF TypeOK, NoRole
    <3>4. roleRow[i].role \in {"user", "partner"}
      BY <3>3 DEF UserRole, Roles
    <3>5. QED
      BY <3>1, <3>4
  <2>3. QED
    BY <2>1, <2>2 DEF Partner, Has, RolesOf
<1>3. QED
  BY <1>1, <1>2

-----------------------------------------------------------------------------
(* While use cases do not overlap *)

ManagersArePartners == \A s \in Sites, u \in Users : IsManager(s, u) => Partner(u)

CalmInv == RolesStand /\ (calm => ManagersArePartners)

\* Managers stay partners if they keep their role or lose their sites.
LEMMA PartnersStay ==
  ASSUME ManagersArePartners,
         \A u \in Users :
           \/ \A s \in Sites : ~IsManager(s, u)'
           \/ /\ Partner(u) => Partner(u)'
              /\ \A s \in Sites : IsManager(s, u)' => IsManager(s, u)
           \/ Partner(u)'
  PROVE  ManagersArePartners'
BY DEF ManagersArePartners

LEMMA CalmCheck ==
  ASSUME JobInv, CalmInv, NEW h \in Handlers, Checks(h), calm'
  PROVE  CalmInv'
<1>0. DOMAIN job = Handlers
  BY InvParts DEF JobsAreReal
<1>1. UNCHANGED <<account, roleRow, partnerReq, application, site, manager>>
  BY CheckStep DEF SameUsers, SameRequests, SameSites
\* The job j is begun: only h is at work, and who is named has the role.
<1>2. ASSUME NEW j, Begin(h, j),
             j.op \in {"create site", "add manager"} => Partner(j.user)
      PROVE  CalmInv'
  <2>1. /\ job'[h] = j
        /\ \A g \in Handlers \ {h} : job'[g] = job[g]
        /\ calm /\ \A g \in Handlers : Idle(g)
    BY <1>0, <1>2, BeginJob
  <2>2. \A g \in Handlers \ {h} : Idle(g)' /\ job'[g].op = "none"
    BY <2>1 DEF Idle, Resting
  <2>3. \A u : Partner(u)' <=> Partner(u)
    BY <1>1 DEF Partner, Has, RolesOf
  <2>4. RolesStand'
    BY <1>2, <2>1, <2>2, <2>3 DEF RolesStand, At, Partner
  <2>5. ManagersArePartners'
    BY <1>1, <2>1, <2>3 DEF CalmInv, ManagersArePartners, IsManager
  <2>6. QED
    BY <2>4, <2>5 DEF CalmInv
<1>3. ASSUME NEW u \in Users, NEW role, NEW b, NEW status,
             Begin(h, [op |-> "update user", user |-> u, role |-> role,
                       deactivated |-> b, account |-> status])
      PROVE  CalmInv'
  BY <1>2, <1>3
<1>4. ASSUME NEW u \in Users, NEW p, Begin(h, [op |-> "ask", user |-> u, seen |-> p])
      PROVE  CalmInv'
  BY <1>2, <1>4
<1>5. ASSUME NEW op \in {"approve partner", "reject partner", "approve", "reject"}, NEW i,
             Begin(h, [op |-> op, id |-> i])
      PROVE  CalmInv'
  BY <1>2, <1>5
<1>6. ASSUME NEW u \in Users, Begin(h, [op |-> "delete user", user |-> u])
      PROVE  CalmInv'
  BY <1>2, <1>6
<1>7. ASSUME NEW u \in Users, NEW s \in Sites, NEW op \in {"apply", "create site", "add manager"},
             Begin(h, [op |-> op, user |-> u, site |-> s]), op = "apply" \/ Partner(u)
      PROVE  CalmInv'
  BY <1>2, <1>7
<1>8. QED
  BY <1>3, <1>4, <1>5, <1>6, <1>7
  DEF Checks, CheckDeleteUser, CheckUpdateUser, CheckPartnerRequest,
      LockPartnerRequest, CheckApply, CheckPartner, CheckPartnerUid, CheckApprove,
      CheckReject, Partner

LEMMA CalmStatement ==
  ASSUME JobInv, CalmInv, Statements \/ AuthController, calm' PROVE CalmInv'
<1>0. /\ TypeOK /\ AtOnce
      /\ manager \in [Sites -> [Users -> {"none", "active", "inactive"}]]
  BY InvParts DEF Statements, AuthController, Register, CreateUser, RemovePartnerUid, TypeOK
<1>1. UNCHANGED job
  BY <1>0 DEF AtOnce
<1>2. calm /\ \A g \in Handlers : Idle(g)
  BY <1>0, Zenon DEF AtOnce
<1>3. RolesStand'
  <2>1. \A g \in Handlers : Idle(g)' /\ job'[g].op = "none"
    BY <1>1, <1>2 DEF Idle, Resting
  <2>2. QED
    BY <2>1 DEF RolesStand, At
<1>4. ManagersArePartners
  BY <1>2 DEF CalmInv
<1>5. ASSUME NEW u \in Users, CreateUser(u) PROVE ManagersArePartners'
  <2>1. \A v \in Users : Partner(v) => Partner(v)'
    BY <1>0, <1>5, AddRoleKeeps DEF CreateUser
  <2>2. UNCHANGED manager
    BY <1>5 DEF CreateUser, SameSites
  <2>3. QED
    BY <1>4, <2>1, <2>2 DEF ManagersArePartners, IsManager
<1>6. ASSUME NEW u \in Users, NEW s \in Sites, RemovePartnerUid(s, u)
      PROVE  ManagersArePartners'
  <2>1. \A t \in Sites, v \in Users : IsManager(t, v)' => IsManager(t, v)
    BY <1>0, <1>6 DEF RemovePartnerUid, IsManager
  <2>2. UNCHANGED roleRow
    BY <1>6 DEF RemovePartnerUid, SameUsers
  <2>3. QED
    BY <1>4, <2>1, <2>2 DEF ManagersArePartners, Partner, Has, RolesOf
<1>7. ASSUME NEW u \in Users, Register(u) PROVE ManagersArePartners'
  BY <1>4, <1>7
  DEF Register, SameSites, ManagersArePartners, IsManager, Partner, Has, RolesOf
<1>8. QED
  BY <1>3, <1>5, <1>6, <1>7 DEF Statements, AuthController, CalmInv

LEMMA CalmFinish ==
  ASSUME NoneIsNoUser, JobInv, CalmInv, NEW h \in Handlers, Finish(h), calm'
  PROVE  CalmInv'
<1>0. /\ TypeOK /\ JobIsReal(h) /\ DOMAIN job = Handlers
      /\ manager \in [Sites -> [Users -> {"none", "active", "inactive"}]]
  BY InvParts DEF TypeOK, JobsAreReal
<1>1. End(h) /\ ~Idle(h)
  <2>1. End(h)
    BY DEF Finish, DeleteUser, UpdateUser, CreatePartnerRequest, ApprovePartnerRequest,
       RejectPartnerRequest, Apply, ApproveApplication, RejectApplication, CreateSite,
       AddManager, Fail
  <2>2. ~Idle(h) \/ job[h].op # "none"
    BY DEF Finish, DeleteUser, UpdateUser, CreatePartnerRequest, ApprovePartnerRequest,
       RejectPartnerRequest, Apply, ApproveApplication, RejectApplication, CreateSite,
       AddManager, Fail, At
  <2>3. QED
    BY <2>1, <2>2 DEF Idle, Resting
<1>2. /\ calm /\ job'[h] = Resting
      /\ \A g \in Handlers \ {h} : job'[g] = job[g]
  BY <1>0, <1>1, EndJob
<1>3. RolesStand /\ ManagersArePartners
  BY <1>2 DEF CalmInv
<1>4. RolesStand'
  <2>1. \A g \in Handlers \ {h} : Idle(g)
    BY <1>1, <1>2, <1>3 DEF RolesStand
  <2>2. \A g \in Handlers : Idle(g)' /\ job'[g].op = "none"
    BY <1>2, <2>1 DEF Idle, Resting
  <2>3. QED
    BY <2>2 DEF RolesStand, At
<1>5. SUFFICES ManagersArePartners'
  BY <1>4 DEF CalmInv
\* Steps that leave roles and managers alone, or let managers go.
<1>6. ASSUME UNCHANGED roleRow,
             \A s \in Sites, u \in Users : IsManager(s, u)' => IsManager(s, u)
      PROVE  ManagersArePartners'
  BY <1>3, <1>6 DEF ManagersArePartners, Partner, Has, RolesOf
<1>7. ASSUME SameSites, \A u \in Users : Partner(u) => Partner(u)'
      PROVE  ManagersArePartners'
  BY <1>3, <1>7 DEF ManagersArePartners, IsManager, SameSites
<1>8. ASSUME NEW u \in Users, NoLongerManager(u)
      PROVE  /\ \A s \in Sites : ~IsManager(s, u)'
             /\ \A s \in Sites, v \in Users : IsManager(s, v)' => IsManager(s, v)
  BY <1>0, <1>8 DEF NoLongerManager, IsManager
<1>9. CASE DeleteUser(h)
  <2>1. job[h].user \in Users
    BY <1>0, <1>9 DEF JobIsReal, DeleteUser, At
  <2>2. QED
    BY <1>6, <1>8, <1>9, <2>1 DEF DeleteUser
<1>10. CASE UpdateUser(h)
  <2>1. job[h].user \in Users /\ job[h].role \in Roles \cup {"keep"}
    BY <1>0, <1>10 DEF JobIsReal, UpdateUser, At
  <2>2. PICK u \in Users, r \in Roles \cup {"keep"} :
          /\ r = "keep" => UNCHANGED roleRow
          /\ r # "keep" => OneRoleRow(u, r)
          /\ r = "user" => NoLongerManager(u)
          /\ UNCHANGED manager \/ NoLongerManager(u)
    BY <1>10, <2>1 DEF UpdateUser
  <2>3. \A s \in Sites, v \in Users : IsManager(s, v)' => IsManager(s, v)
    BY <1>8, <2>2 DEF IsManager
  <2>4. CASE r = "keep"
    BY <1>6, <2>2, <2>3, <2>4
  <2>5. CASE r # "keep"
    <3>1. /\ \A v \in Users \ {u} : Partner(v) => Partner(v)'
          /\ r = "partner" => Partner(u)'
      BY <1>0, <2>2, <2>5, OneRoleRowKeeps
    <3>2. r = "user" => \A s \in Sites : ~IsManager(s, u)'
      BY <1>8, <2>2
    <3>3. r \in {"user", "partner"}
      BY <2>2, <2>5 DEF Roles
    <3>4. QED
      BY <1>3, <2>3, <3>1, <3>2, <3>3, PartnersStay
  <2>6. QED
    BY <2>4, <2>5
<1>11. CASE CreatePartnerRequest(h) \/ RejectPartnerRequest(h)
            \/ (\E a \in Applications : Apply(h, a)) \/ RejectApplication(h) \/ Fail(h)
  BY <1>6, <1>11 DEF CreatePartnerRequest, RejectPartnerRequest, Apply,
     RejectApplication, Fail, SameUsers, SameSites, IsManager
<1>12. CASE ApprovePartnerRequest(h)
  <2> DEFINE p == job[h].id
  <2>1. h \in Busy(Locking) /\ ~At(h, "approve")
    BY <1>12 DEF ApprovePartnerRequest, At, Busy, Locking
  <2>2. p \in PartnerRequests /\ partnerReq[p] # NoRow
    BY <2>1, InvParts, NoRowIsNone DEF LocksHold, LockHolds
  <2>3. partnerReq[p].user \in Users /\ "partner" \in Roles
    BY <1>0, <2>2 DEF TypeOK, PartnerRequest, Roles
  <2>4. UNCHANGED roleRow \/ AddRole(partnerReq[p].user, "partner")
    BY <1>12 DEF ApprovePartnerRequest
  <2>5. \A u \in Users : Partner(u) => Partner(u)'
    <3>1. CASE UNCHANGED roleRow
      BY <3>1 DEF Partner, Has, RolesOf
    <3>2. CASE AddRole(partnerReq[p].user, "partner")
      BY <1>0, <2>3, <3>2, AddRoleKeeps
    <3>3. QED
      BY <2>4, <3>1, <3>2
  <2>6. QED
    BY <1>7, <1>12, <2>5 DEF ApprovePartnerRequest
<1>13. CASE ApproveApplication(h)
  <2> DEFINE a == job[h].id
             u == application[a].user
             s == application[a].site
  <2>1. h \in Busy(Locking) /\ At(h, "approve")
    BY <1>13 DEF ApproveApplication, At, Busy, Locking
  <2>2. a \in Applications /\ application[a] # NoRow
    BY <2>1, InvParts, NoRowIsNone DEF LocksHold, LockHolds
  <2>3. u \in Users /\ s \in Sites
    BY <1>0, <2>2 DEF TypeOK, SiteManagerApplication
  <2>4. BecomePartner(u) /\ manager' = [manager EXCEPT ![s][u] = "active"]
    BY <1>13 DEF ApproveApplication
  <2>5. \A v \in Users : v = u \/ Partner(v) => Partner(v)'
    BY <1>0, <2>3, <2>4, BecomePartnerWorks
  <2>6. \A t \in Sites, v \in Users : v # u => (IsManager(t, v)' => IsManager(t, v))
    BY <1>0, <2>3, <2>4 DEF IsManager
  <2>7. QED
    BY <1>3, <2>5, <2>6, PartnersStay
<1>14. CASE CreateSite(h) \/ AddManager(h)
  <2> DEFINE u == job[h].user
             s == job[h].site
  <2>1. u \in Users /\ s \in Sites
    BY <1>0, <1>14 DEF JobIsReal, CreateSite, AddManager, At
  <2>2. Partner(u)
    BY <1>2, <1>3, <1>14 DEF RolesStand, CreateSite, AddManager, Partner
  <2>3. /\ UNCHANGED roleRow
        /\ manager' = [manager EXCEPT ![s][u] = "active"]
    BY <1>14 DEF CreateSite, AddManager, SameUsers
  <2>4. \A v \in Users : Partner(v)' <=> Partner(v)
    BY <2>3 DEF Partner, Has, RolesOf
  <2>5. \A t \in Sites, v \in Users : v # u => (IsManager(t, v)' => IsManager(t, v))
    BY <1>0, <2>1, <2>3 DEF IsManager
  <2>6. QED
    BY <1>3, <2>2, <2>4, <2>5, PartnersStay
<1>15. QED
  BY <1>9, <1>10, <1>11, <1>12, <1>13, <1>14 DEF Finish

LEMMA CalmStep ==
  ASSUME NoneIsNoUser, JobInv, CalmInv, [Next]_vars PROVE CalmInv'
<1>1. CASE UNCHANGED vars
  <2>1. UNCHANGED <<roleRow, manager, job, calm>>
    BY <1>1 DEF vars
  <2>2. RolesStand'
    BY <2>1 DEF CalmInv, RolesStand, Idle, At, Has, RolesOf
  <2>3. calm' => ManagersArePartners'
    BY <2>1 DEF CalmInv, ManagersArePartners, IsManager, Partner, Has, RolesOf
  <2>4. QED
    BY <2>2, <2>3 DEF CalmInv
<1>2. CASE ~calm'
  BY <1>2 DEF CalmInv, RolesStand
<1>3. ASSUME NEW h \in Handlers, Step(h), calm' PROVE CalmInv'
  BY <1>3, StepCases, CalmCheck, CalmStatement, CalmFinish
<1>4. QED
  BY <1>1, <1>2, <1>3 DEF Next, Step

\* While use cases do not overlap, the managers of sites are partners: each way
\* to become a manager asks for the role or gives it, and each way to lose the
\* role takes the sites away (create-site, update-site, approve-application,
\* update-user).
THEOREM ManagersStayPartners ==
  ASSUME NoneIsNoUser PROVE Spec => []CalmManagersArePartners
<1>1. Init => CalmInv
  <2>1. SUFFICES ASSUME Init PROVE CalmInv
    OBVIOUS
  <2>2. \A g \in Handlers : Idle(g) /\ job[g].op = "none"
    BY <2>1 DEF Init, NoJobs, Idle, Resting
  <2>3. ManagersArePartners
    BY <2>1 DEF Init, ManagersArePartners, IsManager
  <2>4. QED
    BY <2>2, <2>3 DEF CalmInv, RolesStand, At
<1>2. NoneIsNoUser /\ JobInv /\ CalmInv /\ [Next]_vars => CalmInv'
  BY CalmStep
<1>3. Spec => []CalmInv
  BY <1>1, <1>2, JobHolds, PTL DEF Spec
<1>4. CalmInv => CalmManagersArePartners
  BY DEF CalmInv, CalmManagersArePartners, ManagersArePartners, Partner
<1>5. QED
  BY <1>3, <1>4, PTL
=============================================================================
