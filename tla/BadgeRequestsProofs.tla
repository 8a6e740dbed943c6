------------------------- MODULE BadgeRequestsProofs -------------------------
(* Theorems about BadgeRequests, for every value of its constants.          *)
EXTENDS BadgeRequests, TLAPS

\* The steps of a handler, those of the routes and those of Finish.
Step(h) ==
  \/ UserBadgeRequestController(h)
  \/ SiteBadgeRequestController(h)
  \/ AdminUserBadgeRequestController(h)
  \/ AdminSiteBadgeRequests(h)
  \/ AdminSiteBadges(h)
  \/ AdminUserBadgeController(h)
  \/ AdminBadgeController(h)
  \/ Finish(h)

Rows == <<badge, request, award>>

-----------------------------------------------------------------------------
(* Jobs *)

LEMMA BeginJob ==
  ASSUME DOMAIN job = Handlers, NEW h \in Handlers, NEW j, Begin(h, j)
  PROVE  /\ DOMAIN job' = Handlers
         /\ job[h].op = "none" /\ Idle(h)
         /\ job'[h] = j
         /\ \A g \in Handlers \ {h} : job'[g] = job[g]
         /\ calm' => calm /\ \A g \in Handlers : Idle(g)
<1>1. job[h] = Resting /\ job[h].op = "none" /\ Idle(h)
  BY DEF Begin, Idle, Resting
<1>2. calm' => calm /\ \A g \in Handlers \ {h} : Idle(g)
  BY Zenon DEF Begin
<1>3. job' = [job EXCEPT ![h] = j]
  BY DEF Begin
<1>4. QED
  BY <1>1, <1>2, <1>3

LEMMA EndJob ==
  ASSUME DOMAIN job = Handlers, NEW h \in Handlers, End(h)
  PROVE  /\ DOMAIN job' = Handlers
         /\ job'[h] = Resting /\ job'[h].op = "none"
         /\ \A g \in Handlers \ {h} : job'[g] = job[g]
         /\ calm' = calm
BY DEF End, Resting

LEMMA RowsOfRequests ==
  ASSUME TypeOK, NEW r \in Requests
  PROVE  /\ request[r] = NoRequest => request[r].status = "none"
         /\ request[r] # NoRequest => request[r] \in BadgeRequest
BY DEF TypeOK, NoRequest

-----------------------------------------------------------------------------
(* Steps that change no row *)

\* A check that begins a use case.
Checks(h) ==
  \/ \E u \in Users, b \in Badges : CheckUserRequest(h, u, b)
  \/ \E u \in Users, s \in Sites, b \in Badges : CheckSiteRequest(h, u, s, b)
  \/ \E u \in Users, r \in Requests :
       CheckCancelUser(h, u, r) \/ CheckCancelSite(h, u, r)
  \/ \E r \in Requests : ApproveUserRequest(h, r) \/ ApproveSiteRequest(h, r)
                         \/ RejectUserRequest(h, r) \/ RejectSiteRequest(h, r)
  \/ \E s \in Sites, b \in Badges : CheckAssignToSite(h, s, b)
  \/ \E u \in Users, b \in Badges : CheckAssignToUser(h, u, b)
  \/ \E b \in Badges : CheckDeleteBadge(h, b)

\* A statement that is a use case of its own.
Statements ==
  \/ \E o \in Owners, b \in Badges : RemoveRows(o, b)
  \/ \E b \in Badges : UpdateBadge(b) \/ RestoreBadge(b)

LEMMA StepCases ==
  ASSUME NEW h \in Handlers, Step(h)
  PROVE  Checks(h) \/ Statements \/ Finish(h)
BY DEF Step, Checks, Statements, UserBadgeRequestController,
   SiteBadgeRequestController, AdminUserBadgeRequestController,
   AdminSiteBadgeRequests, AdminSiteBadges, AdminUserBadgeController,
   AdminBadgeController, RemoveFromUser, RemoveFromSite, Owners

JobInv == TypeOK /\ JobsAreReal /\ LocksHold

\* A handler that begins a use case finds what the use case works with.
LEMMA CheckStep ==
  ASSUME JobInv, NEW h \in Handlers, Checks(h) PROVE JobInv' /\ UNCHANGED Rows
<1>0. /\ TypeOK /\ JobsAreReal /\ LocksHold
      /\ DOMAIN job = Handlers
  BY DEF JobInv, JobsAreReal
\* The job j is begun, with no decision or with the lock on a pending request.
<1>1. ASSUME NEW j, Begin(h, j), UNCHANGED Rows,
             j.op = "create" => /\ j.owner \in Owners /\ j.badge \in Badges
                                /\ j.by \in Users,
             j.op = "cancel" => j.id \in Requests /\ request[j.id] # NoRequest,
             j.op = "assign" => j.owner \in Owners /\ j.badge \in Badges,
             j.op \in {"approve", "reject"} =>
               /\ j.id \in Requests /\ request[j.id].status = "pending"
               /\ ~Locked(j.id)
      PROVE  JobInv' /\ UNCHANGED Rows
  <2>1. /\ DOMAIN job' = Handlers
        /\ job'[h] = j
        /\ \A g \in Handlers \ {h} : job'[g] = job[g]
        /\ UNCHANGED <<badge, request, award>>
    BY <1>0, <1>1, BeginJob DEF Rows
  <2>2. calm' \in BOOLEAN
    BY <1>1 DEF Begin
  <2>3. TypeOK'
    BY <1>0, <2>1, <2>2 DEF TypeOK
  <2>4. JobsAreReal'
    BY <1>0, <1>1, <2>1 DEF JobsAreReal, At
  <2>5. LocksHold'
    BY <1>0, <1>1, <2>1 DEF LocksHold, Locked, Busy
  <2>6. QED
    BY <1>1, <2>3, <2>4, <2>5 DEF JobInv
<1>2. ASSUME NEW u \in Users, NEW o \in Owners, NEW b \in Badges,
             Begin(h, [op |-> "create", owner |-> o, badge |-> b, by |-> u]),
             UNCHANGED Rows
      PROVE  JobInv' /\ UNCHANGED Rows
  BY <1>1, <1>2
<1>3. ASSUME NEW r \in Requests, request[r].status = "pending",
             Begin(h, [op |-> "cancel", id |-> r]), UNCHANGED Rows
      PROVE  JobInv' /\ UNCHANGED Rows
  <2>1. request[r] # NoRequest
    BY <1>3 DEF NoRequest
  <2>2. QED
    BY <1>1, <1>3, <2>1
<1>4. ASSUME NEW r \in Requests, NEW op \in {"approve", "reject"},
             LockPending(h, op, r), UNCHANGED Rows
      PROVE  JobInv' /\ UNCHANGED Rows
  BY <1>1, <1>4 DEF LockPending
<1>5. ASSUME NEW o \in Owners, NEW b \in Badges,
             Begin(h, [op |-> "assign", owner |-> o, badge |-> b]),
             UNCHANGED Rows
      PROVE  JobInv' /\ UNCHANGED Rows
  BY <1>1, <1>5
<1>6. ASSUME NEW b \in Badges, Begin(h, [op |-> "delete", badge |-> b]),
             UNCHANGED Rows
      PROVE  JobInv' /\ UNCHANGED Rows
  BY <1>1, <1>6
<1>7. QED
  BY <1>2, <1>3, <1>4, <1>5, <1>6
  DEF Checks, Rows, CheckUserRequest, CheckSiteRequest, CheckCancelUser,
      CheckCancelSite, MayCancel, ApproveUserRequest, ApproveSiteRequest,
      LockForApproval, RejectUserRequest, RejectSiteRequest,
      CheckAssignToSite, CheckAssignToUser, CheckDeleteBadge, Owners

\* What a statement writes is a badge or an award.
LEMMA StatementStep ==
  ASSUME MaxAwardsIsNumber, JobInv, Statements
  PROVE  JobInv' /\ UNCHANGED <<request, job>>
<1>1. TypeOK /\ UNCHANGED <<request, job>>
  BY DEF JobInv, Statements, RemoveRows, UpdateBadge, RestoreBadge, AtOnce
<1>2. calm' \in BOOLEAN
  BY DEF Statements, RemoveRows, UpdateBadge, RestoreBadge, AtOnce
<1>3. ASSUME NEW o \in Owners, NEW b \in Badges, RemoveRows(o, b)
      PROVE  TypeOK'
  BY <1>1, <1>2, <1>3 DEF RemoveRows, TypeOK, MaxAwardsIsNumber
<1>4. ASSUME NEW b \in Badges, UpdateBadge(b) \/ RestoreBadge(b)
      PROVE  TypeOK'
  BY <1>1, <1>2, <1>4 DEF UpdateBadge, RestoreBadge, TypeOK
<1>5. TypeOK'
  BY <1>3, <1>4 DEF Statements
<1>6. JobsAreReal' /\ LocksHold'
  BY <1>1 DEF JobInv, JobsAreReal, LocksHold, At, Busy
<1>7. QED
  BY <1>1, <1>5, <1>6 DEF JobInv

-----------------------------------------------------------------------------
(* Steps that end a use case *)

\* The invariant when a handler ends its use case and writes at most one row,
\* which is no other decision's.
LEMMA WriteStep ==
  ASSUME JobInv, NEW h \in Handlers, End(h),
         badge' \in [Badges -> {"active", "inactive", "deleted"}],
         award' \in [Owners -> [Badges -> 0..MaxAwards]],
         NEW r \in Requests, NEW row \in BadgeRequest \cup {NoRequest},
         request' = [request EXCEPT ![r] = row],
         row = NoRequest => request[r] = NoRequest,
         request'[r] = request[r]
           \/ \A g \in Busy({"approve", "reject"}) \ {h} : job[g].id # r
  PROVE  JobInv'
<1>0. /\ TypeOK /\ JobsAreReal /\ LocksHold
      /\ DOMAIN job = Handlers
  BY DEF JobInv, JobsAreReal
<1>1. /\ DOMAIN job' = Handlers
      /\ job'[h].op = "none"
      /\ \A g \in Handlers \ {h} : job'[g] = job[g]
      /\ calm' = calm
  BY <1>0, EndJob
<1>2. TypeOK'
  BY <1>0, <1>1 DEF TypeOK
<1>3. /\ request'[r] = row
      /\ \A q \in Requests \ {r} : request'[q] = request[q]
  BY <1>0 DEF TypeOK
<1>4. JobsAreReal'
  BY <1>0, <1>1, <1>3 DEF JobsAreReal, At
<1>5. LocksHold'
  BY <1>0, <1>1, <1>3 DEF LocksHold, Busy
<1>6. QED
  BY <1>2, <1>4, <1>5 DEF JobInv

\* A use case that ends and writes no request.
LEMMA QuietStep ==
  ASSUME JobInv, NEW h \in Handlers, End(h), UNCHANGED request,
         badge' \in [Badges -> {"active", "inactive", "deleted"}],
         award' \in [Owners -> [Badges -> 0..MaxAwards]]
  PROVE  JobInv'
<1>0. /\ TypeOK /\ JobsAreReal /\ LocksHold
      /\ DOMAIN job = Handlers
  BY DEF JobInv, JobsAreReal
<1>1. /\ DOMAIN job' = Handlers
      /\ job'[h].op = "none"
      /\ \A g \in Handlers \ {h} : job'[g] = job[g]
      /\ calm' = calm
  BY <1>0, EndJob
<1>2. TypeOK'
  BY <1>0, <1>1 DEF TypeOK
<1>3. JobsAreReal'
  BY <1>0, <1>1 DEF JobsAreReal, At
<1>4. LocksHold'
  BY <1>0, <1>1 DEF LocksHold, Busy
<1>5. QED
  BY <1>2, <1>3, <1>4 DEF JobInv

LEMMA AddAwardType ==
  ASSUME MaxAwardsIsNumber, TypeOK, NEW o \in Owners, NEW b \in Badges,
         AddAward(o, b)
  PROVE  award' \in [Owners -> [Badges -> 0..MaxAwards]]
<1>1. award[o] \in [Badges -> 0..MaxAwards] /\ award[o][b] + 1 \in 0..MaxAwards
  BY DEF TypeOK, AddAward, MaxAwardsIsNumber
<1>2. [award[o] EXCEPT ![b] = @ + 1] \in [Badges -> 0..MaxAwards]
  BY <1>1
<1>3. award' = [award EXCEPT ![o] = [award[o] EXCEPT ![b] = @ + 1]]
  BY DEF AddAward, TypeOK
<1>4. QED
  BY <1>2, <1>3 DEF TypeOK

\* A row that gets another status is a row still.
LEMMA StatusWritten ==
  ASSUME TypeOK, NEW r \in Requests, request[r] # NoRequest,
         NEW s \in Status, request' = [request EXCEPT ![r].status = s]
  PROVE  \E row \in BadgeRequest :
           /\ request' = [request EXCEPT ![r] = row]
           /\ row.status = s
<1>1. [request[r] EXCEPT !.status = s] \in BadgeRequest
  BY RowsOfRequests DEF BadgeRequest
<1>2. [request[r] EXCEPT !.status = s].status = s
  BY RowsOfRequests DEF BadgeRequest
<1>3. QED
  BY <1>1, <1>2 DEF TypeOK

LEMMA NoRequestIsNone ==
  /\ NoRequest.status = "none"
  /\ NoRequest \notin BadgeRequest
<1>1. NoRequest.status = "none"
  BY DEF NoRequest
<1>2. \A row \in BadgeRequest : row.status # "none"
  BY DEF BadgeRequest, Status
<1>3. QED
  BY <1>1, <1>2

\* Every way a use case ends keeps the invariant.
LEMMA FinishStep ==
  ASSUME MaxAwardsIsNumber, JobInv, NEW h \in Handlers, Finish(h)
  PROVE  JobInv'
<1>0. /\ TypeOK /\ JobsAreReal /\ LocksHold
      /\ badge \in [Badges -> {"active", "inactive", "deleted"}]
      /\ award \in [Owners -> [Badges -> 0..MaxAwards]]
  BY DEF JobInv, TypeOK
<1>1. ASSUME NEW r \in Requests, InsertRequest(h, r) PROVE JobInv'
  <2> DEFINE row == [status |-> "pending", owner |-> job[h].owner,
                     badge |-> job[h].badge, by |-> job[h].by]
  <2>1. /\ request[r] = NoRequest /\ End(h) /\ UNCHANGED <<badge, award>>
        /\ request' = [request EXCEPT ![r] = row]
    BY <1>1 DEF InsertRequest
  <2>2. row \in BadgeRequest
    BY <1>0, <1>1 DEF InsertRequest, JobsAreReal, BadgeRequest, Status
  <2>3. \A g \in Busy({"approve", "reject"}) : job[g].id # r
    BY <1>0, <2>1, NoRequestIsNone DEF LocksHold
  <2> HIDE DEF row
  <2>4. QED
    BY <1>0, <2>1, <2>2, <2>3, WriteStep, NoRequestIsNone
<1>2. ASSUME Cancel(h) PROVE JobInv'
  <2> DEFINE r == job[h].id
  <2>1. r \in Requests /\ request[r] # NoRequest
    BY <1>0, <1>2 DEF Cancel, JobsAreReal
  <2>2. PICK row \in BadgeRequest : request' = [request EXCEPT ![r] = row]
    BY <1>0, <1>2, <2>1, StatusWritten DEF Cancel, Status
  <2>3. \A g \in Busy({"approve", "reject"}) : job[g].id # r
    BY <1>2 DEF Cancel, Locked
  <2>4. End(h) /\ UNCHANGED <<badge, award>>
    BY <1>2 DEF Cancel
  <2> HIDE DEF r
  <2>5. QED
    BY <1>0, <2>1, <2>2, <2>3, <2>4, WriteStep, NoRequestIsNone
\* Both decisions write the request they have locked.
<1>3. ASSUME NEW s \in {"approved", "rejected"}, h \in Busy({"approve", "reject"}),
             request' = [request EXCEPT ![job[h].id].status = s], End(h),
             UNCHANGED badge, award' \in [Owners -> [Badges -> 0..MaxAwards]]
      PROVE  JobInv'
  <2> DEFINE r == job[h].id
  <2>1. /\ r \in Requests
        /\ request[r] # NoRequest
        /\ \A g \in Busy({"approve", "reject"}) \ {h} : job[g].id # r
    BY <1>0, <1>3, NoRequestIsNone DEF LocksHold
  <2>2. PICK row \in BadgeRequest : request' = [request EXCEPT ![r] = row]
    BY <1>0, <1>3, <2>1, StatusWritten DEF Status
  <2>3. /\ End(h)
        /\ badge' \in [Badges -> {"active", "inactive", "deleted"}]
        /\ award' \in [Owners -> [Badges -> 0..MaxAwards]]
        /\ row \in BadgeRequest \cup {NoRequest}
        /\ row # NoRequest
    BY <1>0, <1>3, NoRequestIsNone
  <2> HIDE DEF r
  <2>4. QED
    BY <2>1, <2>2, <2>3, WriteStep
<1>4. ASSUME CommitApproval(h) PROVE JobInv'
  <2>1. /\ h \in Busy({"approve", "reject"})
        /\ request[job[h].id].status = "pending"
        /\ job[h].id \in Requests
    BY <1>0, <1>4 DEF CommitApproval, At, Busy, LocksHold
  <2>2. request[job[h].id] \in BadgeRequest
    BY <1>0, <2>1, RowsOfRequests
  <2>3. award' \in [Owners -> [Badges -> 0..MaxAwards]]
    BY <1>0, <1>4, <2>2, AddAwardType DEF CommitApproval, BadgeRequest
  <2>4. QED
    BY <1>3, <1>4, <2>1, <2>3 DEF CommitApproval
<1>5. ASSUME CommitRejection(h) PROVE JobInv'
  <2>1. h \in Busy({"approve", "reject"})
    BY <1>5 DEF CommitRejection, At, Busy
  <2>2. QED
    BY <1>0, <1>3, <1>5, <2>1 DEF CommitRejection
<1>6. ASSUME Assign(h) PROVE JobInv'
  <2>1. award' \in [Owners -> [Badges -> 0..MaxAwards]]
    BY <1>0, <1>6, AddAwardType DEF Assign, JobsAreReal
  <2>2. QED
    BY <1>0, <1>6, <2>1, QuietStep DEF Assign
<1>7. ASSUME DeleteBadge(h) PROVE JobInv'
  <2>1. badge' \in [Badges -> {"active", "inactive", "deleted"}]
    BY <1>0, <1>7 DEF DeleteBadge
  <2>2. QED
    BY <1>0, <1>7, <2>1, QuietStep DEF DeleteBadge
<1>8. ASSUME Fail(h) PROVE JobInv'
  BY <1>0, <1>8, QuietStep DEF Fail
<1>9. QED
  BY <1>1, <1>2, <1>4, <1>5, <1>6, <1>7, <1>8 DEF Finish

-----------------------------------------------------------------------------
(* The invariant *)

LEMMA JobInit == ASSUME MaxAwardsIsNumber, Init PROVE JobInv
<1>1. TypeOK
  BY DEF Init, TypeOK, NoJobs, MaxAwardsIsNumber
<1>2. DOMAIN job = Handlers /\ \A h \in Handlers : job[h].op = "none"
  BY DEF Init, NoJobs, Resting
<1>3. JobsAreReal /\ LocksHold
  BY <1>2 DEF JobsAreReal, LocksHold, At, Busy
<1>4. QED
  BY <1>1, <1>3 DEF JobInv

LEMMA JobStutter == ASSUME JobInv, UNCHANGED vars PROVE JobInv'
<1>1. UNCHANGED <<badge, request, award, job, calm>>
  BY DEF vars
<1>2. TypeOK'
  BY <1>1 DEF JobInv, TypeOK
<1>3. JobsAreReal'
  BY <1>1 DEF JobInv, JobsAreReal, At
<1>4. LocksHold'
  BY <1>1 DEF JobInv, LocksHold, Busy
<1>5. QED
  BY <1>2, <1>3, <1>4 DEF JobInv

LEMMA JobStep == ASSUME MaxAwardsIsNumber, JobInv, [Next]_vars PROVE JobInv'
<1>1. ASSUME NEW h \in Handlers, Step(h) PROVE JobInv'
  BY <1>1, StepCases, CheckStep, StatementStep, FinishStep
<1>2. QED
  BY <1>1, JobStutter DEF Next, Step

\* The locks hold, whatever overlaps.
LEMMA JobHolds == ASSUME MaxAwardsIsNumber PROVE Spec => []JobInv
<1>1. Init => JobInv
  BY JobInit
<1>2. JobInv /\ [Next]_vars => JobInv'
  BY JobStep
<1>3. QED
  BY <1>1, <1>2, PTL DEF Spec

\* Type correctness: what use cases refer to exists.
THEOREM Typing == ASSUME MaxAwardsIsNumber PROVE Spec => []TypeOK
BY JobHolds, PTL DEF JobInv

-----------------------------------------------------------------------------
(* Decisions *)

\* Whatever a step does to a request, what it decides was pending.
LEMMA DecisionStep ==
  ASSUME MaxAwardsIsNumber, JobInv, [Next]_vars, NEW q \in Requests,
         request'[q].status \in {"approved", "rejected"}, request'[q] # request[q]
  PROVE  request[q].status = "pending"
<1>0. /\ TypeOK /\ JobsAreReal /\ LocksHold
      /\ request \in [Requests -> BadgeRequest \cup {NoRequest}]
  BY DEF JobInv, TypeOK
<1>1. PICK h \in Handlers : Step(h)
  BY DEF Next, Step, vars
<1>2. Finish(h)
  BY <1>1, StepCases, CheckStep, StatementStep DEF Rows
<1>3. CASE \E r \in Requests : InsertRequest(h, r)
  BY <1>0, <1>3 DEF InsertRequest
<1>4. CASE Cancel(h)
  <2>1. job[h].id \in Requests /\ request[job[h].id] # NoRequest
    BY <1>0, <1>4 DEF Cancel, JobsAreReal
  <2>2. PICK row \in BadgeRequest :
          /\ request' = [request EXCEPT ![job[h].id] = row]
          /\ row.status = "cancelled"
    BY <1>0, <1>4, <2>1, StatusWritten DEF Cancel, Status
  <2>3. QED
    BY <1>0, <2>1, <2>2
<1>5. CASE CommitApproval(h) \/ CommitRejection(h)
  <2>1. h \in Busy({"approve", "reject"})
    BY <1>5 DEF CommitApproval, CommitRejection, At, Busy
  <2>2. job[h].id \in Requests /\ request[job[h].id].status = "pending"
    BY <1>0, <2>1 DEF LocksHold
  <2>3. \A r \in Requests \ {job[h].id} : request'[r] = request[r]
    BY <1>0, <1>5 DEF CommitApproval, CommitRejection
  <2>4. QED
    BY <2>2, <2>3
<1>6. CASE Assign(h) \/ DeleteBadge(h) \/ Fail(h)
  BY <1>6 DEF Assign, DeleteBadge, Fail
<1>7. QED
  BY <1>2, <1>3, <1>4, <1>5, <1>6 DEF Finish

\* Approvals and rejections are of pending requests, whatever overlaps
\* (approve- and reject- of user-badge-request and site-badge-request).
THEOREM DecisionsAreOfPending == ASSUME MaxAwardsIsNumber PROVE Spec => DecidesPendingOnly
<1>1. JobInv /\ [Next]_vars =>
        [\A r \in Requests :
           request'[r].status \in {"approved", "rejected"} /\ request'[r] # request[r]
             => request[r].status = "pending"]_vars
  BY DecisionStep
<1>2. QED
  BY <1>1, JobHolds, PTL DEF Spec, DecidesPendingOnly

-----------------------------------------------------------------------------
(* While use cases do not overlap *)

\* What CalmAwards says while calm holds, in parts.
AwardedOnce == \A o \in Owners, b \in Badges : award[o][b] <= 1

NoAwardDeleted ==
  \A u \in Users, b \in UserBadges : Awarded(u, b) => badge[b] # "deleted"

OnePending ==
  \A r1, r2 \in Requests :
    /\ request[r1].status = "pending"
    /\ request[r2].status = "pending"
    /\ request[r1].owner = request[r2].owner
    /\ request[r1].badge = request[r2].badge
    => r1 = r2

CalmInv == ChecksStand /\ CalmAwards

LEMMA AllAtRest ==
  ASSUME \A g \in Handlers : Idle(g)
  PROVE  /\ ChecksStand
         /\ \A g \in Handlers : job[g].op = "none"
BY DEF ChecksStand, Idle, Resting, At

\* A use case that begins while all handlers rest stands on what it checked.
LEMMA CalmCheck ==
  ASSUME JobInv, CalmInv, NEW h \in Handlers, Checks(h), calm'
  PROVE  CalmInv'
<1>1. UNCHANGED <<badge, request, award>>
  BY CheckStep DEF Rows
<1>2. DOMAIN job = Handlers
  BY DEF JobInv, JobsAreReal
\* The job j is begun: only h is at work, and its checks were just made.
<1>3. ASSUME NEW j, Begin(h, j),
             j.op = "create" => ~HasPending(j.owner, j.badge),
             j.op = "approve" =>
               LET r == request[j.id]
               IN  ~Awarded(r.owner, r.badge) /\ badge[r.badge] = "active",
             j.op = "assign" => ~Awarded(j.owner, j.badge) /\ badge[j.badge] = "active",
             j.op = "delete" => \A u \in Users : ~Awarded(u, j.badge)
      PROVE  CalmInv'
  <2>1. /\ job'[h] = j
        /\ calm /\ \A g \in Handlers : Idle(g)
        /\ \A g \in Handlers \ {h} : job'[g] = job[g]
    BY <1>2, <1>3, BeginJob
  <2>2. CalmAwards'
    BY <1>1, <2>1 DEF CalmInv, CalmAwards, Awarded
  <2>3. \A g \in Handlers \ {h} : Idle(g)' /\ job'[g].op = "none"
    BY <2>1 DEF Idle, Resting
  <2>4. ChecksStand'
    BY <1>1, <1>3, <2>1, <2>3 DEF ChecksStand, At, Awarded, HasPending
  <2>5. QED
    BY <2>2, <2>4 DEF CalmInv
<1>4. ASSUME NEW u \in Users, NEW o \in Owners, NEW b \in Badges,
             ~HasPending(o, b),
             Begin(h, [op |-> "create", owner |-> o, badge |-> b, by |-> u])
      PROVE  CalmInv'
  BY <1>3, <1>4
<1>5. ASSUME NEW r \in Requests, Begin(h, [op |-> "cancel", id |-> r])
      PROVE  CalmInv'
  BY <1>3, <1>5
<1>6. ASSUME NEW r \in Requests, NEW owners, LockForApproval(h, r, owners)
      PROVE  CalmInv'
  BY <1>3, <1>6 DEF LockForApproval, LockPending
<1>7. ASSUME NEW r \in Requests, LockPending(h, "reject", r)
      PROVE  CalmInv'
  BY <1>3, <1>7 DEF LockPending
<1>8. ASSUME NEW o \in Owners, NEW b \in Badges,
             ~Awarded(o, b), badge[b] = "active",
             Begin(h, [op |-> "assign", owner |-> o, badge |-> b])
      PROVE  CalmInv'
  BY <1>3, <1>8
<1>9. ASSUME NEW b \in Badges, \A u \in Users : ~Awarded(u, b),
             Begin(h, [op |-> "delete", badge |-> b])
      PROVE  CalmInv'
  BY <1>3, <1>9
<1>10. QED
  BY <1>4, <1>5, <1>6, <1>7, <1>8, <1>9
  DEF Checks, CheckUserRequest, CheckSiteRequest, MayRequest, CheckCancelUser,
      CheckCancelSite, ApproveUserRequest, ApproveSiteRequest,
      RejectUserRequest, RejectSiteRequest, CheckAssignToSite,
      CheckAssignToUser, CheckDeleteBadge, Owners

\* A statement among handlers at rest.
LEMMA CalmStatement ==
  ASSUME MaxAwardsIsNumber, JobInv, CalmInv, Statements, calm' PROVE CalmInv'
<1>0. /\ badge \in [Badges -> {"active", "inactive", "deleted"}]
      /\ award \in [Owners -> [Badges -> 0..MaxAwards]]
      /\ UNCHANGED <<request, job>>
  BY StatementStep DEF JobInv, TypeOK
<1>1. AtOnce
  BY DEF Statements, RemoveRows, UpdateBadge, RestoreBadge
<1>2. calm /\ \A g \in Handlers : Idle(g)
  BY <1>1, Zenon DEF AtOnce
<1>3. ChecksStand'
  <2>1. \A g \in Handlers : Idle(g)' /\ job'[g].op = "none"
    BY <1>0, <1>2 DEF Idle, Resting
  <2>2. QED
    BY <2>1 DEF ChecksStand, At
<1>4. AwardedOnce /\ NoAwardDeleted /\ OnePending
  BY <1>2 DEF CalmInv, CalmAwards, AwardedOnce, NoAwardDeleted, OnePending
<1>5. OnePending'
  BY <1>0, <1>4 DEF OnePending
<1>6. ASSUME NEW o \in Owners, NEW b \in Badges, RemoveRows(o, b)
      PROVE  AwardedOnce' /\ NoAwardDeleted'
  BY <1>0, <1>4, <1>6 DEF RemoveRows, AwardedOnce, NoAwardDeleted, Awarded, Owners, Badges
<1>7. ASSUME NEW b \in Badges, UpdateBadge(b) \/ RestoreBadge(b)
      PROVE  AwardedOnce' /\ NoAwardDeleted'
  BY <1>0, <1>4, <1>7
  DEF UpdateBadge, RestoreBadge, AwardedOnce, NoAwardDeleted, Awarded, Owners, Badges
<1>8. AwardedOnce' /\ NoAwardDeleted'
  BY <1>6, <1>7 DEF Statements
<1>9. QED
  BY <1>3, <1>5, <1>8 DEF CalmInv, CalmAwards, AwardedOnce, NoAwardDeleted, OnePending

\* The one use case in progress ends on what it had checked.
LEMMA CalmFinish ==
  ASSUME MaxAwardsIsNumber, JobInv, CalmInv, NEW h \in Handlers, Finish(h), calm'
  PROVE  CalmInv'
<1>0. /\ badge \in [Badges -> {"active", "inactive", "deleted"}]
      /\ award \in [Owners -> [Badges -> 0..MaxAwards]]
      /\ request \in [Requests -> BadgeRequest \cup {NoRequest}]
      /\ DOMAIN job = Handlers
      /\ JobsAreReal /\ LocksHold /\ MaxAwards \in Nat
  BY DEF JobInv, TypeOK, JobsAreReal, MaxAwardsIsNumber
<1>1. End(h) /\ ~Idle(h)
  BY DEF Finish, InsertRequest, Cancel, CommitApproval, CommitRejection,
     Assign, DeleteBadge, Fail, At, Idle, Resting
<1>2. /\ calm /\ job'[h] = Resting
      /\ \A g \in Handlers \ {h} : job'[g] = job[g]
  BY <1>0, <1>1, EndJob
<1>3. ChecksStand /\ AwardedOnce /\ NoAwardDeleted /\ OnePending
  BY <1>2 DEF CalmInv, CalmAwards, AwardedOnce, NoAwardDeleted, OnePending
<1>4. ChecksStand'
  <2>1. \A g \in Handlers : Idle(g)' /\ job'[g].op = "none"
    BY <1>1, <1>2, <1>3 DEF ChecksStand, Idle, Resting
  <2>2. QED
    BY <2>1 DEF ChecksStand, At
<1>5. SUFFICES AwardedOnce' /\ NoAwardDeleted' /\ OnePending'
  BY <1>4 DEF CalmInv, CalmAwards, AwardedOnce, NoAwardDeleted, OnePending
<1>6. ASSUME NEW r \in Requests, InsertRequest(h, r)
      PROVE  OnePending' /\ UNCHANGED <<badge, award>>
  <2>1. ~HasPending(job[h].owner, job[h].badge)
    BY <1>2, <1>3, <1>6 DEF ChecksStand, InsertRequest
  <2>2. /\ \A q \in Requests \ {r} : request'[q] = request[q]
        /\ request'[r] = [status |-> "pending", owner |-> job[h].owner,
                          badge |-> job[h].badge, by |-> job[h].by]
    BY <1>0, <1>6 DEF InsertRequest
  <2>3. /\ request'[r].owner = job[h].owner /\ request'[r].badge = job[h].badge
    BY <2>2
  <2>4. OnePending'
    BY <1>3, <2>1, <2>2, <2>3 DEF OnePending, HasPending
  <2>5. QED
    BY <1>6, <2>4 DEF InsertRequest
\* A request that is no longer pending takes nothing away from OnePending.
<1>7. ASSUME NEW r \in Requests, request[r] # NoRequest,
             NEW s \in Status, s # "pending",
             request' = [request EXCEPT ![r].status = s]
      PROVE  OnePending'
  <2>1. PICK row \in BadgeRequest :
          request' = [request EXCEPT ![r] = row] /\ row.status = s
    BY <1>7, StatusWritten DEF JobInv
  <2>2. \A q \in Requests : request'[q].status = "pending" =>
          q # r /\ request'[q] = request[q]
    BY <1>0, <1>7, <2>1
  <2>3. QED
    BY <1>3, <2>2 DEF OnePending
\* An award that was checked.
<1>8. ASSUME NEW o \in Owners, NEW b \in Badges, AddAward(o, b), ~Awarded(o, b),
             badge[b] = "active", UNCHANGED badge
      PROVE  AwardedOnce' /\ NoAwardDeleted'
  <2>1. /\ award'[o][b] = 1
        /\ \A p \in Owners, c \in Badges :
             p # o \/ c # b => award'[p][c] = award[p][c]
    BY <1>0, <1>8 DEF AddAward, Awarded
  <2>2. AwardedOnce'
    BY <1>3, <2>1 DEF AwardedOnce
  <2>3. NoAwardDeleted'
    BY <1>3, <1>8, <2>1 DEF NoAwardDeleted, Awarded, Owners, Badges
  <2>4. QED
    BY <2>2, <2>3
<1>9. ASSUME UNCHANGED <<badge, award>> PROVE AwardedOnce' /\ NoAwardDeleted'
  BY <1>3, <1>9 DEF AwardedOnce, NoAwardDeleted, Awarded
<1>10. ASSUME UNCHANGED request PROVE OnePending'
  BY <1>3, <1>10 DEF OnePending
<1>11. CASE \E r \in Requests : InsertRequest(h, r)
  BY <1>6, <1>9, <1>11
<1>12. CASE Cancel(h)
  <2>1. job[h].id \in Requests /\ request[job[h].id] # NoRequest
    BY <1>0, <1>12 DEF Cancel, JobsAreReal
  <2>2. QED
    BY <1>7, <1>9, <1>12, <2>1 DEF Cancel, Status
<1>13. CASE CommitApproval(h)
  <2> DEFINE r == job[h].id
  <2>1. r \in Requests /\ request[r] # NoRequest
    BY <1>0, <1>13, NoRequestIsNone DEF CommitApproval, At, Busy, LocksHold
  <2>2. request[r] \in BadgeRequest
    BY <1>0, <2>1
  <2>3. ~Awarded(request[r].owner, request[r].badge) /\ badge[request[r].badge] = "active"
    BY <1>2, <1>3, <1>13 DEF ChecksStand, CommitApproval
  <2>4. AwardedOnce' /\ NoAwardDeleted'
    BY <1>8, <1>13, <2>2, <2>3 DEF CommitApproval, BadgeRequest
  <2>5. OnePending'
    BY <1>7, <1>13, <2>1 DEF CommitApproval, Status
  <2>6. QED
    BY <2>4, <2>5
<1>14. CASE CommitRejection(h)
  <2>1. job[h].id \in Requests /\ request[job[h].id] # NoRequest
    BY <1>0, <1>14, NoRequestIsNone DEF CommitRejection, At, Busy, LocksHold
  <2>2. QED
    BY <1>7, <1>9, <1>14, <2>1 DEF CommitRejection, Status
<1>15. CASE Assign(h)
  <2>1. /\ job[h].owner \in Owners /\ job[h].badge \in Badges
        /\ ~Awarded(job[h].owner, job[h].badge) /\ badge[job[h].badge] = "active"
    BY <1>0, <1>2, <1>3, <1>15 DEF Assign, JobsAreReal, ChecksStand
  <2>2. QED
    BY <1>8, <1>10, <1>15, <2>1 DEF Assign
<1>16. CASE DeleteBadge(h)
  <2>1. \A u \in Users : ~Awarded(u, job[h].badge)
    BY <1>2, <1>3, <1>16 DEF DeleteBadge, ChecksStand
  <2>2. /\ UNCHANGED <<request, award>>
        /\ \A b \in Badges : b # job[h].badge => badge'[b] = badge[b]
    BY <1>0, <1>16 DEF DeleteBadge
  <2>3. AwardedOnce'
    BY <1>3, <2>2 DEF AwardedOnce
  <2>4. NoAwardDeleted'
    BY <1>3, <2>1, <2>2 DEF NoAwardDeleted, Awarded, Badges
  <2>5. QED
    BY <1>10, <2>2, <2>3, <2>4
<1>17. CASE Fail(h)
  BY <1>9, <1>10, <1>17 DEF Fail
<1>18. QED
  BY <1>11, <1>12, <1>13, <1>14, <1>15, <1>16, <1>17 DEF Finish

LEMMA CalmInit == ASSUME MaxAwardsIsNumber, Init PROVE CalmInv
<1>1. \A g \in Handlers : Idle(g)
  BY DEF Init, NoJobs, Idle
<1>2. ChecksStand
  BY <1>1, AllAtRest
<1>3. /\ \A r \in Requests : request[r].status # "pending"
      /\ \A o \in Owners, b \in Badges : award[o][b] = 0
  BY NoRequestIsNone DEF Init
<1>4. CalmAwards
  BY <1>3 DEF CalmAwards, Awarded, Owners, Badges
<1>5. QED
  BY <1>2, <1>4 DEF CalmInv

LEMMA CalmStep ==
  ASSUME MaxAwardsIsNumber, JobInv, CalmInv, [Next]_vars PROVE CalmInv'
<1>1. CASE UNCHANGED vars
  BY <1>1 DEF CalmInv, ChecksStand, CalmAwards, vars, Idle, At, HasPending, Awarded
<1>2. CASE ~calm'
  BY <1>2 DEF CalmInv, ChecksStand, CalmAwards
<1>3. ASSUME NEW h \in Handlers, Step(h), calm' PROVE CalmInv'
  BY <1>3, StepCases, CalmCheck, CalmStatement, CalmFinish
<1>4. QED
  BY <1>1, <1>2, <1>3 DEF Next, Step

\* Without overlapping use cases the checks before the writes are enough: no
\* badge twice, no open request twice, no awarded badge deleted (approve- and
\* create-badge-request, assign-badge, delete-badge).
THEOREM ChecksAreEnough == ASSUME MaxAwardsIsNumber PROVE Spec => []CalmAwards
<1>1. MaxAwardsIsNumber /\ Init => CalmInv
  BY CalmInit
<1>2. JobInv /\ CalmInv /\ [Next]_vars => CalmInv'
  BY CalmStep
<1>3. Spec => []CalmInv
  BY <1>1, <1>2, JobHolds, PTL DEF Spec
<1>4. CalmInv => CalmAwards
  BY DEF CalmInv
<1>5. QED
  BY <1>3, <1>4, PTL
=============================================================================
