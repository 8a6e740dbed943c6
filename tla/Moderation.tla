------------------------------ MODULE Moderation ------------------------------
(***************************************************************************)
(* Site reviews and scam reports: who may change them when, what of them is *)
(* published, and the statistics of the sites that are computed from the    *)
(* reviews.                                                                 *)
(*                                                                          *)
(* A review is checked, written in one statement, and the statistics are    *)
(* computed and written after that in two more.  What a text says is its    *)
(* rating here, a number: nothing else tells two texts apart.               *)
(***************************************************************************)
EXTENDS UseCases, FiniteSets

CONSTANTS
  Authors,
  Sites,
  Reviews,
  Reports,
  Ratings     \* of reviews, and the texts of reports

RatingsArePositive == Ratings \subseteq Nat \ {0}

VARIABLES
  review,
  stat,      \* review_count of each site, and average_rating as the sum it is of
  report,
  stale,     \* history: sites whose statistics were not computed when they should
  agreed     \* history: the rating first published, or that an administrator saw

vars == <<review, stat, report, stale, agreed, job, calm>>

NoReview == [status |-> "none", author |-> None, site |-> None, rating |-> 0, published |-> FALSE]

Review == [status: {"live", "deleted"}, author: Authors, site: Sites, rating: Ratings,
           published: BOOLEAN]

\* deleted_at is a column of its own: a report that is deleted has its status.
NoReport == [live |-> FALSE, status |-> "none", rating |-> 0]

Report == [live: BOOLEAN, status: {"pending", "published", "rejected"}, rating: Ratings]

Init ==
  /\ review = [r \in Reviews |-> NoReview]
  /\ stat = [s \in Sites |-> [count |-> 0, total |-> 0]]
  /\ report = [r \in Reports |-> NoReport]
  /\ stale = {}
  /\ agreed = [r \in Reviews \cup Reports |-> 0]
  /\ NoJobs

-----------------------------------------------------------------------------
(* Site reviews *)

Shown(r) == review[r].status = "live"

Reading(h, j) == Begin(h, j) /\ UNCHANGED <<review, stat, report, stale, agreed>>

Recalculate(h, s) == Continue(h, [op |-> "count", site |-> s])

\* "Check if review exists (upsert pattern)": on another connection.
CheckCreate(h, u, s, rating) ==
  /\ ~\E r \in Reviews : Shown(r) /\ review[r].author = u /\ review[r].site = s
  /\ Reading(h, [op |-> "insert", author |-> u, site |-> s, rating |-> rating])

\* Mutant: nothing but the check keeps two reviews apart.
TakenByNone(u, s) == FALSE

\* IDX_site_reviews_unique: deleted reviews count as well.
Taken(u, s) ==
  \E r \in Reviews : review[r].status # "none" /\ review[r].author = u /\ review[r].site = s

CreateSiteReview(h) ==
  /\ At(h, "insert")
  /\ LET j == job[h]
     IN  IF Taken(j.author, j.site)
         THEN End(h) /\ UNCHANGED <<review, agreed>>
         ELSE \E r \in Reviews :
                /\ review[r] = NoReview
                /\ review' = [review EXCEPT ![r] =
                     [status |-> "live", author |-> j.author, site |-> j.site,
                      rating |-> j.rating, published |-> TRUE]]
                /\ agreed' = [agreed EXCEPT ![r] = j.rating]
                /\ Recalculate(h, j.site)
  /\ UNCHANGED <<stat, report, stale>>

CheckUpdate(h, r, rating) ==
  /\ Shown(r)
  /\ Reading(h, [op |-> "update", review |-> r, site |-> review[r].site, rating |-> rating,
                 unpublish |-> review[r].published])

\* Mutant: an update of a published review leaves it published.
StaysPublished(r, unpublish) == review[r].published

\* "requires re-approval": if it was published when it was read.
PublishedAfterUpdate(r, unpublish) == review[r].published /\ ~unpublish

\* A review that is deleted by now is not found again, and the transaction is
\* rolled back.
UpdateSiteReview(h) ==
  /\ At(h, "update")
  /\ LET j == job[h]
     IN  IF Shown(j.review)
         THEN /\ review' = [review EXCEPT
                   ![j.review].rating = j.rating,
                   ![j.review].published = PublishedAfterUpdate(j.review, j.unpublish)]
              /\ Recalculate(h, j.site)
         ELSE End(h) /\ UNCHANGED review
  /\ UNCHANGED <<stat, report, stale, agreed>>

CheckDelete(h, r) ==
  /\ Shown(r)
  /\ Reading(h, [op |-> "delete", review |-> r, site |-> review[r].site])

DeleteSiteReview(h) ==
  /\ At(h, "delete")
  /\ review' = [review EXCEPT ![job[h].review].status = "deleted"]
  /\ Recalculate(h, job[h].site)
  /\ UNCHANGED <<stat, report, stale, agreed>>

\* The administrator decides on what he reads.
CheckDecide(h, r) ==
  /\ Shown(r)
  /\ Reading(h, [op |-> IF review[r].published THEN "reject" ELSE "approve",
                 review |-> r, site |-> review[r].site, rating |-> review[r].rating])

\* The UPDATE goes through on a deleted review; it is not found after that, and
\* the statistics are left alone.
Publish(h, published) ==
  /\ review' = [review EXCEPT ![job[h].review].published = published]
  /\ IF Shown(job[h].review) THEN Recalculate(h, job[h].site) ELSE End(h)
  /\ UNCHANGED <<stat, report, stale>>

ApproveSiteReview(h) ==
  /\ At(h, "approve")
  /\ Publish(h, TRUE)
  /\ agreed' = [agreed EXCEPT ![job[h].review] = job[h].rating]

RejectSiteReview(h) == At(h, "reject") /\ Publish(h, FALSE) /\ UNCHANGED agreed

-----------------------------------------------------------------------------
(* recalculateSiteStatistics *)

Counted(s) == {r \in Reviews : Shown(r) /\ review[r].published /\ review[r].site = s}

\* What the ratings of these reviews add up to, star by star.
Stars(s) == UNION {{r} \X (1..review[r].rating) : r \in Counted(s)}

Statistics(s) == [count |-> Cardinality(Counted(s)), total |-> Cardinality(Stars(s))]

CountReviews(h) ==
  /\ At(h, "count")
  /\ Continue(h, [op |-> "store", site |-> job[h].site, stat |-> Statistics(job[h].site)])
  /\ UNCHANGED <<review, stat, report, stale, agreed>>

StoreStatistics(h) ==
  /\ At(h, "store")
  /\ stat' = [stat EXCEPT ![job[h].site] = job[h].stat]
  /\ stale' = stale \ {job[h].site}
  /\ End(h) /\ UNCHANGED <<review, report, agreed>>

-----------------------------------------------------------------------------
(* Scam reports *)

CreateScamReport(r, rating) ==
  /\ report[r] = NoReport
  /\ report' = [report EXCEPT ![r] = [live |-> TRUE, status |-> "pending", rating |-> rating]]
  /\ AtOnce /\ UNCHANGED <<review, stat, stale, agreed>>

\* An administrator's report has the status he gives it.
AdminCreateScamReport(r, rating, status) ==
  /\ report[r] = NoReport
  /\ report' = [report EXCEPT ![r] = [live |-> TRUE, status |-> status, rating |-> rating]]
  /\ agreed' = [agreed EXCEPT ![r] = rating]
  /\ AtOnce /\ UNCHANGED <<review, stat, stale>>

\* What its author may change or delete, and an administrator decide.
Open(r) == report[r].live /\ report[r].status = "pending"

FindReport(h, op, r, rating) ==
  /\ Open(r)
  /\ Reading(h, [op |-> op, report |-> r, rating |-> rating])

UpdateScamReport(h) ==
  /\ At(h, "revise")
  /\ report' = [report EXCEPT ![job[h].report].rating = job[h].rating]
  /\ End(h) /\ UNCHANGED <<review, stat, stale, agreed>>

DeleteScamReport(h) ==
  /\ At(h, "withdraw")
  /\ report' = [report EXCEPT ![job[h].report].live = FALSE]
  /\ End(h) /\ UNCHANGED <<review, stat, stale, agreed>>

AdminDeleteScamReport(r) ==
  /\ report[r].live
  /\ report' = [report EXCEPT ![r].live = FALSE]
  /\ AtOnce /\ UNCHANGED <<review, stat, stale, agreed>>

ApproveScamReport(h) ==
  /\ At(h, "accept")
  /\ report' = [report EXCEPT ![job[h].report].status = "published"]
  /\ agreed' = [agreed EXCEPT ![job[h].report] = job[h].rating]
  /\ End(h) /\ UNCHANGED <<review, stat, stale>>

RejectScamReport(h) ==
  /\ At(h, "refuse")
  /\ report' = [report EXCEPT ![job[h].report].status = "rejected"]
  /\ End(h) /\ UNCHANGED <<review, stat, stale, agreed>>

\* Any field of any report, the status among them: what is not part of the
\* request stays, the text he has read and the status.
FindForAdmin(h, r, rating, status) ==
  /\ report[r].live
  /\ Reading(h, [op |-> "edit", report |-> r, rating |-> rating, status |-> status,
                 saw |-> report[r].rating])

AdminUpdateScamReport(h) ==
  /\ At(h, "edit")
  /\ LET j == job[h]
         keepsText == j.rating = None
     IN  /\ report' = [report EXCEPT
              ![j.report].rating = IF keepsText THEN @ ELSE j.rating,
              ![j.report].status = IF j.status = None THEN @ ELSE j.status]
         /\ agreed' = [agreed EXCEPT ![j.report] = IF keepsText THEN j.saw ELSE j.rating]
  /\ End(h) /\ UNCHANGED <<review, stat, stale>>

-----------------------------------------------------------------------------

\* The request fails, or the process ends.
Fail(h) ==
  /\ ~Idle(h)
  /\ stale' = IF job[h].op \in {"count", "store"} THEN stale \cup {job[h].site} ELSE stale
  /\ End(h) /\ UNCHANGED <<review, stat, report, agreed>>

SiteReviewController(h) ==
  \/ \E u \in Authors, s \in Sites, rating \in Ratings : CheckCreate(h, u, s, rating)
  \/ \E r \in Reviews, rating \in Ratings : CheckUpdate(h, r, rating)
  \/ \E r \in Reviews : CheckDelete(h, r) \/ CheckDecide(h, r)

ScamReportController(h) ==
  \E r \in Reports :
    \/ \E rating \in Ratings : FindReport(h, "revise", r, rating)
    \/ \E op \in {"withdraw", "accept", "refuse"} : FindReport(h, op, r, report[r].rating)
    \/ \E rating \in Ratings \cup {None},
          status \in {"pending", "published", "rejected", None} :
            FindForAdmin(h, r, rating, status)

AtOnceReports ==
  \E r \in Reports :
    \/ AdminDeleteScamReport(r)
    \/ \E rating \in Ratings :
         \/ CreateScamReport(r, rating)
         \/ \E status \in {"pending", "published", "rejected"} :
              AdminCreateScamReport(r, rating, status)

Finish(h) ==
  \/ CreateSiteReview(h) \/ UpdateSiteReview(h) \/ DeleteSiteReview(h)
  \/ ApproveSiteReview(h) \/ RejectSiteReview(h)
  \/ CountReviews(h) \/ StoreStatistics(h)
  \/ UpdateScamReport(h) \/ DeleteScamReport(h)
  \/ ApproveScamReport(h) \/ RejectScamReport(h) \/ AdminUpdateScamReport(h)
  \/ Fail(h)

Next ==
  \/ \E h \in Handlers : SiteReviewController(h) \/ ScamReportController(h) \/ Finish(h)
  \/ AtOnceReports

Spec == Init /\ [][Next]_vars

-----------------------------------------------------------------------------
(* Properties *)

\* Every variable has its type.
TypeOK ==
  /\ review \in [Reviews -> Review \cup {NoReview}]
  /\ report \in [Reports -> Report \cup {NoReport}]
  /\ stat \in [Sites -> [count: Nat, total: Nat]]
  /\ stale \subseteq Sites
  /\ agreed \in [Reviews \cup Reports -> Ratings \cup {0}]
  /\ calm \in BOOLEAN

\* Whatever overlaps: a user has one review of a site.
OneReviewEach ==
  \A q, r \in Reviews :
    Shown(q) /\ Shown(r) /\ review[q].author = review[r].author
      /\ review[q].site = review[r].site => q = r

\* As long as use cases do not overlap: what is published is what was published
\* first, or what an administrator saw when he published it.
CalmPublished ==
  calm =>
    /\ \A r \in Reviews : Shown(r) /\ review[r].published => review[r].rating = agreed[r]
    /\ \A r \in Reports :
         report[r].live /\ report[r].status = "published" => report[r].rating = agreed[r]

\* As long as use cases do not overlap: the statistics of a site are those of
\* its published reviews, once they are written.
CalmStatistics ==
  calm =>
    \A s \in Sites \ stale :
      (\A h \in Busy({"count", "store"}) : job[h].site # s) => stat[s] = Statistics(s)

-----------------------------------------------------------------------------
(* What makes them inductive; the proofs are in ContentProofs.              *)

\* Assumed of the constants: a review is not a report.
IdsDiffer == Reviews \cap Reports = {}

RowsAreTyped ==
  /\ review \in [Reviews -> Review \cup {NoReview}]
  /\ report \in [Reports -> Report \cup {NoReport}]
  /\ agreed \in [Reviews \cup Reports -> Ratings \cup {0}]

\* A use case in progress refers to rows that exist: nothing erases one.
JobIsReal(h) ==
  LET j == job[h]
  IN  /\ j.op \in {"update", "delete", "approve", "reject"} =>
           j.review \in Reviews /\ review[j.review] # NoReview
      /\ j.op \in {"revise", "withdraw", "accept", "refuse", "edit"} =>
           j.report \in Reports /\ report[j.report] # NoReport
      /\ j.op \in {"insert", "update", "approve", "revise", "accept"} => j.rating \in Ratings
      /\ j.op = "insert" => j.author \in Authors /\ j.site \in Sites
      /\ j.op = "update" => j.unpublish \in BOOLEAN
      /\ j.op = "edit" => /\ j.saw \in Ratings
                         /\ j.rating \in Ratings \cup {None}
                         /\ j.status \in {"pending", "published", "rejected", None}

JobsAreReal == DOMAIN job = Handlers /\ \A h \in Handlers : JobIsReal(h)

\* What a use case has read of its row is still so.
ReadsStand(h) ==
  LET j == job[h]
  IN  /\ j.op = "update" => j.unpublish = review[j.review].published
      /\ j.op = "approve" => j.rating = review[j.review].rating
      /\ j.op = "revise" => report[j.report].status = "pending"
      /\ j.op = "accept" => j.rating = report[j.report].rating
      /\ j.op = "edit" => j.saw = report[j.report].rating

ChecksStand ==
  calm => /\ \A g, h \in Handlers : ~Idle(g) /\ ~Idle(h) => g = h
          /\ \A h \in Handlers : ReadsStand(h)

-----------------------------------------------------------------------------
(* What makes CalmStatistics inductive; the proof is in ContentProofs.      *)

\* The use case is about to write the statistics of this site.
ToStore(j, s) == j.op \in {"count", "store"} /\ j.site = s

\* What it is about to write is right; who writes a review knows its site.
CountStands(j) ==
  /\ j.op = "store" => j.stat = Statistics(j.site)
  /\ j.op \in {"update", "delete", "approve", "reject"} => j.site = review[j.review].site

CountsStand ==
  /\ DOMAIN stat = Sites
  /\ calm => /\ \A s \in Sites \ stale :
                  (\A h \in Handlers : ~ToStore(job[h], s)) => stat[s] = Statistics(s)
             /\ \A h \in Handlers : CountStands(job[h])
=============================================================================
