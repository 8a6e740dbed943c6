----------------------------- MODULE ContentProofs -----------------------------
(* Theorems about what MCContent checks, for every value of its constants:   *)
(* of the parts with reviews and scam reports (Moderation), with the blocked *)
(* addresses (BlockedIps), with posts and comments (Writings), with images   *)
(* (Media), with lists (Listings) and with the catalogue of sites            *)
(* (Catalogue).                                                              *)
EXTENDS MCContent, Sequences, FiniteSetTheorems, TLAPS

ModerationInv == Reviewed!RowsAreTyped /\ Reviewed!JobsAreReal /\ Reviewed!OneReviewEach

\* The two halves of CalmPublished.
ReviewsAgreed ==
  \A r \in Reviews : Reviewed!Shown(r) /\ review[r].published => review[r].rating = agreed[r]

ReportsAgreed ==
  \A r \in Reports :
    report[r].live /\ report[r].status = "published" => report[r].rating = agreed[r]

AgreementInv == Reviewed!ChecksStand /\ (calm => ReviewsAgreed /\ ReportsAgreed)

ReviewRows == <<review, report, agreed>>

-----------------------------------------------------------------------------
(* Rows and jobs *)

LEMMA NoRowIsNone ==
  /\ Reviewed!NoReview.status = "none" /\ Reviewed!NoReview \notin Reviewed!Review
  /\ ~Reviewed!NoReport.live /\ Reviewed!NoReport.status = "none"
  /\ Reviewed!NoReport \notin Reviewed!Report
<1>1. Reviewed!NoReview.status = "none" /\ ~Reviewed!NoReport.live /\ Reviewed!NoReport.status = "none"
  BY DEF Reviewed!NoReview, Reviewed!NoReport
<1>2. \A entry \in Reviewed!Review : entry.status # "none"
  BY DEF Reviewed!Review
<1>3. \A entry \in Reviewed!Report : entry.status # "none"
  BY DEF Reviewed!Report
<1>4. QED
  BY <1>1, <1>2, <1>3

LEMMA JobWritten ==
  ASSUME DOMAIN job = Handlers, NEW h \in Handlers, NEW j,
         job' = [job EXCEPT ![h] = j]
  PROVE  /\ DOMAIN job' = Handlers
         /\ job'[h] = j
         /\ \A g \in Handlers \ {h} : job'[g] = job[g]
OBVIOUS

LEMMA BeginJob ==
  ASSUME NEW h \in Handlers, NEW j, Reviewed!Begin(h, j)
  PROVE  /\ job' = [job EXCEPT ![h] = j]
         /\ calm' => calm /\ \A g \in Handlers : Reviewed!Idle(g)
<1>1. Reviewed!Idle(h) /\ job' = [job EXCEPT ![h] = j]
  BY DEF Reviewed!Begin
<1>2. calm' => calm /\ \A g \in Handlers \ {h} : Reviewed!Idle(g)
  BY Zenon DEF Reviewed!Begin
<1>3. QED
  BY <1>1, <1>2

\* Written in one piece, a record is of a row again.
LEMMA ReviewWritten ==
  ASSUME Reviewed!RowsAreTyped, NEW r \in Reviews, review[r] # Reviewed!NoReview,
         NEW status \in {"live", "deleted"}, NEW rating \in Ratings, NEW b \in BOOLEAN,
         \/ review' = [review EXCEPT ![r].status = status]
         \/ review' = [review EXCEPT ![r].published = b]
         \/ review' = [review EXCEPT ![r].rating = rating, ![r].published = b]
  PROVE  \E entry \in Reviewed!Review :
           /\ review' = [review EXCEPT ![r] = entry]
           /\ entry.author = review[r].author /\ entry.site = review[r].site
           /\ entry.status \in {review[r].status, status}
<1>1. review[r] \in Reviewed!Review
  BY DEF Reviewed!RowsAreTyped
<1>2. CASE review' = [review EXCEPT ![r].status = status]
  <2> DEFINE entry == [review[r] EXCEPT !.status = status]
  <2>1. /\ entry \in Reviewed!Review /\ review' = [review EXCEPT ![r] = entry]
        /\ entry.author = review[r].author /\ entry.site = review[r].site
        /\ entry.status = status
    BY <1>1, <1>2 DEF Reviewed!Review, Reviewed!RowsAreTyped
  <2>2. QED
    BY <2>1
<1>3. CASE review' = [review EXCEPT ![r].published = b]
  <2> DEFINE entry == [review[r] EXCEPT !.published = b]
  <2>1. /\ entry \in Reviewed!Review /\ review' = [review EXCEPT ![r] = entry]
        /\ entry.author = review[r].author /\ entry.site = review[r].site
        /\ entry.status = review[r].status
    BY <1>1, <1>3 DEF Reviewed!Review, Reviewed!RowsAreTyped
  <2>2. QED
    BY <2>1
<1>4. CASE review' = [review EXCEPT ![r].rating = rating, ![r].published = b]
  <2> DEFINE entry == [review[r] EXCEPT !.rating = rating, !.published = b]
  <2>1. /\ entry \in Reviewed!Review /\ review' = [review EXCEPT ![r] = entry]
        /\ entry.author = review[r].author /\ entry.site = review[r].site
        /\ entry.status = review[r].status
    BY <1>1, <1>4 DEF Reviewed!Review, Reviewed!RowsAreTyped
  <2>2. QED
    BY <2>1
<1>5. QED
  BY <1>2, <1>3, <1>4

-----------------------------------------------------------------------------
(* Steps of jobs that write no row *)

\* A job is begun, goes on or ends, and no row is written.
LEMMA QuietStep ==
  ASSUME ModerationInv, NEW h \in Handlers, NEW j, job' = [job EXCEPT ![h] = j],
         Reviewed!JobIsReal(h)', UNCHANGED ReviewRows
  PROVE  ModerationInv'
<1>1. UNCHANGED <<review, report, agreed>>
  BY DEF ReviewRows
<1>2. /\ DOMAIN job' = Handlers
      /\ \A g \in Handlers \ {h} : job'[g] = job[g]
  BY DEF ModerationInv, Reviewed!JobsAreReal
<1>3. \A g \in Handlers \ {h} : Reviewed!JobIsReal(g)'
  BY <1>1, <1>2 DEF ModerationInv, Reviewed!JobsAreReal, Reviewed!JobIsReal
<1>4. Reviewed!JobsAreReal'
  BY <1>2, <1>3 DEF Reviewed!JobsAreReal
<1>5. Reviewed!RowsAreTyped' /\ Reviewed!OneReviewEach'
  BY <1>1 DEF ModerationInv, Reviewed!RowsAreTyped, Reviewed!OneReviewEach, Reviewed!Shown
<1>6. QED
  BY <1>4, <1>5 DEF ModerationInv

\* The checks that begin a use case.
Checks(h) == Reviewed!SiteReviewController(h) \/ Reviewed!ScamReportController(h)

\* What a check hands over: of its own row, and as it read it.
MayBegin(j) ==
  /\ j.op \in {"update", "delete", "approve", "reject"} =>
       j.review \in Reviews /\ review[j.review] # Reviewed!NoReview
  /\ j.op \in {"revise", "withdraw", "accept", "refuse", "edit"} =>
       j.report \in Reports /\ report[j.report] # Reviewed!NoReport
  /\ j.op \in {"insert", "update", "approve", "revise", "accept"} => j.rating \in Ratings
  /\ j.op = "insert" => j.author \in Authors /\ j.site \in OneSite
  /\ j.op = "update" => j.unpublish \in BOOLEAN /\ j.unpublish = review[j.review].published
  /\ j.op \in {"update", "delete", "approve", "reject"} => j.site = review[j.review].site
  /\ j.op \notin {"count", "store"}
  /\ j.op = "approve" => j.rating = review[j.review].rating
  /\ j.op = "revise" => report[j.report].status = "pending"
  /\ j.op = "accept" => j.rating = report[j.report].rating
  /\ j.op = "edit" => /\ j.saw \in Ratings /\ j.saw = report[j.report].rating
                      /\ j.rating \in Ratings \cup {None}
                      /\ j.status \in {"pending", "published", "rejected", None}

LEMMA ChecksBegin ==
  ASSUME ModerationInv, NEW h \in Handlers, Checks(h)
  PROVE  UNCHANGED ReviewRows /\ \E j : Reviewed!Begin(h, j) /\ MayBegin(j)
<1>0. /\ \A r \in Reviews : Reviewed!Shown(r) => review[r] # Reviewed!NoReview /\ review[r] \in Reviewed!Review
      /\ \A r \in Reports : report[r].live => report[r] # Reviewed!NoReport /\ report[r] \in Reviewed!Report
  BY NoRowIsNone DEF ModerationInv, Reviewed!RowsAreTyped, Reviewed!Shown
<1>1. ASSUME NEW u \in Authors, NEW s \in OneSite, NEW rating \in Ratings,
             Reviewed!CheckCreate(h, u, s, rating)
      PROVE  UNCHANGED ReviewRows /\ \E j : Reviewed!Begin(h, j) /\ MayBegin(j)
  <2> DEFINE j == [op |-> "insert", author |-> u, site |-> s, rating |-> rating]
  <2>1. Reviewed!Begin(h, j) /\ UNCHANGED ReviewRows
    BY <1>1 DEF Reviewed!CheckCreate, Reviewed!Reading, ReviewRows
  <2>2. MayBegin(j)
    BY DEF MayBegin
  <2>3. QED
    BY <2>1, <2>2
<1>2. ASSUME NEW r \in Reviews, NEW rating \in Ratings, Reviewed!CheckUpdate(h, r, rating)
      PROVE  UNCHANGED ReviewRows /\ \E j : Reviewed!Begin(h, j) /\ MayBegin(j)
  <2> DEFINE j == [op |-> "update", review |-> r, site |-> review[r].site,
                   rating |-> rating, unpublish |-> review[r].published]
  <2>1. Reviewed!Begin(h, j) /\ UNCHANGED ReviewRows
    BY <1>2 DEF Reviewed!CheckUpdate, Reviewed!Reading, ReviewRows
  <2>2. MayBegin(j)
    BY <1>0, <1>2 DEF Reviewed!CheckUpdate, MayBegin, Reviewed!Review
  <2>3. QED
    BY <2>1, <2>2
<1>3. ASSUME NEW r \in Reviews, Reviewed!CheckDelete(h, r)
      PROVE  UNCHANGED ReviewRows /\ \E j : Reviewed!Begin(h, j) /\ MayBegin(j)
  <2> DEFINE j == [op |-> "delete", review |-> r, site |-> review[r].site]
  <2>1. Reviewed!Begin(h, j) /\ UNCHANGED ReviewRows
    BY <1>3 DEF Reviewed!CheckDelete, Reviewed!Reading, ReviewRows
  <2>2. MayBegin(j)
    BY <1>0, <1>3 DEF Reviewed!CheckDelete, MayBegin
  <2>3. QED
    BY <2>1, <2>2
<1>4. ASSUME NEW r \in Reviews, Reviewed!CheckDecide(h, r)
      PROVE  UNCHANGED ReviewRows /\ \E j : Reviewed!Begin(h, j) /\ MayBegin(j)
  <2> DEFINE j(op) == [op |-> op, review |-> r, site |-> review[r].site,
                       rating |-> review[r].rating]
  <2>1. UNCHANGED ReviewRows /\ \E op \in {"reject", "approve"} : Reviewed!Begin(h, j(op))
    BY <1>4 DEF Reviewed!CheckDecide, Reviewed!Reading, ReviewRows
  <2>2. \A op \in {"reject", "approve"} : MayBegin(j(op))
    BY <1>0, <1>4 DEF Reviewed!CheckDecide, MayBegin, Reviewed!Review
  <2>3. QED
    BY <2>1, <2>2
<1>5. ASSUME NEW r \in Reports, NEW op \in {"revise", "withdraw", "accept", "refuse"},
             NEW rating \in Ratings \cup {report[r].rating},
             op = "accept" => rating = report[r].rating,
             Reviewed!FindReport(h, op, r, rating)
      PROVE  UNCHANGED ReviewRows /\ \E j : Reviewed!Begin(h, j) /\ MayBegin(j)
  <2> DEFINE j == [op |-> op, report |-> r, rating |-> rating]
  <2>1. Reviewed!Begin(h, j) /\ UNCHANGED ReviewRows
    BY <1>5 DEF Reviewed!FindReport, Reviewed!Reading, ReviewRows
  <2>2. rating \in Ratings /\ report[r] # Reviewed!NoReport /\ report[r].status = "pending"
    BY <1>0, <1>5 DEF Reviewed!FindReport, Reviewed!Open, Reviewed!Report
  <2>3. MayBegin(j)
    BY <1>5, <2>2 DEF MayBegin
  <2>4. QED
    BY <2>1, <2>3
<1>6. ASSUME NEW r \in Reports, NEW rating \in Ratings \cup {None},
             NEW status \in {"pending", "published", "rejected", None},
             Reviewed!FindForAdmin(h, r, rating, status)
      PROVE  UNCHANGED ReviewRows /\ \E j : Reviewed!Begin(h, j) /\ MayBegin(j)
  <2> DEFINE j == [op |-> "edit", report |-> r, rating |-> rating, status |-> status,
                   saw |-> report[r].rating]
  <2>1. Reviewed!Begin(h, j) /\ UNCHANGED ReviewRows
    BY <1>6 DEF Reviewed!FindForAdmin, Reviewed!Reading, ReviewRows
  <2>2. report[r] # Reviewed!NoReport /\ report[r].rating \in Ratings
    BY <1>0, <1>6 DEF Reviewed!FindForAdmin, Reviewed!Report
  <2>3. MayBegin(j)
    BY <2>2 DEF MayBegin
  <2>4. QED
    BY <2>1, <2>3
<1>7. QED
  BY <1>1, <1>2, <1>3, <1>4, <1>5, <1>6
  DEF Checks, Reviewed!SiteReviewController, Reviewed!ScamReportController

LEMMA CheckStep ==
  ASSUME ModerationInv, NEW h \in Handlers, Checks(h) PROVE ModerationInv'
<1>1. PICK j : Reviewed!Begin(h, j) /\ MayBegin(j)
  BY ChecksBegin
<1>2. UNCHANGED <<review, report, agreed>>
  BY ChecksBegin DEF ReviewRows
<1>3. job' = [job EXCEPT ![h] = j] /\ job'[h] = j
  BY <1>1 DEF Reviewed!Begin, ModerationInv, Reviewed!JobsAreReal
<1>4. Reviewed!JobIsReal(h)'
  BY <1>1, <1>2, <1>3 DEF MayBegin, Reviewed!JobIsReal
<1>5. QED
  BY <1>2, <1>3, <1>4, QuietStep DEF ReviewRows

-----------------------------------------------------------------------------
(* Steps that write rows *)

\* Rows stay rows, and what is written is at most one review or one report.
RowsStay ==
  /\ \A r \in Reviews : review[r] # Reviewed!NoReview => review'[r] # Reviewed!NoReview
  /\ \A r \in Reports : report[r] # Reviewed!NoReport => report'[r] # Reviewed!NoReport

\* After its write a use case goes on to the statistics, or is done.
Done(h) ==
  \E j : job' = [job EXCEPT ![h] = j] /\ j.op \in {"none", "count", "store"}

LEMMA EndIsDone == ASSUME NEW h \in Handlers, Reviewed!End(h) PROVE Done(h) /\ calm' = calm
<1>1. Reviewed!Resting.op = "none"
  BY DEF Reviewed!Resting
<1>2. QED
  BY <1>1 DEF Reviewed!End, Done

LEMMA ContinueIsDone ==
  ASSUME NEW h \in Handlers, NEW j, j.op \in {"count", "store"}, Reviewed!Continue(h, j)
  PROVE  Done(h) /\ calm' = calm
BY DEF Reviewed!Continue, Done

LEMMA JobsStayReal ==
  ASSUME ModerationInv, (\E h \in Handlers : Done(h)) \/ UNCHANGED job, RowsStay
  PROVE  Reviewed!JobsAreReal'
<1>1. DOMAIN job = Handlers /\ \A g \in Handlers : Reviewed!JobIsReal(g)
  BY DEF ModerationInv, Reviewed!JobsAreReal
<1>2. ASSUME NEW g \in Handlers, job'[g] = job[g] PROVE Reviewed!JobIsReal(g)'
  BY <1>1, <1>2 DEF Reviewed!JobIsReal, RowsStay
<1>3. CASE UNCHANGED job
  BY <1>1, <1>2, <1>3 DEF Reviewed!JobsAreReal
<1>4. ASSUME NEW h \in Handlers, Done(h) PROVE Reviewed!JobsAreReal'
  <2>1. PICK j : job' = [job EXCEPT ![h] = j] /\ j.op \in {"none", "count", "store"}
    BY <1>4 DEF Done
  <2>2. /\ DOMAIN job' = Handlers /\ job'[h] = j
        /\ \A g \in Handlers \ {h} : job'[g] = job[g]
    BY <1>1, <2>1
  <2>3. Reviewed!JobIsReal(h)'
    BY <2>1, <2>2 DEF Reviewed!JobIsReal
  <2>4. QED
    BY <1>2, <2>2, <2>3 DEF Reviewed!JobsAreReal
<1>5. QED
  BY <1>3, <1>4

\* A review is written over one of the same author and site.
LEMMA ReviewStep ==
  ASSUME ModerationInv, NEW h \in Handlers, NEW r \in Reviews, NEW entry \in Reviewed!Review,
         review' = [review EXCEPT ![r] = entry],
         entry.status = "live" => /\ entry.author = review[r].author
                                /\ entry.site = review[r].site
                                /\ Reviewed!Shown(r),
         agreed' \in [Reviews \cup Reports -> Ratings \cup {0}],
         UNCHANGED report, Done(h)
  PROVE  ModerationInv'
<1>0. Reviewed!RowsAreTyped /\ review \in [Reviews -> Reviewed!Review \cup {Reviewed!NoReview}]
  BY DEF ModerationInv, Reviewed!RowsAreTyped
<1>1. Reviewed!RowsAreTyped'
  BY <1>0 DEF Reviewed!RowsAreTyped
<1>2. RowsStay
  BY <1>0, NoRowIsNone DEF RowsStay
<1>3. Reviewed!JobsAreReal'
  BY <1>2, JobsStayReal
<1>4. /\ \A q \in Reviews : Reviewed!Shown(q)' => Reviewed!Shown(q)
      /\ \A q \in Reviews :
           Reviewed!Shown(q)' => /\ review'[q].author = review[q].author
                        /\ review'[q].site = review[q].site
  BY <1>0 DEF Reviewed!Shown
<1>5. Reviewed!OneReviewEach'
  BY <1>4 DEF ModerationInv, Reviewed!OneReviewEach
<1>6. QED
  BY <1>1, <1>3, <1>5 DEF ModerationInv

\* A report is written.
LEMMA ReportStep ==
  ASSUME ModerationInv, NEW r \in Reports, NEW entry \in Reviewed!Report,
         report' = [report EXCEPT ![r] = entry],
         agreed' \in [Reviews \cup Reports -> Ratings \cup {0}],
         UNCHANGED review,
         (\E h \in Handlers : Done(h)) \/ UNCHANGED job
  PROVE  ModerationInv'
<1>1. Reviewed!RowsAreTyped'
  BY DEF ModerationInv, Reviewed!RowsAreTyped
<1>2. RowsStay
  BY NoRowIsNone DEF RowsStay, ModerationInv, Reviewed!RowsAreTyped
<1>3. Reviewed!JobsAreReal'
  BY <1>2, JobsStayReal
<1>4. Reviewed!OneReviewEach'
  BY DEF ModerationInv, Reviewed!OneReviewEach, Reviewed!Shown
<1>5. QED
  BY <1>1, <1>3, <1>4 DEF ModerationInv

\* Nothing is written.
LEMMA NoRowStep ==
  ASSUME ModerationInv, NEW h \in Handlers, Done(h), UNCHANGED ReviewRows PROVE ModerationInv'
<1>1. UNCHANGED <<review, report, agreed>>
  BY DEF ReviewRows
<1>2. RowsStay
  BY <1>1 DEF RowsStay
<1>3. Reviewed!JobsAreReal'
  BY <1>2, JobsStayReal
<1>4. Reviewed!RowsAreTyped' /\ Reviewed!OneReviewEach'
  BY <1>1 DEF ModerationInv, Reviewed!RowsAreTyped, Reviewed!OneReviewEach, Reviewed!Shown
<1>5. QED
  BY <1>3, <1>4 DEF ModerationInv

LEMMA AgreedWritten ==
  ASSUME Reviewed!RowsAreTyped, NEW i \in Reviews \cup Reports, NEW rating \in Ratings
  PROVE  [agreed EXCEPT ![i] = rating] \in [Reviews \cup Reports -> Ratings \cup {0}]
BY DEF Reviewed!RowsAreTyped

\* Every write leaves its use case done, and calm as it was.
LEMMA FinishIsDone ==
  ASSUME NEW h \in Handlers, Reviewed!Finish(h) PROVE Done(h) /\ calm' = calm
<1>1. ASSUME NEW s, Reviewed!Recalculate(h, s) PROVE Done(h) /\ calm' = calm
  BY <1>1, ContinueIsDone DEF Reviewed!Recalculate
<1>2. CASE Reviewed!CountReviews(h)
  BY <1>2, ContinueIsDone DEF Reviewed!CountReviews
<1>3. CASE Reviewed!CreateSiteReview(h) \/ Reviewed!UpdateSiteReview(h) \/ Reviewed!DeleteSiteReview(h)
  BY <1>1, <1>3, EndIsDone DEF Reviewed!CreateSiteReview, Reviewed!UpdateSiteReview,
      Reviewed!DeleteSiteReview
<1>4. CASE Reviewed!ApproveSiteReview(h) \/ Reviewed!RejectSiteReview(h)
  BY <1>1, <1>4, EndIsDone DEF Reviewed!ApproveSiteReview, Reviewed!RejectSiteReview,
      Reviewed!Publish
<1>5. CASE \/ Reviewed!StoreStatistics(h) \/ Reviewed!UpdateScamReport(h) \/ Reviewed!DeleteScamReport(h)
           \/ Reviewed!ApproveScamReport(h) \/ Reviewed!RejectScamReport(h) \/ Reviewed!AdminUpdateScamReport(h)
           \/ Reviewed!Fail(h)
  BY <1>5, EndIsDone DEF Reviewed!StoreStatistics, Reviewed!UpdateScamReport,
      Reviewed!DeleteScamReport, Reviewed!ApproveScamReport, Reviewed!RejectScamReport,
      Reviewed!AdminUpdateScamReport, Reviewed!Fail
<1>6. QED
  BY <1>2, <1>3, <1>4, <1>5 DEF Reviewed!Finish

LEMMA ReviewFinishStep ==
  ASSUME ModerationInv, NEW h \in Handlers,
         \/ Reviewed!UpdateSiteReview(h) \/ Reviewed!DeleteSiteReview(h)
         \/ Reviewed!ApproveSiteReview(h) \/ Reviewed!RejectSiteReview(h),
         Done(h)
  PROVE  ModerationInv'
<1>0. Reviewed!RowsAreTyped /\ agreed \in [Reviews \cup Reports -> Ratings \cup {0}]
  BY DEF ModerationInv, Reviewed!RowsAreTyped
<1>1. PICK r : r = job[h].review
  OBVIOUS
<1>2. r \in Reviews /\ review[r] # Reviewed!NoReview
  BY <1>1 DEF ModerationInv, Reviewed!JobsAreReal, Reviewed!JobIsReal, Reviewed!At,
      Reviewed!UpdateSiteReview, Reviewed!DeleteSiteReview, Reviewed!ApproveSiteReview,
      Reviewed!RejectSiteReview
<1>3. ASSUME NEW entry \in Reviewed!Review, review' = [review EXCEPT ![r] = entry],
             entry.author = review[r].author, entry.site = review[r].site,
             entry.status \in {review[r].status, "deleted"},
             agreed' \in [Reviews \cup Reports -> Ratings \cup {0}],
             UNCHANGED report
      PROVE  ModerationInv'
  BY <1>2, <1>3, ReviewStep DEF Reviewed!Shown
<1>4. CASE Reviewed!UpdateSiteReview(h) /\ Reviewed!Shown(r)
  <2>1. PICK rating \in Ratings : rating = job[h].rating
    BY <1>4 DEF Reviewed!UpdateSiteReview, Reviewed!At, ModerationInv, Reviewed!JobsAreReal,
        Reviewed!JobIsReal
  <2>2. review[r].published \in BOOLEAN
    BY <1>0, <1>2 DEF Reviewed!RowsAreTyped, Reviewed!Review
  <2>3. PICK b \in BOOLEAN : b = Reviewed!PublishedAfterUpdate(r, job[h].unpublish)
    BY <2>2 DEF Reviewed!PublishedAfterUpdate
  <2>4. review' = [review EXCEPT ![r].rating = rating, ![r].published = b]
    BY <1>1, <1>4, <2>1, <2>3 DEF Reviewed!UpdateSiteReview
  <2>5. PICK entry \in Reviewed!Review :
          /\ review' = [review EXCEPT ![r] = entry]
          /\ entry.author = review[r].author /\ entry.site = review[r].site
          /\ entry.status \in {review[r].status, "deleted"}
    BY <1>0, <1>2, <2>1, <2>3, <2>4, ReviewWritten
  <2>6. QED
    BY <1>0, <1>3, <1>4, <2>5 DEF Reviewed!UpdateSiteReview
<1>5. CASE Reviewed!UpdateSiteReview(h) /\ ~Reviewed!Shown(r)
  BY <1>1, <1>5, NoRowStep DEF Reviewed!UpdateSiteReview, ReviewRows
<1>6. CASE Reviewed!DeleteSiteReview(h)
  <2>1. review' = [review EXCEPT ![r].status = "deleted"]
    BY <1>1, <1>6 DEF Reviewed!DeleteSiteReview
  <2>2. PICK rating : rating \in Ratings
    BY <1>0, <1>2 DEF Reviewed!RowsAreTyped, Reviewed!Review
  <2>3. PICK entry \in Reviewed!Review :
          /\ review' = [review EXCEPT ![r] = entry]
          /\ entry.author = review[r].author /\ entry.site = review[r].site
          /\ entry.status \in {review[r].status, "deleted"}
    BY <1>0, <1>2, <2>1, <2>2, ReviewWritten
  <2>4. QED
    BY <1>0, <1>3, <1>6, <2>3 DEF Reviewed!DeleteSiteReview
<1>7. CASE Reviewed!ApproveSiteReview(h) \/ Reviewed!RejectSiteReview(h)
  <2>1. PICK b \in BOOLEAN : review' = [review EXCEPT ![r].published = b]
    BY <1>1, <1>7 DEF Reviewed!ApproveSiteReview, Reviewed!RejectSiteReview, Reviewed!Publish
  <2>2. PICK rating : rating \in Ratings
    BY <1>0, <1>2 DEF Reviewed!RowsAreTyped, Reviewed!Review
  <2>3. PICK entry \in Reviewed!Review :
          /\ review' = [review EXCEPT ![r] = entry]
          /\ entry.author = review[r].author /\ entry.site = review[r].site
          /\ entry.status \in {review[r].status, "deleted"}
    BY <1>0, <1>2, <2>1, <2>2, ReviewWritten
  <2>4. agreed' \in [Reviews \cup Reports -> Ratings \cup {0}]
    <3>1. CASE Reviewed!ApproveSiteReview(h)
      <4>1. job[h].rating \in Ratings
        BY <3>1 DEF Reviewed!ApproveSiteReview, Reviewed!At, ModerationInv,
            Reviewed!JobsAreReal, Reviewed!JobIsReal
      <4>2. QED
        BY <1>0, <1>1, <1>2, <3>1, <4>1, AgreedWritten DEF Reviewed!ApproveSiteReview
    <3>2. CASE Reviewed!RejectSiteReview(h)
      BY <1>0, <3>2 DEF Reviewed!RejectSiteReview
    <3>3. QED
      BY <1>7, <3>1, <3>2
  <2>5. QED
    BY <1>3, <1>7, <2>3, <2>4 DEF Reviewed!ApproveSiteReview, Reviewed!RejectSiteReview,
        Reviewed!Publish
<1>8. QED
  BY <1>4, <1>5, <1>6, <1>7

\* The index is what lets one review in.
LEMMA CreateStep ==
  ASSUME ModerationInv, NEW h \in Handlers, Reviewed!CreateSiteReview(h), Done(h)
  PROVE  ModerationInv'
<1>0. /\ Reviewed!RowsAreTyped /\ review \in [Reviews -> Reviewed!Review \cup {Reviewed!NoReview}]
      /\ agreed \in [Reviews \cup Reports -> Ratings \cup {0}]
      /\ Reviewed!OneReviewEach
  BY DEF ModerationInv, Reviewed!RowsAreTyped
<1>1. PICK u \in Authors, s \in OneSite, rating \in Ratings :
        u = job[h].author /\ s = job[h].site /\ rating = job[h].rating
  BY DEF Reviewed!CreateSiteReview, Reviewed!At, ModerationInv, Reviewed!JobsAreReal,
      Reviewed!JobIsReal
<1>2. CASE Reviewed!Taken(u, s)
  BY <1>1, <1>2, NoRowStep DEF Reviewed!CreateSiteReview, ReviewRows
<1>3. CASE ~Reviewed!Taken(u, s)
  <2> DEFINE entry == [status |-> "live", author |-> u, site |-> s,
                     rating |-> rating, published |-> TRUE]
  <2>1. PICK r \in Reviews :
          /\ review[r] = Reviewed!NoReview
          /\ review' = [review EXCEPT ![r] = entry]
          /\ agreed' = [agreed EXCEPT ![r] = rating]
          /\ UNCHANGED report
    BY <1>1, <1>3 DEF Reviewed!CreateSiteReview
  <2>2. entry \in Reviewed!Review /\ entry.author = u /\ entry.site = s
    BY DEF Reviewed!Review
  <2>3. Reviewed!RowsAreTyped'
    BY <1>0, <2>1, <2>2 DEF Reviewed!RowsAreTyped
  <2>4. RowsStay
    BY <1>0, <2>1, <2>2, NoRowIsNone DEF RowsStay
  <2>5. Reviewed!JobsAreReal'
    BY <2>4, JobsStayReal
  <2>6. \A q \in Reviews \ {r} :
          /\ review'[q] = review[q]
          /\ Reviewed!Shown(q) => ~(review[q].author = u /\ review[q].site = s)
    BY <1>0, <1>3, <2>1 DEF Reviewed!Taken, Reviewed!Shown
  <2>7. review'[r].author = u /\ review'[r].site = s
    BY <1>0, <2>1, <2>2
  <2>8. Reviewed!OneReviewEach'
    BY <1>0, <2>6, <2>7 DEF Reviewed!OneReviewEach, Reviewed!Shown
  <2>9. QED
    BY <2>3, <2>5, <2>8 DEF ModerationInv
<1>4. QED
  BY <1>2, <1>3

\* Written in one piece, a record is of a report again.
LEMMA ReportWritten ==
  ASSUME Reviewed!RowsAreTyped, NEW r \in Reports, report[r] # Reviewed!NoReport,
         NEW status \in {"pending", "published", "rejected"}, NEW rating \in Ratings,
         \/ report' = [report EXCEPT ![r].live = FALSE]
         \/ report' = [report EXCEPT ![r].status = status]
         \/ report' = [report EXCEPT ![r].rating = rating]
         \/ report' = [report EXCEPT ![r].rating = rating, ![r].status = status]
  PROVE  \E entry \in Reviewed!Report : report' = [report EXCEPT ![r] = entry]
<1>1. report[r] \in Reviewed!Report
  BY DEF Reviewed!RowsAreTyped
<1>2. /\ [report[r] EXCEPT !.live = FALSE] \in Reviewed!Report
      /\ [report[r] EXCEPT !.status = status] \in Reviewed!Report
      /\ [report[r] EXCEPT !.rating = rating] \in Reviewed!Report
      /\ [report[r] EXCEPT !.rating = rating, !.status = status] \in Reviewed!Report
  BY <1>1 DEF Reviewed!Report
<1>3. \/ report' = [report EXCEPT ![r] = [report[r] EXCEPT !.live = FALSE]]
      \/ report' = [report EXCEPT ![r] = [report[r] EXCEPT !.status = status]]
      \/ report' = [report EXCEPT ![r] = [report[r] EXCEPT !.rating = rating]]
      \/ report' = [report EXCEPT ![r] =
                      [report[r] EXCEPT !.rating = rating, !.status = status]]
  BY <1>1 DEF Reviewed!RowsAreTyped
<1>4. QED
  BY <1>2, <1>3

LEMMA ReportFinishStep ==
  ASSUME ModerationInv, NEW h \in Handlers,
         \/ Reviewed!UpdateScamReport(h) \/ Reviewed!DeleteScamReport(h)
         \/ Reviewed!ApproveScamReport(h) \/ Reviewed!RejectScamReport(h) \/ Reviewed!AdminUpdateScamReport(h),
         Done(h)
  PROVE  ModerationInv'
<1>0. Reviewed!RowsAreTyped /\ agreed \in [Reviews \cup Reports -> Ratings \cup {0}]
  BY DEF ModerationInv, Reviewed!RowsAreTyped
<1>1. PICK r : r = job[h].report
  OBVIOUS
<1>2. r \in Reports /\ report[r] # Reviewed!NoReport
  BY <1>1 DEF ModerationInv, Reviewed!JobsAreReal, Reviewed!JobIsReal, Reviewed!At,
      Reviewed!UpdateScamReport, Reviewed!DeleteScamReport, Reviewed!ApproveScamReport,
      Reviewed!RejectScamReport, Reviewed!AdminUpdateScamReport
<1>3. report[r].rating \in Ratings /\ report[r].status \in {"pending", "published", "rejected"}
  BY <1>0, <1>2 DEF Reviewed!RowsAreTyped, Reviewed!Report
<1>4. ASSUME NEW status \in {"pending", "published", "rejected"}, NEW rating \in Ratings,
             \/ report' = [report EXCEPT ![r].live = FALSE]
             \/ report' = [report EXCEPT ![r].status = status]
             \/ report' = [report EXCEPT ![r].rating = rating]
             \/ report' = [report EXCEPT ![r].rating = rating, ![r].status = status],
             agreed' \in [Reviews \cup Reports -> Ratings \cup {0}],
             UNCHANGED review
      PROVE  ModerationInv'
  <2>1. PICK entry \in Reviewed!Report : report' = [report EXCEPT ![r] = entry]
    BY <1>0, <1>2, <1>4, ReportWritten
  <2>2. QED
    BY <1>2, <1>4, <2>1, ReportStep
<1>5. CASE Reviewed!UpdateScamReport(h)
  <2>1. PICK rating \in Ratings : rating = job[h].rating
    BY <1>5 DEF Reviewed!UpdateScamReport, Reviewed!At, ModerationInv, Reviewed!JobsAreReal,
        Reviewed!JobIsReal
  <2>2. report' = [report EXCEPT ![r].rating = rating]
    BY <1>1, <1>5, <2>1 DEF Reviewed!UpdateScamReport
  <2>3. QED
    BY <1>0, <1>3, <1>4, <1>5, <2>2 DEF Reviewed!UpdateScamReport
<1>6. CASE Reviewed!DeleteScamReport(h)
  <2>1. report' = [report EXCEPT ![r].live = FALSE]
    BY <1>1, <1>6 DEF Reviewed!DeleteScamReport
  <2>2. QED
    BY <1>0, <1>3, <1>4, <1>6, <2>1 DEF Reviewed!DeleteScamReport
<1>7. CASE Reviewed!ApproveScamReport(h)
  <2>1. job[h].rating \in Ratings
    BY <1>7 DEF Reviewed!ApproveScamReport, Reviewed!At, ModerationInv, Reviewed!JobsAreReal,
        Reviewed!JobIsReal
  <2>2. agreed' \in [Reviews \cup Reports -> Ratings \cup {0}]
    BY <1>0, <1>1, <1>2, <1>7, <2>1, AgreedWritten DEF Reviewed!ApproveScamReport
  <2>3. report' = [report EXCEPT ![r].status = "published"]
    BY <1>1, <1>7 DEF Reviewed!ApproveScamReport
  <2>4. QED
    BY <1>3, <1>4, <1>7, <2>2, <2>3 DEF Reviewed!ApproveScamReport
<1>8. CASE Reviewed!RejectScamReport(h)
  <2>1. report' = [report EXCEPT ![r].status = "rejected"]
    BY <1>1, <1>8 DEF Reviewed!RejectScamReport
  <2>2. QED
    BY <1>0, <1>3, <1>4, <1>8, <2>1 DEF Reviewed!RejectScamReport
<1>9. CASE Reviewed!AdminUpdateScamReport(h)
  <2>1. PICK j : j = job[h]
    OBVIOUS
  <2>2. /\ j.saw \in Ratings
        /\ j.rating \in Ratings \cup {None}
        /\ j.status \in {"pending", "published", "rejected", None}
    BY <1>9, <2>1 DEF Reviewed!AdminUpdateScamReport, Reviewed!At, ModerationInv,
        Reviewed!JobsAreReal, Reviewed!JobIsReal
  <2>3. PICK rating \in Ratings :
          rating = IF j.rating = None THEN report[r].rating ELSE j.rating
    BY <1>3, <2>2
  <2>4. PICK status \in {"pending", "published", "rejected"} :
          status = IF j.status = None THEN report[r].status ELSE j.status
    BY <1>3, <2>2
  <2>5. report' = [report EXCEPT ![r].rating = rating, ![r].status = status]
    BY <1>1, <1>9, <2>1, <2>3, <2>4 DEF Reviewed!AdminUpdateScamReport
  <2>6. PICK text \in Ratings : text = IF j.rating = None THEN j.saw ELSE j.rating
    BY <2>2
  <2>7. agreed' = [agreed EXCEPT ![r] = text]
    BY <1>1, <1>9, <2>1, <2>6 DEF Reviewed!AdminUpdateScamReport
  <2>8. agreed' \in [Reviews \cup Reports -> Ratings \cup {0}]
    BY <1>0, <1>2, <2>7, AgreedWritten
  <2>9. QED
    BY <1>4, <1>9, <2>5, <2>8 DEF Reviewed!AdminUpdateScamReport
<1>10. QED
  BY <1>5, <1>6, <1>7, <1>8, <1>9

LEMMA FinishStep ==
  ASSUME ModerationInv, NEW h \in Handlers, Reviewed!Finish(h) PROVE ModerationInv'
<1>1. Done(h)
  BY FinishIsDone
<1>2. CASE Reviewed!CreateSiteReview(h)
  BY <1>1, <1>2, CreateStep
<1>3. CASE \/ Reviewed!UpdateSiteReview(h) \/ Reviewed!DeleteSiteReview(h)
           \/ Reviewed!ApproveSiteReview(h) \/ Reviewed!RejectSiteReview(h)
  BY <1>1, <1>3, ReviewFinishStep
<1>4. CASE \/ Reviewed!UpdateScamReport(h) \/ Reviewed!DeleteScamReport(h)
           \/ Reviewed!ApproveScamReport(h) \/ Reviewed!RejectScamReport(h) \/ Reviewed!AdminUpdateScamReport(h)
  BY <1>1, <1>4, ReportFinishStep
<1>5. CASE Reviewed!CountReviews(h) \/ Reviewed!StoreStatistics(h) \/ Reviewed!Fail(h)
  <2>1. UNCHANGED ReviewRows
    BY <1>5 DEF Reviewed!CountReviews, Reviewed!StoreStatistics, Reviewed!Fail, ReviewRows
  <2>2. QED
    BY <1>1, <2>1, NoRowStep
<1>6. QED
  BY <1>2, <1>3, <1>4, <1>5 DEF Reviewed!Finish

\* Reports that are created or deleted in one statement.
LEMMA StatementStep ==
  ASSUME ModerationInv, Reviewed!AtOnceReports PROVE ModerationInv'
<1>0. Reviewed!RowsAreTyped /\ agreed \in [Reviews \cup Reports -> Ratings \cup {0}]
  BY DEF ModerationInv, Reviewed!RowsAreTyped
<1>1. ASSUME NEW r \in Reports, Reviewed!AdminDeleteScamReport(r) PROVE ModerationInv'
  <2>1. report[r] # Reviewed!NoReport /\ report[r] \in Reviewed!Report
    BY <1>0, <1>1, NoRowIsNone DEF Reviewed!AdminDeleteScamReport, Reviewed!RowsAreTyped
  <2>2. PICK rating : rating \in Ratings
    BY <2>1 DEF Reviewed!Report
  <2>3. PICK entry \in Reviewed!Report : report' = [report EXCEPT ![r] = entry]
    BY <1>0, <1>1, <2>1, <2>2, ReportWritten DEF Reviewed!AdminDeleteScamReport
  <2>4. QED
    BY <1>0, <1>1, <2>3, ReportStep DEF Reviewed!AdminDeleteScamReport, Reviewed!AtOnce
<1>2. ASSUME NEW r \in Reports, NEW rating \in Ratings, Reviewed!CreateScamReport(r, rating)
      PROVE  ModerationInv'
  <2> DEFINE entry == [live |-> TRUE, status |-> "pending", rating |-> rating]
  <2>1. entry \in Reviewed!Report /\ report' = [report EXCEPT ![r] = entry]
    BY <1>2 DEF Reviewed!CreateScamReport, Reviewed!Report
  <2>2. QED
    BY <1>0, <1>2, <2>1, ReportStep DEF Reviewed!CreateScamReport, Reviewed!AtOnce
<1>3. ASSUME NEW r \in Reports, NEW rating \in Ratings,
             NEW status \in {"pending", "published", "rejected"},
             Reviewed!AdminCreateScamReport(r, rating, status)
      PROVE  ModerationInv'
  <2> DEFINE entry == [live |-> TRUE, status |-> status, rating |-> rating]
  <2>1. entry \in Reviewed!Report /\ report' = [report EXCEPT ![r] = entry]
    BY <1>3 DEF Reviewed!AdminCreateScamReport, Reviewed!Report
  <2>2. agreed' \in [Reviews \cup Reports -> Ratings \cup {0}]
    BY <1>0, <1>3, AgreedWritten DEF Reviewed!AdminCreateScamReport
  <2>3. QED
    BY <1>3, <2>1, <2>2, ReportStep DEF Reviewed!AdminCreateScamReport, Reviewed!AtOnce
<1>4. QED
  BY <1>1, <1>2, <1>3 DEF Reviewed!AtOnceReports

-----------------------------------------------------------------------------
(* The invariant *)

LEMMA ModerationInit == ASSUME Reviewed!Init PROVE ModerationInv
<1>1. Reviewed!RowsAreTyped
  BY DEF Reviewed!Init, Reviewed!RowsAreTyped
<1>2. DOMAIN job = Handlers /\ \A h \in Handlers : job[h].op = "none"
  BY DEF Reviewed!Init, Reviewed!NoJobs, Reviewed!Resting
<1>3. Reviewed!JobsAreReal
  BY <1>2 DEF Reviewed!JobsAreReal, Reviewed!JobIsReal
<1>4. \A r \in Reviews : ~Reviewed!Shown(r)
  BY NoRowIsNone DEF Reviewed!Init, Reviewed!Shown
<1>5. QED
  BY <1>1, <1>3, <1>4 DEF ModerationInv, Reviewed!OneReviewEach

LEMMA ModerationStep == ASSUME ModerationInv, [Reviewed!Next]_(Reviewed!vars) PROVE ModerationInv'
<1>1. CASE UNCHANGED Reviewed!vars
  BY <1>1 DEF Reviewed!vars, ModerationInv, Reviewed!RowsAreTyped, Reviewed!JobsAreReal,
      Reviewed!JobIsReal, Reviewed!OneReviewEach, Reviewed!Shown
<1>2. ASSUME NEW h \in Handlers, Checks(h) \/ Reviewed!Finish(h) PROVE ModerationInv'
  BY <1>2, CheckStep, FinishStep
<1>3. CASE Reviewed!AtOnceReports
  BY <1>3, StatementStep
<1>4. QED
  BY <1>1, <1>2, <1>3 DEF Reviewed!Next, Checks

LEMMA ModerationInvHolds == Reviewed!Spec => []ModerationInv
<1>1. Reviewed!Init => ModerationInv
  BY ModerationInit
<1>2. ModerationInv /\ [Reviewed!Next]_(Reviewed!vars) => ModerationInv'
  BY ModerationStep
<1>3. QED
  BY <1>1, <1>2, PTL DEF Reviewed!Spec

-----------------------------------------------------------------------------
(* While use cases do not overlap *)

LEMMA CalmCheck ==
  ASSUME ModerationInv, AgreementInv, NEW h \in Handlers, Checks(h), calm' PROVE AgreementInv'
<1>1. PICK j : Reviewed!Begin(h, j) /\ MayBegin(j)
  BY ChecksBegin
<1>2. UNCHANGED <<review, report, agreed>>
  BY ChecksBegin DEF ReviewRows
<1>3. /\ job'[h] = j
      /\ calm /\ \A g \in Handlers : Reviewed!Idle(g)
      /\ \A g \in Handlers \ {h} : job'[g] = job[g]
  BY <1>1, BeginJob DEF ModerationInv, Reviewed!JobsAreReal
<1>4. ReviewsAgreed' /\ ReportsAgreed'
  BY <1>2, <1>3 DEF AgreementInv, ReviewsAgreed, ReportsAgreed, Reviewed!Shown
<1>5. \A g \in Handlers \ {h} : Reviewed!Idle(g)' /\ job'[g].op = "none"
  BY <1>3 DEF Reviewed!Idle, Reviewed!Resting
<1>6. Reviewed!ReadsStand(h)'
  BY <1>1, <1>2, <1>3 DEF Reviewed!ReadsStand, MayBegin
<1>7. \A g \in Handlers \ {h} : Reviewed!ReadsStand(g)'
  BY <1>5 DEF Reviewed!ReadsStand
<1>8. Reviewed!ChecksStand'
  BY <1>5, <1>6, <1>7 DEF Reviewed!ChecksStand
<1>9. QED
  BY <1>4, <1>8 DEF AgreementInv

LEMMA FinishIsBusy == ASSUME NEW h \in Handlers, Reviewed!Finish(h) PROVE ~Reviewed!Idle(h)
<1>1. CASE Reviewed!Fail(h)
  BY <1>1 DEF Reviewed!Fail
<1>2. CASE ~Reviewed!Fail(h)
  <2>1. job[h].op # "none"
    BY <1>2 DEF Reviewed!Finish, Reviewed!CreateSiteReview, Reviewed!UpdateSiteReview,
        Reviewed!DeleteSiteReview, Reviewed!ApproveSiteReview, Reviewed!RejectSiteReview,
        Reviewed!CountReviews, Reviewed!StoreStatistics, Reviewed!UpdateScamReport,
        Reviewed!DeleteScamReport, Reviewed!ApproveScamReport, Reviewed!RejectScamReport,
        Reviewed!AdminUpdateScamReport, Reviewed!At
  <2>2. QED
    BY <2>1 DEF Reviewed!Idle, Reviewed!Resting
<1>3. QED
  BY <1>1, <1>2

\* When the one use case in progress has written, nobody has read anything.
LEMMA CalmDone ==
  ASSUME ModerationInv, AgreementInv, NEW h \in Handlers, Reviewed!Finish(h), calm'
  PROVE  calm /\ Reviewed!ReadsStand(h) /\ ReviewsAgreed /\ ReportsAgreed /\ Reviewed!ChecksStand'
<1>1. calm /\ Done(h)
  BY FinishIsDone
<1>2. ~Reviewed!Idle(h)
  BY FinishIsBusy
<1>3. PICK j : job' = [job EXCEPT ![h] = j] /\ j.op \in {"none", "count", "store"}
  BY <1>1 DEF Done
<1>4. job'[h] = j /\ \A g \in Handlers \ {h} : job'[g] = job[g]
  BY <1>3 DEF ModerationInv, Reviewed!JobsAreReal
<1>5. \A g \in Handlers \ {h} : Reviewed!Idle(g)' /\ job'[g].op = "none"
  BY <1>1, <1>2, <1>4 DEF AgreementInv, Reviewed!ChecksStand, Reviewed!Idle, Reviewed!Resting
<1>6. \A g \in Handlers : Reviewed!ReadsStand(g)'
  BY <1>3, <1>4, <1>5 DEF Reviewed!ReadsStand
<1>7. Reviewed!ChecksStand'
  BY <1>5, <1>6 DEF Reviewed!ChecksStand
<1>8. QED
  BY <1>1, <1>7 DEF AgreementInv, Reviewed!ChecksStand

\* Writes of reviews: an update takes a published review back, an approval is of
\* the rating that was read.
LEMMA CalmReviews ==
  ASSUME Reviewed!IdsDiffer, ModerationInv, ReviewsAgreed,
         NEW h \in Handlers, Reviewed!Finish(h), Reviewed!ReadsStand(h)
  PROVE  ReviewsAgreed'
<1>0. /\ review \in [Reviews -> Reviewed!Review \cup {Reviewed!NoReview}]
      /\ agreed \in [Reviews \cup Reports -> Ratings \cup {0}]
      /\ Reviewed!JobIsReal(h)
  BY DEF ModerationInv, Reviewed!RowsAreTyped, Reviewed!JobsAreReal
<1>1. ASSUME UNCHANGED <<review, agreed>> PROVE ReviewsAgreed'
  BY <1>1 DEF ReviewsAgreed, Reviewed!Shown
\* The others keep what they are; review r is hidden, or agrees.
<1>2. ASSUME NEW r \in Reviews,
             \A q \in Reviews \ {r} : review'[q] = review[q] /\ agreed'[q] = agreed[q],
             Reviewed!Shown(r)' /\ review'[r].published => review'[r].rating = agreed'[r]
      PROVE  ReviewsAgreed'
  BY <1>2 DEF ReviewsAgreed, Reviewed!Shown
<1>3. CASE Reviewed!CreateSiteReview(h)
  <2>1. CASE UNCHANGED <<review, agreed>>
    BY <1>1, <2>1
  <2>2. ASSUME NEW r \in Reviews,
               review' = [review EXCEPT ![r] =
                 [status |-> "live", author |-> job[h].author, site |-> job[h].site,
                  rating |-> job[h].rating, published |-> TRUE]],
               agreed' = [agreed EXCEPT ![r] = job[h].rating]
        PROVE  ReviewsAgreed'
    <3>1. /\ \A q \in Reviews \ {r} : review'[q] = review[q] /\ agreed'[q] = agreed[q]
          /\ review'[r].rating = job[h].rating /\ agreed'[r] = job[h].rating
      BY <1>0, <2>2
    <3>2. QED
      BY <1>2, <3>1
  <2>3. QED
    BY <1>3, <2>1, <2>2 DEF Reviewed!CreateSiteReview
<1>4. CASE Reviewed!UpdateSiteReview(h) /\ ~Reviewed!Shown(job[h].review)
  BY <1>1, <1>4 DEF Reviewed!UpdateSiteReview
<1>5. CASE \/ Reviewed!UpdateSiteReview(h) /\ Reviewed!Shown(job[h].review)
           \/ Reviewed!DeleteSiteReview(h) \/ Reviewed!ApproveSiteReview(h) \/ Reviewed!RejectSiteReview(h)
  <2>1. PICK r : r = job[h].review
    OBVIOUS
  <2>2. r \in Reviews /\ review[r] \in Reviewed!Review
    BY <1>0, <1>5, <2>1 DEF Reviewed!JobIsReal, Reviewed!At, Reviewed!UpdateSiteReview,
        Reviewed!DeleteSiteReview, Reviewed!ApproveSiteReview, Reviewed!RejectSiteReview
  <2>3. CASE Reviewed!UpdateSiteReview(h) /\ Reviewed!Shown(job[h].review)
    <3>1. job[h].unpublish = review[r].published
      BY <2>1, <2>3 DEF Reviewed!UpdateSiteReview, Reviewed!At, Reviewed!ReadsStand
    <3>2. Reviewed!PublishedAfterUpdate(r, job[h].unpublish) = FALSE
      BY <2>2, <3>1 DEF Reviewed!PublishedAfterUpdate, Reviewed!Review
    <3>3. PICK rating : review' = [review EXCEPT ![r].rating = rating, ![r].published = FALSE]
      BY <2>1, <2>3, <3>2 DEF Reviewed!UpdateSiteReview
    <3>4. /\ \A q \in Reviews \ {r} : review'[q] = review[q]
          /\ review'[r].published = FALSE
      BY <1>0, <2>2, <3>3 DEF Reviewed!Review
    <3>5. QED
      BY <1>2, <2>2, <2>3, <3>4 DEF Reviewed!UpdateSiteReview
  <2>4. CASE Reviewed!DeleteSiteReview(h)
    <3>1. /\ \A q \in Reviews \ {r} : review'[q] = review[q]
          /\ review'[r].status = "deleted"
      BY <1>0, <2>1, <2>2, <2>4 DEF Reviewed!DeleteSiteReview, Reviewed!Review
    <3>2. QED
      BY <1>2, <2>2, <2>4, <3>1 DEF Reviewed!DeleteSiteReview, Reviewed!Shown
  <2>5. CASE Reviewed!ApproveSiteReview(h)
    <3>1. job[h].rating = review[r].rating
      BY <2>1, <2>5 DEF Reviewed!ApproveSiteReview, Reviewed!At, Reviewed!ReadsStand
    <3>2. /\ \A q \in Reviews \ {r} : review'[q] = review[q]
          /\ review'[r].rating = review[r].rating
      BY <1>0, <2>1, <2>2, <2>5 DEF Reviewed!ApproveSiteReview, Reviewed!Publish,
          Reviewed!Review
    <3>3. /\ \A q \in Reviews \ {r} : agreed'[q] = agreed[q]
          /\ agreed'[r] = job[h].rating
      BY <1>0, <2>1, <2>2, <2>5 DEF Reviewed!ApproveSiteReview
    <3>4. QED
      BY <1>2, <2>2, <3>1, <3>2, <3>3
  <2>6. CASE Reviewed!RejectSiteReview(h)
    <3>1. /\ \A q \in Reviews \ {r} : review'[q] = review[q]
          /\ review'[r].published = FALSE
      BY <1>0, <2>1, <2>2, <2>6 DEF Reviewed!RejectSiteReview, Reviewed!Publish, Reviewed!Review
    <3>2. QED
      BY <1>2, <2>2, <2>6, <3>1 DEF Reviewed!RejectSiteReview
  <2>7. QED
    BY <1>5, <2>3, <2>4, <2>5, <2>6
<1>6. CASE \/ Reviewed!UpdateScamReport(h) \/ Reviewed!DeleteScamReport(h) \/ Reviewed!RejectScamReport(h)
           \/ Reviewed!CountReviews(h) \/ Reviewed!StoreStatistics(h) \/ Reviewed!Fail(h)
  BY <1>1, <1>6 DEF Reviewed!UpdateScamReport, Reviewed!DeleteScamReport,
      Reviewed!RejectScamReport, Reviewed!CountReviews, Reviewed!StoreStatistics, Reviewed!Fail
\* A report's rating is none of a review's.
<1>7. CASE Reviewed!ApproveScamReport(h) \/ Reviewed!AdminUpdateScamReport(h)
  <2>1. job[h].report \in Reports \ Reviews
    BY <1>0, <1>7 DEF Reviewed!ApproveScamReport, Reviewed!AdminUpdateScamReport, Reviewed!At,
        Reviewed!JobIsReal, Reviewed!IdsDiffer
  <2>2. UNCHANGED review /\ \A q \in Reviews : agreed'[q] = agreed[q]
    BY <1>0, <1>7, <2>1 DEF Reviewed!ApproveScamReport, Reviewed!AdminUpdateScamReport
  <2>3. QED
    BY <2>2 DEF ReviewsAgreed, Reviewed!Shown
<1>8. QED
  BY <1>3, <1>4, <1>5, <1>6, <1>7 DEF Reviewed!Finish

\* Writes of reports: only a pending one is revised, what is accepted is what
\* was read, and an administrator's edit agrees with itself.
LEMMA CalmReports ==
  ASSUME Reviewed!IdsDiffer, ModerationInv, ReportsAgreed,
         NEW h \in Handlers, Reviewed!Finish(h), Reviewed!ReadsStand(h)
  PROVE  ReportsAgreed'
<1>0. /\ report \in [Reports -> Reviewed!Report \cup {Reviewed!NoReport}]
      /\ agreed \in [Reviews \cup Reports -> Ratings \cup {0}]
      /\ Reviewed!JobIsReal(h)
  BY DEF ModerationInv, Reviewed!RowsAreTyped, Reviewed!JobsAreReal
<1>1. ASSUME UNCHANGED report, \A q \in Reports : agreed'[q] = agreed[q]
      PROVE  ReportsAgreed'
  BY <1>1 DEF ReportsAgreed
<1>2. ASSUME NEW r \in Reports,
             \A q \in Reports \ {r} : report'[q] = report[q] /\ agreed'[q] = agreed[q],
             report'[r].live /\ report'[r].status = "published" =>
               report'[r].rating = agreed'[r]
      PROVE  ReportsAgreed'
  BY <1>2 DEF ReportsAgreed
<1>3. CASE Reviewed!CreateSiteReview(h)
  <2>1. UNCHANGED report /\ \A q \in Reports : agreed'[q] = agreed[q]
    BY <1>0, <1>3 DEF Reviewed!CreateSiteReview, Reviewed!IdsDiffer
  <2>2. QED
    BY <1>1, <2>1
<1>4. CASE Reviewed!ApproveSiteReview(h)
  <2>1. job[h].review \in Reviews
    BY <1>0, <1>4 DEF Reviewed!ApproveSiteReview, Reviewed!At, Reviewed!JobIsReal
  <2>2. UNCHANGED report /\ \A q \in Reports : agreed'[q] = agreed[q]
    BY <1>0, <1>4, <2>1 DEF Reviewed!ApproveSiteReview, Reviewed!Publish, Reviewed!IdsDiffer
  <2>3. QED
    BY <1>1, <2>2
<1>5. CASE \/ Reviewed!UpdateSiteReview(h) \/ Reviewed!DeleteSiteReview(h) \/ Reviewed!RejectSiteReview(h)
           \/ Reviewed!CountReviews(h) \/ Reviewed!StoreStatistics(h) \/ Reviewed!Fail(h)
  BY <1>1, <1>5 DEF Reviewed!UpdateSiteReview, Reviewed!DeleteSiteReview,
      Reviewed!RejectSiteReview, Reviewed!Publish, Reviewed!CountReviews,
      Reviewed!StoreStatistics, Reviewed!Fail
<1>6. CASE \/ Reviewed!UpdateScamReport(h) \/ Reviewed!DeleteScamReport(h)
           \/ Reviewed!ApproveScamReport(h) \/ Reviewed!RejectScamReport(h) \/ Reviewed!AdminUpdateScamReport(h)
  <2>1. PICK r : r = job[h].report
    OBVIOUS
  <2>2. r \in Reports /\ report[r] \in Reviewed!Report
    BY <1>0, <1>6, <2>1 DEF Reviewed!JobIsReal, Reviewed!At, Reviewed!UpdateScamReport,
        Reviewed!DeleteScamReport, Reviewed!ApproveScamReport, Reviewed!RejectScamReport,
        Reviewed!AdminUpdateScamReport
  <2>3. CASE Reviewed!UpdateScamReport(h)
    <3>1. report[r].status = "pending"
      BY <2>1, <2>3 DEF Reviewed!UpdateScamReport, Reviewed!At, Reviewed!ReadsStand
    <3>2. /\ \A q \in Reports \ {r} : report'[q] = report[q]
          /\ report'[r].status = report[r].status
      BY <1>0, <2>1, <2>2, <2>3 DEF Reviewed!UpdateScamReport, Reviewed!Report
    <3>3. QED
      BY <1>2, <2>2, <2>3, <3>1, <3>2 DEF Reviewed!UpdateScamReport
  <2>4. CASE Reviewed!DeleteScamReport(h)
    <3>1. /\ \A q \in Reports \ {r} : report'[q] = report[q]
          /\ report'[r].live = FALSE
      BY <1>0, <2>1, <2>2, <2>4 DEF Reviewed!DeleteScamReport, Reviewed!Report
    <3>2. QED
      BY <1>2, <2>2, <2>4, <3>1 DEF Reviewed!DeleteScamReport
  <2>5. CASE Reviewed!ApproveScamReport(h)
    <3>1. job[h].rating = report[r].rating
      BY <2>1, <2>5 DEF Reviewed!ApproveScamReport, Reviewed!At, Reviewed!ReadsStand
    <3>2. /\ \A q \in Reports \ {r} : report'[q] = report[q]
          /\ report'[r].rating = report[r].rating
      BY <1>0, <2>1, <2>2, <2>5 DEF Reviewed!ApproveScamReport, Reviewed!Report
    <3>3. /\ \A q \in Reports \ {r} : agreed'[q] = agreed[q]
          /\ agreed'[r] = job[h].rating
      BY <1>0, <2>1, <2>2, <2>5 DEF Reviewed!ApproveScamReport
    <3>4. QED
      BY <1>2, <2>2, <3>1, <3>2, <3>3
  <2>6. CASE Reviewed!RejectScamReport(h)
    <3>1. /\ \A q \in Reports \ {r} : report'[q] = report[q]
          /\ report'[r].status = "rejected"
      BY <1>0, <2>1, <2>2, <2>6 DEF Reviewed!RejectScamReport, Reviewed!Report
    <3>2. QED
      BY <1>2, <2>2, <2>6, <3>1 DEF Reviewed!RejectScamReport
  <2>7. CASE Reviewed!AdminUpdateScamReport(h)
    <3>1. PICK text : text = IF job[h].rating = None THEN job[h].saw ELSE job[h].rating
      OBVIOUS
    <3>2. job[h].saw = report[r].rating
      BY <2>1, <2>7 DEF Reviewed!AdminUpdateScamReport, Reviewed!At, Reviewed!ReadsStand
    <3>3. PICK status :
            report' = [report EXCEPT ![r].rating = text, ![r].status = status]
      BY <2>1, <2>7, <3>1, <3>2 DEF Reviewed!AdminUpdateScamReport
    <3>4. agreed' = [agreed EXCEPT ![r] = text]
      BY <2>1, <2>7, <3>1 DEF Reviewed!AdminUpdateScamReport
    <3>5. /\ \A q \in Reports \ {r} : report'[q] = report[q] /\ agreed'[q] = agreed[q]
          /\ report'[r].rating = text /\ agreed'[r] = text
      BY <1>0, <2>2, <3>3, <3>4 DEF Reviewed!Report
    <3>6. QED
      BY <1>2, <2>2, <3>5
  <2>8. QED
    BY <1>6, <2>3, <2>4, <2>5, <2>6, <2>7
<1>7. QED
  BY <1>3, <1>4, <1>5, <1>6 DEF Reviewed!Finish

\* A statement among handlers at rest: new reports agree, one that goes is not shown.
LEMMA CalmStatement ==
  ASSUME Reviewed!IdsDiffer, ModerationInv, AgreementInv, Reviewed!AtOnceReports, calm' PROVE AgreementInv'
<1>0. /\ report \in [Reports -> Reviewed!Report \cup {Reviewed!NoReport}]
      /\ agreed \in [Reviews \cup Reports -> Ratings \cup {0}]
  BY DEF ModerationInv, Reviewed!RowsAreTyped
<1>1. Reviewed!AtOnce /\ UNCHANGED review
  BY DEF Reviewed!AtOnceReports, Reviewed!AdminDeleteScamReport, Reviewed!CreateScamReport,
      Reviewed!AdminCreateScamReport
<1>2. calm /\ UNCHANGED job /\ \A g \in Handlers : Reviewed!Idle(g)
  BY <1>1, Zenon DEF Reviewed!AtOnce
<1>3. Reviewed!ChecksStand'
  <2>1. \A g \in Handlers : Reviewed!Idle(g)' /\ job'[g].op = "none"
    BY <1>2 DEF Reviewed!Idle, Reviewed!Resting
  <2>2. QED
    BY <2>1 DEF Reviewed!ChecksStand, Reviewed!ReadsStand
<1>4. ReviewsAgreed /\ ReportsAgreed
  BY <1>2 DEF AgreementInv
<1>5. ReviewsAgreed'
  <2>1. \A q \in Reviews : agreed'[q] = agreed[q]
    BY <1>0 DEF Reviewed!AtOnceReports, Reviewed!AdminDeleteScamReport,
        Reviewed!CreateScamReport, Reviewed!AdminCreateScamReport, Reviewed!IdsDiffer
  <2>2. QED
    BY <1>1, <1>4, <2>1 DEF ReviewsAgreed, Reviewed!Shown
<1>6. ASSUME NEW r \in Reports, Reviewed!AdminDeleteScamReport(r) PROVE ReportsAgreed'
  <2>1. report[r] \in Reviewed!Report
    BY <1>0, <1>6, NoRowIsNone DEF Reviewed!AdminDeleteScamReport
  <2>2. /\ \A q \in Reports \ {r} : report'[q] = report[q]
        /\ report'[r].live = FALSE
    BY <1>0, <1>6, <2>1 DEF Reviewed!AdminDeleteScamReport, Reviewed!Report
  <2>3. QED
    BY <1>4, <1>6, <2>2 DEF Reviewed!AdminDeleteScamReport, ReportsAgreed
<1>7. ASSUME NEW r \in Reports, NEW rating \in Ratings, Reviewed!CreateScamReport(r, rating)
      PROVE  ReportsAgreed'
  <2>1. /\ \A q \in Reports \ {r} : report'[q] = report[q]
        /\ report'[r].status = "pending"
    BY <1>0, <1>7 DEF Reviewed!CreateScamReport
  <2>2. QED
    BY <1>4, <1>7, <2>1 DEF Reviewed!CreateScamReport, ReportsAgreed
<1>8. ASSUME NEW r \in Reports, NEW rating \in Ratings,
             NEW status \in {"pending", "published", "rejected"},
             Reviewed!AdminCreateScamReport(r, rating, status)
      PROVE  ReportsAgreed'
  <2>1. /\ \A q \in Reports \ {r} : report'[q] = report[q] /\ agreed'[q] = agreed[q]
        /\ report'[r].rating = rating /\ agreed'[r] = rating
    BY <1>0, <1>8 DEF Reviewed!AdminCreateScamReport
  <2>2. QED
    BY <1>4, <2>1 DEF ReportsAgreed
<1>9. ReportsAgreed'
  BY <1>6, <1>7, <1>8 DEF Reviewed!AtOnceReports
<1>10. QED
  BY <1>3, <1>5, <1>9 DEF AgreementInv

LEMMA AgreementInit == ASSUME Reviewed!Init PROVE AgreementInv
<1>1. \A g \in Handlers : Reviewed!Idle(g) /\ job[g].op = "none"
  BY DEF Reviewed!Init, Reviewed!NoJobs, Reviewed!Idle, Reviewed!Resting
<1>2. Reviewed!ChecksStand
  BY <1>1 DEF Reviewed!ChecksStand, Reviewed!ReadsStand
<1>3. ReviewsAgreed /\ ReportsAgreed
  BY NoRowIsNone DEF Reviewed!Init, ReviewsAgreed, ReportsAgreed, Reviewed!Shown
<1>4. QED
  BY <1>2, <1>3 DEF AgreementInv

LEMMA AgreementStep ==
  ASSUME Reviewed!IdsDiffer, ModerationInv, AgreementInv, [Reviewed!Next]_(Reviewed!vars) PROVE AgreementInv'
<1>1. CASE UNCHANGED Reviewed!vars
  BY <1>1 DEF Reviewed!vars, AgreementInv, Reviewed!ChecksStand, Reviewed!ReadsStand,
      ReviewsAgreed, ReportsAgreed, Reviewed!Shown, Reviewed!Idle
<1>2. CASE ~calm'
  BY <1>2 DEF AgreementInv, Reviewed!ChecksStand
<1>3. ASSUME NEW h \in Handlers, Checks(h), calm' PROVE AgreementInv'
  BY <1>3, CalmCheck
<1>4. ASSUME NEW h \in Handlers, Reviewed!Finish(h), calm' PROVE AgreementInv'
  BY <1>4, CalmDone, CalmReviews, CalmReports DEF AgreementInv
<1>5. CASE Reviewed!AtOnceReports /\ calm'
  BY <1>5, CalmStatement
<1>6. QED
  BY <1>1, <1>2, <1>3, <1>4, <1>5 DEF Reviewed!Next, Checks

LEMMA AgreementInvHolds == ASSUME Reviewed!IdsDiffer PROVE Reviewed!Spec => []AgreementInv
<1>1. Reviewed!IdsDiffer /\ Reviewed!Init => AgreementInv
  BY AgreementInit
<1>2. ModerationInv /\ AgreementInv /\ [Reviewed!Next]_(Reviewed!vars) => AgreementInv'
  BY AgreementStep
<1>3. QED
  BY <1>1, <1>2, ModerationInvHolds, PTL DEF Reviewed!Spec

-----------------------------------------------------------------------------
(* The statistics of sites, while use cases do not overlap                  *)

\* The sites' statistics and their reviews that count are as they were.
SameCount(s) ==
  /\ Reviewed!Counted(s)' = Reviewed!Counted(s)
  /\ \A r \in Reviewed!Counted(s) : review'[r].rating = review[r].rating

LEMMA SameStatistics ==
  ASSUME NEW s, SameCount(s) PROVE Reviewed!Statistics(s)' = Reviewed!Statistics(s)
<1>1. Reviewed!Stars(s)' = Reviewed!Stars(s)
  BY DEF SameCount, Reviewed!Stars
<1>2. QED
  BY <1>1 DEF SameCount, Reviewed!Statistics

\* A step of the one use case in progress, to the job j.
LEMMA CountsStep ==
  ASSUME ModerationInv, Reviewed!CountsStand, NEW h \in Handlers, NEW j,
         job' = [job EXCEPT ![h] = j], DOMAIN stat' = OneSite,
         calm' => calm /\ \A g \in Handlers \ {h} : Reviewed!Idle(g),
         calm' => Reviewed!CountStands(j)',
         calm' => \A s \in OneSite \ staleStats' :
           \/ Reviewed!ToStore(j, s) \/ stat'[s] = Reviewed!Statistics(s)'
           \/ /\ s \notin staleStats /\ stat'[s] = stat[s] /\ SameCount(s)
              /\ ~Reviewed!ToStore(job[h], s)
  PROVE  Reviewed!CountsStand'
<1>1. CASE ~calm'
  BY <1>1 DEF Reviewed!CountsStand
<1>2. CASE calm'
  <2>1. /\ job'[h] = j /\ calm
        /\ \A g \in Handlers \ {h} : job'[g] = job[g] /\ job[g].op = "none"
    BY <1>2 DEF ModerationInv, Reviewed!JobsAreReal, Reviewed!Idle, Reviewed!Resting
  <2>2. \A g \in Handlers \ {h} : \A s : ~Reviewed!ToStore(job[g], s)
    BY <2>1 DEF Reviewed!ToStore
  <2>3. ASSUME NEW s \in OneSite \ staleStats', ~Reviewed!ToStore(j, s)
        PROVE  stat'[s] = Reviewed!Statistics(s)'
    <3>1. SUFFICES ASSUME s \notin staleStats, stat'[s] = stat[s], SameCount(s),
                          ~Reviewed!ToStore(job[h], s)
                   PROVE  stat'[s] = Reviewed!Statistics(s)'
      BY <1>2, <2>3
    <3>2. stat[s] = Reviewed!Statistics(s)
      BY <2>1, <2>2, <3>1 DEF Reviewed!CountsStand
    <3>3. QED
      BY <3>1, <3>2, SameStatistics
  <2>4. ASSUME NEW g \in Handlers PROVE Reviewed!CountStands(job[g])'
    <3>1. CASE g = h
      BY <1>2, <2>1, <3>1
    <3>2. CASE g # h
      BY <2>1, <3>2 DEF Reviewed!CountStands
    <3>3. QED
      BY <3>1, <3>2
  <2>5. ASSUME NEW s \in OneSite \ staleStats', \A g \in Handlers : ~Reviewed!ToStore(job[g], s)'
        PROVE  stat'[s] = Reviewed!Statistics(s)'
    BY <2>1, <2>3, <2>5
  <2>6. QED
    BY <2>4, <2>5 DEF Reviewed!CountsStand
<1>3. QED
  BY <1>1, <1>2

\* Reviews of another site, and those that are not shown, are not counted.
LEMMA OtherCounts ==
  ASSUME NEW r \in Reviews, NEW s,
         \A q \in Reviews \ {r} : review'[q] = review[q],
         review[r].site = s => ~Reviewed!Shown(r),
         review'[r].site = s => ~Reviewed!Shown(r)'
  PROVE  SameCount(s)
<1>1. /\ r \notin Reviewed!Counted(s) /\ r \notin Reviewed!Counted(s)'
      /\ Reviewed!Counted(s) \subseteq Reviews
  BY DEF Reviewed!Counted
<1>2. Reviewed!Counted(s)' = Reviewed!Counted(s)
  BY <1>1 DEF Reviewed!Counted, Reviewed!Shown
<1>3. QED
  BY <1>1, <1>2 DEF SameCount

LEMMA NoReviewCounts ==
  ASSUME UNCHANGED review, NEW s PROVE SameCount(s)
BY DEF SameCount, Reviewed!Counted, Reviewed!Shown

LEMMA CountsBegin ==
  ASSUME ModerationInv, Reviewed!CountsStand, NEW h \in Handlers, Checks(h)
  PROVE  Reviewed!CountsStand'
<1>1. PICK j : Reviewed!Begin(h, j) /\ MayBegin(j)
  BY ChecksBegin
<1>2. UNCHANGED <<review, stat, staleStats>>
  BY DEF Checks, Reviewed!SiteReviewController, Reviewed!ScamReportController,
      Reviewed!CheckCreate, Reviewed!CheckUpdate, Reviewed!CheckDelete, Reviewed!CheckDecide,
      Reviewed!FindReport, Reviewed!FindForAdmin, Reviewed!Reading
<1>3. job[h].op = "none"
  BY <1>1 DEF Reviewed!Begin, Reviewed!Idle, Reviewed!Resting
<1>4. /\ Reviewed!CountStands(j)'
      /\ \A s : ~Reviewed!ToStore(job[h], s)
  BY <1>1, <1>2, <1>3 DEF MayBegin, Reviewed!CountStands, Reviewed!ToStore
<1>5. DOMAIN stat' = OneSite
  BY <1>2 DEF Reviewed!CountsStand
<1>6. QED
  BY <1>1, <1>2, <1>4, <1>5, BeginJob, NoReviewCounts, CountsStep

\* The use case in progress is alone, and knows the site of its review.
LEMMA CountsAlone ==
  ASSUME ModerationInv, AgreementInv, Reviewed!CountsStand, NEW h \in Handlers, Reviewed!Finish(h)
  PROVE  /\ calm' => calm /\ \A g \in Handlers \ {h} : Reviewed!Idle(g)
         /\ calm' => Reviewed!CountStands(job[h])
         /\ DOMAIN stat = OneSite /\ DOMAIN job = Handlers
<1>1. calm' => calm
  BY FinishIsDone
<1>2. ~Reviewed!Idle(h)
  BY FinishIsBusy
<1>3. calm => \A g \in Handlers \ {h} : Reviewed!Idle(g)
  BY <1>2 DEF AgreementInv, Reviewed!ChecksStand
<1>4. calm => Reviewed!CountStands(job[h])
  BY DEF Reviewed!CountsStand
<1>5. QED
  BY <1>1, <1>3, <1>4 DEF Reviewed!CountsStand, ModerationInv, Reviewed!JobsAreReal

\* One review is written, and the statistics of its site are to be computed; or
\* it is not shown, and nothing is left to do.
LEMMA CountsOfOne ==
  ASSUME ModerationInv, Reviewed!CountsStand, NEW h \in Handlers, NEW r \in Reviews, NEW s,
         \A q \in Reviews \ {r} : review'[q] = review[q],
         review[r].site = s \/ ~Reviewed!Shown(r), review'[r].site = s \/ ~Reviewed!Shown(r)',
         UNCHANGED <<stat, staleStats>>,
         \A t : ~Reviewed!ToStore(job[h], t),
         calm' => calm /\ \A g \in Handlers \ {h} : Reviewed!Idle(g),
         \/ Reviewed!Recalculate(h, s)
         \/ Reviewed!End(h) /\ ~Reviewed!Shown(r) /\ ~Reviewed!Shown(r)'
  PROVE  Reviewed!CountsStand'
<1>1. PICK j : /\ job' = [job EXCEPT ![h] = j] /\ j.op \in {"none", "count"}
               /\ Reviewed!ToStore(j, s) \/ (~Reviewed!Shown(r) /\ ~Reviewed!Shown(r)')
  BY DEF Reviewed!Recalculate, Reviewed!Continue, Reviewed!End, Reviewed!Resting,
      Reviewed!ToStore
<1>2. Reviewed!CountStands(j)'
  BY <1>1 DEF Reviewed!CountStands
<1>3. \A t : Reviewed!ToStore(j, t) \/ SameCount(t)
  <2>1. ASSUME NEW t, ~Reviewed!ToStore(j, t) PROVE SameCount(t)
    <3>1. /\ review[r].site = t => ~Reviewed!Shown(r)
          /\ review'[r].site = t => ~Reviewed!Shown(r)'
      BY <1>1, <2>1
    <3>2. QED
      BY <3>1, OtherCounts
  <2>2. QED
    BY <2>1
<1>4. DOMAIN stat' = OneSite
  BY DEF Reviewed!CountsStand
<1>5. QED
  BY <1>1, <1>2, <1>3, <1>4, CountsStep

LEMMA CountsCreate ==
  ASSUME ModerationInv, AgreementInv, Reviewed!CountsStand, NEW h \in Handlers,
         Reviewed!CreateSiteReview(h)
  PROVE  Reviewed!CountsStand'
<1>1. /\ calm' => calm /\ \A g \in Handlers \ {h} : Reviewed!Idle(g)
      /\ DOMAIN stat = OneSite /\ DOMAIN job = Handlers
  BY CountsAlone DEF Reviewed!Finish
<1>2. /\ job[h].op = "insert" /\ UNCHANGED <<stat, staleStats>>
      /\ \A t : ~Reviewed!ToStore(job[h], t)
  BY DEF Reviewed!CreateSiteReview, Reviewed!At, Reviewed!ToStore
<1>3. CASE Reviewed!End(h) /\ UNCHANGED review
  <2>1. /\ job' = [job EXCEPT ![h] = Reviewed!Resting] /\ Reviewed!CountStands(Reviewed!Resting)'
    BY <1>3 DEF Reviewed!End, Reviewed!CountStands, Reviewed!Resting
  <2>2. QED
    BY <1>1, <1>2, <1>3, <2>1, NoReviewCounts, CountsStep
<1>4. CASE ~(Reviewed!End(h) /\ UNCHANGED review)
  <2>0. PICK s : s = job[h].site
    OBVIOUS
  <2>1. PICK r \in Reviews :
          /\ review[r] = Reviewed!NoReview
          /\ review' = [review EXCEPT ![r] =
               [status |-> "live", author |-> job[h].author, site |-> s,
                rating |-> job[h].rating, published |-> TRUE]]
          /\ Reviewed!Recalculate(h, s)
    BY <1>4, <2>0 DEF Reviewed!CreateSiteReview
  <2>2. /\ ~Reviewed!Shown(r)
        /\ review'[r].site = s
        /\ \A q \in Reviews \ {r} : review'[q] = review[q]
    BY <2>1, NoRowIsNone DEF Reviewed!Shown, ModerationInv, Reviewed!RowsAreTyped
  <2>3. QED
    BY <1>1, <1>2, <2>1, <2>2, CountsOfOne
<1>5. QED
  BY <1>3, <1>4

\* What is written of a review is not its site.
LEMMA CountsWrite ==
  ASSUME ModerationInv, AgreementInv, Reviewed!CountsStand, NEW h \in Handlers,
         \/ Reviewed!UpdateSiteReview(h) \/ Reviewed!DeleteSiteReview(h)
         \/ Reviewed!ApproveSiteReview(h) \/ Reviewed!RejectSiteReview(h)
  PROVE  Reviewed!CountsStand'
<1>0. PICK r, s : r = job[h].review /\ s = job[h].site
  OBVIOUS
<1>1. /\ job[h].op \in {"update", "delete", "approve", "reject"}
      /\ UNCHANGED <<stat, staleStats>>
      /\ Reviewed!JobIsReal(h)
  BY DEF Reviewed!UpdateSiteReview, Reviewed!DeleteSiteReview, Reviewed!ApproveSiteReview,
      Reviewed!RejectSiteReview, Reviewed!Publish, Reviewed!At, ModerationInv, Reviewed!JobsAreReal
<1>2. /\ calm' => calm /\ \A g \in Handlers \ {h} : Reviewed!Idle(g)
      /\ calm' => review[r].site = s
      /\ DOMAIN stat = OneSite /\ DOMAIN job = Handlers
      /\ \A t : ~Reviewed!ToStore(job[h], t)
  BY <1>0, <1>1, CountsAlone DEF Reviewed!Finish, Reviewed!CountStands, Reviewed!ToStore
<1>3. r \in Reviews /\ review[r] # Reviewed!NoReview /\ review[r] \in Reviewed!Review
  BY <1>0, <1>1 DEF Reviewed!JobIsReal, ModerationInv, Reviewed!RowsAreTyped
<1>4. CASE Reviewed!End(h) /\ UNCHANGED review
  <2>1. /\ job' = [job EXCEPT ![h] = Reviewed!Resting] /\ Reviewed!CountStands(Reviewed!Resting)'
    BY <1>4 DEF Reviewed!End, Reviewed!CountStands, Reviewed!Resting
  <2>2. QED
    BY <1>1, <1>2, <1>4, <2>1, NoReviewCounts, CountsStep
<1>5. CASE ~(Reviewed!End(h) /\ UNCHANGED review)
  <2>1. /\ \/ Reviewed!Recalculate(h, s)
           \/ Reviewed!End(h) /\ ~Reviewed!Shown(r) /\ ~Reviewed!Shown(r)'
        /\ \E entry \in Reviewed!Review :
             review' = [review EXCEPT ![r] = entry] /\ entry.site = review[r].site
    <3>1. CASE Reviewed!UpdateSiteReview(h)
      <4>1. PICK b \in BOOLEAN : b = Reviewed!PublishedAfterUpdate(r, job[h].unpublish)
        BY Zenon DEF Reviewed!PublishedAfterUpdate
      <4>2. /\ review' = [review EXCEPT ![r].rating = job[h].rating, ![r].published = b]
            /\ Reviewed!Recalculate(h, s) /\ job[h].rating \in Ratings
        BY <1>0, <1>1, <1>5, <3>1, <4>1
        DEF Reviewed!UpdateSiteReview, Reviewed!At, Reviewed!JobIsReal
      <4>3. QED
        BY <1>3, <4>2, ReviewWritten DEF ModerationInv
    <3>2. CASE Reviewed!DeleteSiteReview(h)
      <4>1. review' = [review EXCEPT ![r].status = "deleted"] /\ Reviewed!Recalculate(h, s)
        BY <1>0, <3>2 DEF Reviewed!DeleteSiteReview
      <4>2. review[r].rating \in Ratings
        BY <1>3 DEF Reviewed!Review
      <4>3. QED
        BY <1>3, <4>1, <4>2, ReviewWritten DEF ModerationInv
    <3>3. ASSUME NEW b \in BOOLEAN, Reviewed!Publish(h, b)
          PROVE  /\ \/ Reviewed!Recalculate(h, s)
                    \/ Reviewed!End(h) /\ ~Reviewed!Shown(r) /\ ~Reviewed!Shown(r)'
                 /\ \E entry \in Reviewed!Review :
                      review' = [review EXCEPT ![r] = entry] /\ entry.site = review[r].site
      <4>1. /\ review' = [review EXCEPT ![r].published = b]
            /\ Reviewed!Recalculate(h, s) \/ (Reviewed!End(h) /\ ~Reviewed!Shown(r))
        BY <1>0, <3>3 DEF Reviewed!Publish
      <4>2. PICK entry \in Reviewed!Review :
              /\ review' = [review EXCEPT ![r] = entry] /\ entry.site = review[r].site
              /\ entry.status \in {review[r].status, review[r].status}
        BY <1>3, <4>1, ReviewWritten DEF ModerationInv, Reviewed!Review
      <4>3. ~Reviewed!Shown(r) => ~Reviewed!Shown(r)'
        BY <1>3, <4>2 DEF Reviewed!Shown, ModerationInv, Reviewed!RowsAreTyped
      <4>4. QED
        BY <4>1, <4>2, <4>3
    <3>4. QED
      BY <3>1, <3>2, <3>3 DEF Reviewed!ApproveSiteReview, Reviewed!RejectSiteReview
  <2>2. /\ \A q \in Reviews \ {r} : review'[q] = review[q]
        /\ review'[r].site = review[r].site
    BY <1>3, <2>1 DEF ModerationInv, Reviewed!RowsAreTyped
  <2>3. CASE calm'
    BY <1>1, <1>2, <1>3, <2>1, <2>2, <2>3, CountsOfOne
  <2>4. CASE ~calm'
    BY <1>1, <1>2, <2>4 DEF Reviewed!CountsStand
  <2>5. QED
    BY <2>3, <2>4
<1>6. QED
  BY <1>4, <1>5

LEMMA CountsStored ==
  ASSUME ModerationInv, AgreementInv, Reviewed!CountsStand, NEW h \in Handlers,
         Reviewed!CountReviews(h) \/ Reviewed!StoreStatistics(h)
  PROVE  Reviewed!CountsStand'
<1>0. PICK s : s = job[h].site
  OBVIOUS
<1>1. /\ job[h].op \in {"count", "store"} /\ UNCHANGED review
      /\ \A t : Reviewed!ToStore(job[h], t) => t = s
  BY <1>0 DEF Reviewed!CountReviews, Reviewed!StoreStatistics, Reviewed!At, Reviewed!ToStore
<1>2. /\ calm' => calm /\ \A g \in Handlers \ {h} : Reviewed!Idle(g)
      /\ calm' => Reviewed!CountStands(job[h])
      /\ DOMAIN stat = OneSite
  BY CountsAlone DEF Reviewed!Finish
<1>3. Reviewed!Statistics(s)' = Reviewed!Statistics(s)
  BY <1>1, NoReviewCounts, SameStatistics
<1>4. CASE Reviewed!CountReviews(h)
  <2>1. PICK j : /\ j = [op |-> "store", site |-> s, stat |-> Reviewed!Statistics(s)]
                 /\ job' = [job EXCEPT ![h] = j] /\ UNCHANGED <<stat, staleStats>>
    BY <1>0, <1>4 DEF Reviewed!CountReviews, Reviewed!Continue
  <2>2. j.op = "store" /\ j.site = s /\ j.stat = Reviewed!Statistics(s)
    BY <2>1
  <2>3. Reviewed!CountStands(j)' /\ Reviewed!ToStore(j, s)
    BY <1>3, <2>2 DEF Reviewed!CountStands, Reviewed!ToStore
  <2>4. QED
    BY <1>1, <1>2, <2>1, <2>3, NoReviewCounts, CountsStep
<1>5. CASE Reviewed!StoreStatistics(h)
  <2>1. /\ stat' = [stat EXCEPT ![s] = job[h].stat] /\ staleStats' = staleStats \ {s}
        /\ job' = [job EXCEPT ![h] = Reviewed!Resting] /\ job[h].op = "store"
    BY <1>0, <1>5 DEF Reviewed!StoreStatistics, Reviewed!End, Reviewed!At
  <2>2. DOMAIN stat' = OneSite /\ \A t \in OneSite \ {s} : stat'[t] = stat[t]
    BY <1>2, <2>1
  <2>3. calm' /\ s \in OneSite => stat'[s] = Reviewed!Statistics(s)'
    BY <1>0, <1>2, <1>3, <2>1 DEF Reviewed!CountStands
  <2>4. Reviewed!CountStands(Reviewed!Resting)'
    BY DEF Reviewed!CountStands, Reviewed!Resting
  <2>5. ASSUME calm', NEW t \in OneSite \ staleStats'
        PROVE  \/ stat'[t] = Reviewed!Statistics(t)'
               \/ /\ t \notin staleStats /\ stat'[t] = stat[t] /\ SameCount(t)
                  /\ ~Reviewed!ToStore(job[h], t)
    BY <1>1, <2>1, <2>2, <2>3, <2>5, NoReviewCounts
  <2>6. QED
    BY <1>2, <2>1, <2>2, <2>4, <2>5, CountsStep
<1>6. QED
  BY <1>4, <1>5

\* A report counts nowhere; what breaks off before the statistics are written is
\* known.
LEMMA CountsEnd ==
  ASSUME ModerationInv, AgreementInv, Reviewed!CountsStand, NEW h \in Handlers,
         \/ Reviewed!UpdateScamReport(h) \/ Reviewed!DeleteScamReport(h)
         \/ Reviewed!ApproveScamReport(h) \/ Reviewed!RejectScamReport(h)
         \/ Reviewed!AdminUpdateScamReport(h)
         \/ Reviewed!Fail(h)
  PROVE  Reviewed!CountsStand'
<1>1. /\ calm' => calm /\ \A g \in Handlers \ {h} : Reviewed!Idle(g)
      /\ DOMAIN stat = OneSite
  BY CountsAlone DEF Reviewed!Finish
<1>2. /\ job' = [job EXCEPT ![h] = Reviewed!Resting] /\ UNCHANGED <<review, stat>>
      /\ staleStats \subseteq staleStats'
      /\ \A s : Reviewed!ToStore(job[h], s) => s \in staleStats'
  BY DEF Reviewed!UpdateScamReport, Reviewed!DeleteScamReport, Reviewed!ApproveScamReport,
      Reviewed!RejectScamReport, Reviewed!AdminUpdateScamReport, Reviewed!Fail, Reviewed!At,
      Reviewed!End, Reviewed!ToStore
<1>3. Reviewed!CountStands(Reviewed!Resting)'
  BY DEF Reviewed!CountStands, Reviewed!Resting
<1>4. QED
  BY <1>1, <1>2, <1>3, NoReviewCounts, CountsStep

LEMMA CountsSame ==
  ASSUME Reviewed!CountsStand, UNCHANGED <<review, stat, staleStats, job>>, calm' => calm
  PROVE  Reviewed!CountsStand'
<1>1. \A s : Reviewed!Statistics(s)' = Reviewed!Statistics(s)
  BY NoReviewCounts, SameStatistics
<1>2. QED
  BY <1>1 DEF Reviewed!CountsStand, Reviewed!CountStands

LEMMA CountsStay ==
  ASSUME ModerationInv, AgreementInv, Reviewed!CountsStand, [Reviewed!Next]_(Reviewed!vars)
  PROVE  Reviewed!CountsStand'
<1>1. ASSUME NEW h \in Handlers, Checks(h) PROVE Reviewed!CountsStand'
  BY <1>1, CountsBegin
<1>2. ASSUME NEW h \in Handlers, Reviewed!Finish(h) PROVE Reviewed!CountsStand'
  BY <1>2, CountsCreate, CountsWrite, CountsStored, CountsEnd DEF Reviewed!Finish
<1>3. CASE Reviewed!AtOnceReports
  <2>1. calm' => calm
    BY <1>3, Zenon
    DEF Reviewed!AtOnceReports, Reviewed!AdminDeleteScamReport, Reviewed!CreateScamReport,
        Reviewed!AdminCreateScamReport, Reviewed!AtOnce
  <2>2. UNCHANGED <<review, stat, staleStats, job>>
    BY <1>3
    DEF Reviewed!AtOnceReports, Reviewed!AdminDeleteScamReport, Reviewed!CreateScamReport,
        Reviewed!AdminCreateScamReport, Reviewed!AtOnce
  <2>3. QED
    BY <2>1, <2>2, CountsSame
<1>4. CASE UNCHANGED Reviewed!vars
  BY <1>4, CountsSame DEF Reviewed!vars
<1>5. QED
  BY <1>1, <1>2, <1>3, <1>4 DEF Reviewed!Next, Checks

\* The instance counts with an operator of its own.
LEMMA NoneIsCounted == Reviewed!Cardinality({}) = 0
BY FS_EmptySet DEF Reviewed!Cardinality, Cardinality

LEMMA CountsInit == ASSUME Reviewed!Init PROVE Reviewed!CountsStand
<1>1. /\ \A s \in OneSite : stat[s] = [count |-> 0, total |-> 0]
      /\ DOMAIN stat = OneSite
      /\ \A h \in Handlers : job[h].op = "none"
  BY DEF Reviewed!Init, Reviewed!NoJobs, Reviewed!Resting
<1>2. ASSUME NEW s \in OneSite PROVE Reviewed!Statistics(s) = [count |-> 0, total |-> 0]
  <2>1. Reviewed!Counted(s) = {}
    BY NoRowIsNone DEF Reviewed!Init, Reviewed!Counted, Reviewed!Shown
  <2>2. Reviewed!Stars(s) = {}
    BY <2>1 DEF Reviewed!Stars
  <2>3. QED
    BY <2>1, <2>2, NoneIsCounted DEF Reviewed!Statistics
<1>3. QED
  BY <1>1, <1>2 DEF Reviewed!CountsStand, Reviewed!CountStands

LEMMA CountsHold == ASSUME Reviewed!IdsDiffer PROVE Reviewed!Spec => []Reviewed!CountsStand
<1>1. ModerationInv /\ AgreementInv /\ Reviewed!CountsStand /\ [Reviewed!Next]_(Reviewed!vars)
        => Reviewed!CountsStand'
  BY CountsStay
<1>2. QED
  BY <1>1, CountsInit, ModerationInvHolds, AgreementInvHolds, PTL DEF Reviewed!Spec

LEMMA CountsAreRight == Reviewed!CountsStand => Reviewed!CalmStatistics
BY DEF Reviewed!CountsStand, Reviewed!CalmStatistics, Reviewed!Busy, Reviewed!ToStore

-----------------------------------------------------------------------------
(* Addresses that are kept out                                              *)

AddressInv ==
  /\ blocked \in [Addresses!Scopes -> SUBSET Ips]
  /\ cache \in [Addresses!Scopes -> SUBSET Ips]
  /\ expires \in [Addresses!Scopes -> BOOLEAN]
  /\ broken \in [Addresses!Scopes -> BOOLEAN]
  /\ Addresses!RefreshesAreReal /\ Addresses!CopiesExpire /\ Addresses!CopiesStand

IpRows == <<blocked, cache, expires, broken>>

LEMMA RestIsNoRefresh ==
  /\ Addresses!Resting.op = "none"
  /\ \A h : Addresses!Idle(h) => job[h].op = "none"
BY DEF Addresses!Resting, Addresses!Idle

\* Neither the tables, nor the copies, nor what is in progress change.
LEMMA AddressesQuiet ==
  ASSUME AddressInv, UNCHANGED <<IpRows, job, calm>> PROVE AddressInv'
<1>1. UNCHANGED <<blocked, cache, expires, broken, job, calm>>
  BY DEF IpRows
<1>2. Addresses!RefreshesAreReal'
  BY <1>1 DEF AddressInv, Addresses!RefreshesAreReal, Addresses!Idle
<1>3. Addresses!CopiesExpire'
  BY <1>1 DEF AddressInv, Addresses!CopiesExpire, Addresses!Busy
<1>4. Addresses!CopiesStand'
  BY <1>1 DEF AddressInv, Addresses!CopiesStand, Addresses!Idle
<1>5. QED
  BY <1>1, <1>2, <1>3, <1>4 DEF AddressInv

LEMMA KeyExpires ==
  ASSUME AddressInv, NEW c \in Addresses!Scopes,
         cache' = [cache EXCEPT ![c] = {}], expires' = [expires EXCEPT ![c] = FALSE],
         UNCHANGED <<blocked, broken, job, calm>>
  PROVE  AddressInv'
<1>1. /\ cache' \in [Addresses!Scopes -> SUBSET Ips]
      /\ expires' \in [Addresses!Scopes -> BOOLEAN]
      /\ cache'[c] = {}
      /\ \A d \in Addresses!Scopes \ {c} : cache'[d] = cache[d] /\ expires'[d] = expires[d]
  BY DEF AddressInv
<1>2. Addresses!RefreshesAreReal'
  BY DEF AddressInv, Addresses!RefreshesAreReal, Addresses!Idle
<1>3. Addresses!CopiesExpire'
  BY <1>1 DEF AddressInv, Addresses!CopiesExpire, Addresses!Busy
<1>4. Addresses!CopiesStand'
  <2>1. SUFFICES ASSUME calm PROVE Addresses!CopiesStand'
    BY DEF Addresses!CopiesStand
  <2>2. \A h \in Handlers : job[h].op \in {"add", "expire"} => job[h].scope \in Addresses!Scopes
    BY RestIsNoRefresh DEF AddressInv, Addresses!RefreshesAreReal
  <2>3. \A d \in Addresses!Scopes : cache'[d] = cache[d] \/ cache'[d] = {}
    BY <1>1
  <2>4. QED
    BY <2>1, <2>2, <2>3 DEF AddressInv, Addresses!CopiesStand, Addresses!Idle
<1>5. QED
  BY <1>1, <1>2, <1>3, <1>4 DEF AddressInv

\* A change of a list begins a refresh of it.
LEMMA RefreshBegins ==
  ASSUME AddressInv, NEW h \in Handlers, NEW c \in Addresses!Scopes, Addresses!Refresh(h, c),
         blocked' \in [Addresses!Scopes -> SUBSET Ips],
         \A d \in Addresses!Scopes \ {c} : blocked'[d] = blocked[d],
         UNCHANGED <<cache, expires, broken>>
  PROVE  AddressInv'
<1> DEFINE j == [op |-> "read", scope |-> c]
<1>1. /\ DOMAIN job = Handlers /\ Addresses!Idle(h)
      /\ job' = [job EXCEPT ![h] = j]
  BY DEF AddressInv, Addresses!RefreshesAreReal, Addresses!Refresh, Addresses!Begin
<1>2. calm' => calm /\ \A g \in Handlers \ {h} : Addresses!Idle(g)
  BY Zenon DEF Addresses!Refresh, Addresses!Begin
<1>3. /\ DOMAIN job' = Handlers /\ job'[h] = j
      /\ \A g \in Handlers \ {h} : job'[g] = job[g]
  BY <1>1
<1>4. Addresses!RefreshesAreReal'
  BY <1>3 DEF AddressInv, Addresses!RefreshesAreReal, Addresses!Idle
<1>5. Addresses!CopiesExpire'
  <2>1. job[h].op = "none"
    BY <1>1, RestIsNoRefresh
  <2>2. QED
    BY <1>3, <2>1 DEF AddressInv, Addresses!CopiesExpire, Addresses!Busy
<1>6. Addresses!CopiesStand'
  <2>1. SUFFICES ASSUME calm' PROVE Addresses!CopiesStand'
    BY DEF Addresses!CopiesStand
  <2>2. /\ calm /\ \A g \in Handlers : Addresses!Idle(g)
        /\ \A g \in Handlers \ {h} : job'[g] = Addresses!Resting
    BY <1>1, <1>2, <1>3, <2>1 DEF Addresses!Idle
  <2>3. \A d \in Addresses!Scopes \ {c} : ~broken[d] => cache[d] \in {{}, blocked[d]}
    BY <2>2 DEF AddressInv, Addresses!CopiesStand
  <2>4. job'[h].op = "read" /\ job'[h].scope = c /\ job'[h] # Addresses!Resting
    BY <1>3, RestIsNoRefresh
  <2>5. \A g \in Handlers : job'[g].op \notin {"del", "add", "expire"}
    BY <2>2, <2>4, RestIsNoRefresh
  <2>6. QED
    BY <2>2, <2>3, <2>4, <2>5 DEF Addresses!CopiesStand, Addresses!Idle
<1>7. QED
  BY <1>4, <1>5, <1>6 DEF AddressInv

\* What a refresh that goes on from job[h] to j may do: it writes the copy of its
\* own list, and leaves it right for where it is now.
LEMMA RefreshGoesOn ==
  ASSUME AddressInv, NEW h \in Handlers, ~Addresses!Idle(h),
         NEW j, job' = [job EXCEPT ![h] = j], UNCHANGED <<blocked, calm>>,
         \/ j = Addresses!Resting
         \/ /\ j.op \in {"read", "del", "add", "expire"} /\ j.scope = job[h].scope
            /\ j.op \in {"del", "add"} => j.ips \subseteq Ips,
         cache' \in [Addresses!Scopes -> SUBSET Ips],
         expires' \in [Addresses!Scopes -> BOOLEAN],
         broken' \in [Addresses!Scopes -> BOOLEAN],
         \A d \in Addresses!Scopes \ {job[h].scope} :
           cache'[d] = cache[d] /\ expires'[d] = expires[d] /\ broken'[d] = broken[d],
         \/ broken'[job[h].scope]
         \/ cache'[job[h].scope] = {} \/ expires'[job[h].scope] \/ j.op = "expire"
         \/ /\ UNCHANGED <<cache, expires, broken>> /\ job[h].op # "expire",
         calm =>
           /\ j.op \in {"del", "add"} => j.ips = blocked[job[h].scope]
           /\ j.op = "add" => cache'[job[h].scope] = {}
           /\ j.op \in {"expire", "none"} =>
                \/ broken'[job[h].scope]
                \/ cache'[job[h].scope] \in {{}, blocked[job[h].scope]}
           /\ j.op = "expire" => cache'[job[h].scope] \in {{}, blocked[job[h].scope]}
  PROVE  AddressInv'
<1> DEFINE c == job[h].scope
<1>1. /\ DOMAIN job' = Handlers /\ job'[h] = j
      /\ \A g \in Handlers \ {h} : job'[g] = job[g]
  BY DEF AddressInv, Addresses!RefreshesAreReal
<1>2. c \in Addresses!Scopes
  BY DEF AddressInv, Addresses!RefreshesAreReal
<1>3. Addresses!RefreshesAreReal'
  BY <1>1, <1>2 DEF AddressInv, Addresses!RefreshesAreReal, Addresses!Idle
<1>4. Addresses!CopiesExpire'
  <2>1. SUFFICES ASSUME NEW d \in Addresses!Scopes, ~broken'[d], cache'[d] # {}, ~expires'[d]
                 PROVE  \E g \in Handlers : job'[g].op = "expire" /\ job'[g].scope = d
    BY DEF Addresses!CopiesExpire, Addresses!Busy
  <2>2. CASE d # c
    <3>1. PICK g \in Handlers : job[g].op = "expire" /\ job[g].scope = d
      BY <2>1, <2>2 DEF AddressInv, Addresses!CopiesExpire, Addresses!Busy
    <3>2. QED
      BY <1>1, <2>2, <3>1
  <2>3. CASE d = c /\ j.op = "expire"
    BY <1>1, <2>3, RestIsNoRefresh
  <2>4. CASE d = c /\ j.op # "expire"
    <3>1. UNCHANGED <<cache, expires, broken>> /\ job[h].op # "expire"
      BY <2>1, <2>4
    <3>2. PICK g \in Handlers : job[g].op = "expire" /\ job[g].scope = d
      BY <2>1, <3>1 DEF AddressInv, Addresses!CopiesExpire, Addresses!Busy
    <3>3. QED
      BY <1>1, <3>1, <3>2
  <2>5. QED
    BY <2>2, <2>3, <2>4
<1>5. Addresses!CopiesStand'
  <2>1. SUFFICES ASSUME calm PROVE Addresses!CopiesStand'
    BY DEF Addresses!CopiesStand
  <2>2. \A g \in Handlers \ {h} : job[g] = Addresses!Resting /\ job'[g] = Addresses!Resting
    BY <1>1, <2>1 DEF AddressInv, Addresses!CopiesStand, Addresses!Idle
  <2>3. \A g \in Handlers \ {h} : job'[g].op = "none"
    BY <2>2, RestIsNoRefresh
  <2>4. /\ j.op \in {"del", "add", "expire"} => j.scope = c
        /\ j = Addresses!Resting => j.op = "none"
    BY RestIsNoRefresh
  <2>5. \A g \in Handlers :
          /\ job'[g].op \in {"del", "add"} => job'[g].ips = blocked[job'[g].scope]
          /\ job'[g].op = "add" => cache'[job'[g].scope] = {}
          /\ job'[g].op = "expire" => cache'[job'[g].scope] \in {{}, blocked[job'[g].scope]}
    BY <1>1, <2>1, <2>3, <2>4
  <2>6. ASSUME NEW d \in Addresses!Scopes, ~broken'[d],
               \A g \in Handlers : job'[g] # Addresses!Resting => job'[g].scope # d
        PROVE  cache'[d] \in {{}, blocked[d]}
    <3>1. CASE d # c
      <4>1. \A g \in Handlers : job[g] # Addresses!Resting => job[g].scope # d
        BY <2>2, <3>1
      <4>2. ~broken[d] /\ cache'[d] = cache[d]
        BY <2>6, <3>1
      <4>3. QED
        BY <2>1, <4>1, <4>2 DEF AddressInv, Addresses!CopiesStand, Addresses!Idle
    <3>2. CASE d = c
      <4>1. j = Addresses!Resting
        BY <1>1, <2>6, <3>2
      <4>2. QED
        BY <2>1, <2>4, <2>6, <3>2, <4>1
    <3>3. QED
      BY <3>1, <3>2
  <2>7. QED
    BY <2>2, <2>5, <2>6 DEF Addresses!CopiesStand, Addresses!Idle
<1>6. QED
  BY <1>3, <1>4, <1>5 DEF AddressInv

LEMMA RefreshIsThere ==
  ASSUME AddressInv, NEW h \in Handlers, ~Addresses!Idle(h)
  PROVE  /\ job[h].op \in {"read", "del", "add", "expire"}
         /\ job[h].scope \in Addresses!Scopes
         /\ job[h].op \in {"del", "add"} => job[h].ips \subseteq Ips
         /\ calm =>
              /\ job[h].op \in {"del", "add"} => job[h].ips = blocked[job[h].scope]
              /\ job[h].op = "add" => cache[job[h].scope] = {}
              /\ job[h].op = "expire" => cache[job[h].scope] \in {{}, blocked[job[h].scope]}
BY DEF AddressInv, Addresses!RefreshesAreReal, Addresses!CopiesStand

LEMMA RefreshStep ==
  ASSUME AddressInv, NEW h \in Handlers, Addresses!CacheIps(h) PROVE AddressInv'
<1> DEFINE c == job[h].scope
<1>0. /\ ~Addresses!Idle(h) /\ UNCHANGED blocked
      /\ \A j : Addresses!Continue(h, j) => job' = [job EXCEPT ![h] = j] /\ UNCHANGED calm
      /\ Addresses!End(h) => job' = [job EXCEPT ![h] = Addresses!Resting] /\ UNCHANGED calm
  <2>1. \/ job[h].op \in {"read", "del", "add", "expire"}
        \/ ~Addresses!Idle(h)
    BY DEF Addresses!CacheIps, Addresses!FindBlockedIps, Addresses!ClearSet, Addresses!AddIps,
           Addresses!SetExpiry, Addresses!Fail, Addresses!At
  <2>2. UNCHANGED blocked
    BY DEF Addresses!CacheIps, Addresses!FindBlockedIps, Addresses!ClearSet, Addresses!AddIps,
           Addresses!SetExpiry, Addresses!Fail, Addresses!SameTables
  <2>3. QED
    BY <2>1, <2>2, RestIsNoRefresh DEF Addresses!Continue, Addresses!End
<1>1. /\ c \in Addresses!Scopes /\ blocked[c] \subseteq Ips /\ cache[c] \subseteq Ips
      /\ blocked \in [Addresses!Scopes -> SUBSET Ips]
      /\ cache \in [Addresses!Scopes -> SUBSET Ips]
      /\ expires \in [Addresses!Scopes -> BOOLEAN]
      /\ broken \in [Addresses!Scopes -> BOOLEAN]
  BY <1>0, RefreshIsThere DEF AddressInv
<1>2. CASE Addresses!FindBlockedIps(h)
  <2> DEFINE j == [op |-> "del", scope |-> c, ips |-> blocked[c]]
  <2>1. /\ job[h].op = "read" /\ UNCHANGED <<cache, expires, broken>>
        /\ job' = [job EXCEPT ![h] = j] /\ UNCHANGED calm
    BY <1>0, <1>2 DEF Addresses!FindBlockedIps, Addresses!At, Addresses!SameCache
  <2>2. j.op = "del" /\ j.scope = c /\ j.ips = blocked[c]
    OBVIOUS
  <2> HIDE DEF j
  <2>3. QED
    BY <1>0, <1>1, <2>1, <2>2, RefreshGoesOn
<1>3. CASE Addresses!ClearSet(h)
  <2>1. /\ job[h].op = "del" /\ UNCHANGED broken
        /\ cache' = [cache EXCEPT ![c] = {}] /\ expires' = [expires EXCEPT ![c] = FALSE]
    BY <1>3 DEF Addresses!ClearSet, Addresses!At
  <2>2. /\ cache' \in [Addresses!Scopes -> SUBSET Ips] /\ cache'[c] = {}
        /\ expires' \in [Addresses!Scopes -> BOOLEAN]
        /\ \A d \in Addresses!Scopes \ {c} : cache'[d] = cache[d] /\ expires'[d] = expires[d]
    BY <1>1, <2>1
  <2>3. /\ job[h].ips \subseteq Ips
        /\ calm => job[h].ips = blocked[c]
    BY <1>0, <2>1, RefreshIsThere
  <2>4. CASE job[h].ips = {}
    <3>1. job' = [job EXCEPT ![h] = Addresses!Resting] /\ UNCHANGED calm
      BY <1>0, <1>3, <2>4 DEF Addresses!ClearSet
    <3>2. QED
      BY <1>0, <1>1, <2>1, <2>2, <3>1, RestIsNoRefresh, RefreshGoesOn
  <2>5. CASE job[h].ips # {}
    <3> DEFINE j == [job[h] EXCEPT !.op = "add"]
    <3>1. job' = [job EXCEPT ![h] = j] /\ UNCHANGED calm
      BY <1>0, <1>3, <2>5 DEF Addresses!ClearSet
    <3>2. j.scope = c /\ j.ips = job[h].ips
      OBVIOUS
    <3>3. j.op = "add"
      OBVIOUS
    <3> HIDE DEF j
    <3>4. QED
      BY <1>0, <1>1, <2>1, <2>2, <2>3, <3>1, <3>2, <3>3, RefreshGoesOn
  <2>6. QED
    BY <2>4, <2>5
<1>4. CASE Addresses!AddIps(h)
  <2> DEFINE j == [job[h] EXCEPT !.op = "expire"]
  <2>1. /\ job[h].op = "add" /\ UNCHANGED <<expires, broken>>
        /\ cache' = [cache EXCEPT ![c] = cache[c] \cup job[h].ips]
        /\ job' = [job EXCEPT ![h] = j] /\ UNCHANGED calm
    BY <1>0, <1>1, <1>4 DEF Addresses!AddIps, Addresses!At
  <2>2. j.op = "expire" /\ j.scope = c
    OBVIOUS
  <2>3. /\ job[h].ips \subseteq Ips
        /\ calm => job[h].ips = blocked[c] /\ cache[c] = {}
    BY <1>0, <2>1, RefreshIsThere
  <2>4. /\ cache' \in [Addresses!Scopes -> SUBSET Ips] /\ cache'[c] = cache[c] \cup job[h].ips
        /\ \A d \in Addresses!Scopes \ {c} : cache'[d] = cache[d]
    BY <1>1, <2>1, <2>3
  <2> HIDE DEF j
  <2>5. QED
    BY <1>0, <1>1, <2>1, <2>2, <2>3, <2>4, RefreshGoesOn
<1>5. CASE Addresses!SetExpiry(h)
  <2>1. /\ job[h].op = "expire" /\ UNCHANGED <<cache, broken>>
        /\ expires' = [expires EXCEPT ![c] = cache[c] # {}]
        /\ job' = [job EXCEPT ![h] = Addresses!Resting] /\ UNCHANGED calm
    BY <1>0, <1>5 DEF Addresses!SetExpiry, Addresses!At
  <2>2. /\ expires' \in [Addresses!Scopes -> BOOLEAN]
        /\ cache'[c] = {} \/ expires'[c]
        /\ \A d \in Addresses!Scopes \ {c} : expires'[d] = expires[d]
    BY <1>1, <2>1
  <2>3. calm => cache'[c] \in {{}, blocked[c]}
    BY <1>0, <2>1, RefreshIsThere
  <2>4. QED
    BY <1>0, <1>1, <2>1, <2>2, <2>3, RestIsNoRefresh, RefreshGoesOn
<1>6. CASE Addresses!Fail(h)
  <2>1. /\ UNCHANGED <<cache, expires>> /\ broken' = [broken EXCEPT ![c] = TRUE]
        /\ job' = [job EXCEPT ![h] = Addresses!Resting] /\ UNCHANGED calm
    BY <1>0, <1>6 DEF Addresses!Fail, Addresses!SameCache
  <2>2. /\ broken' \in [Addresses!Scopes -> BOOLEAN] /\ broken'[c]
        /\ \A d \in Addresses!Scopes \ {c} : broken'[d] = broken[d]
    BY <1>1, <2>1
  <2>3. QED
    BY <1>0, <1>1, <2>1, <2>2, RestIsNoRefresh, RefreshGoesOn
<1>7. QED
  BY <1>2, <1>3, <1>4, <1>5, <1>6 DEF Addresses!CacheIps

LEMMA AdminStep ==
  ASSUME AddressInv, NEW h \in Handlers, Addresses!UserController(h) PROVE AddressInv'
<1>0. blocked \in [Addresses!Scopes -> SUBSET Ips]
  BY DEF AddressInv
<1>1. ASSUME NEW c \in Addresses!Scopes, NEW ip \in Ips,
             Addresses!BlockIp(h, c, ip) \/ Addresses!UnblockIp(h, c, ip)
      PROVE  AddressInv'
  <2>1. /\ Addresses!Refresh(h, c) /\ UNCHANGED <<cache, expires, broken>>
        /\ \/ blocked' = [blocked EXCEPT ![c] = blocked[c] \cup {ip}]
           \/ blocked' = [blocked EXCEPT ![c] = blocked[c] \ {ip}]
    BY <1>0, <1>1 DEF Addresses!BlockIp, Addresses!UnblockIp, Addresses!SameCache
  <2>2. /\ blocked' \in [Addresses!Scopes -> SUBSET Ips]
        /\ \A d \in Addresses!Scopes \ {c} : blocked'[d] = blocked[d]
    BY <1>0, <2>1
  <2>3. QED
    BY <2>1, <2>2, RefreshBegins
<1>2. ASSUME NEW u \in Users, Addresses!TriggerIpSync(h, u) PROVE AddressInv'
  <2>1. /\ Addresses!Refresh(h, u) /\ UNCHANGED <<blocked, cache, expires, broken>>
        /\ u \in Addresses!Scopes
    BY <1>2 DEF Addresses!TriggerIpSync, Addresses!SameCache, Addresses!Scopes
  <2>2. QED
    BY <1>0, <2>1, RefreshBegins
<1>3. QED
  BY <1>1, <1>2 DEF Addresses!UserController

LEMMA AddressStep ==
  ASSUME AddressInv, [Addresses!Next]_(Addresses!vars) PROVE AddressInv'
<1>1. CASE \E u \in Users, ip \in Ips : Addresses!Request(u, ip)
  BY <1>1, AddressesQuiet
  DEF Addresses!Request, Addresses!SameTables, Addresses!SameCache, IpRows
<1>2. CASE Addresses!SyncUserIps
  BY <1>2, AddressesQuiet DEF Addresses!SyncUserIps, Addresses!SameCache, IpRows
<1>3. CASE Addresses!Expire
  <2>1. CASE UNCHANGED <<IpRows, job, calm>>
    BY <2>1, AddressesQuiet
  <2>2. CASE ~UNCHANGED <<IpRows, job, calm>>
    <3>1. PICK c \in Addresses!Scopes :
            cache' = [cache EXCEPT ![c] = {}] /\ expires' = [expires EXCEPT ![c] = FALSE]
      BY <1>3, <2>2
      DEF Addresses!Expire, Addresses!SameTables, Addresses!SameCache, IpRows
    <3>2. UNCHANGED <<blocked, broken, job, calm>>
      BY <1>3 DEF Addresses!Expire, Addresses!SameTables
    <3>3. QED
      BY <3>1, <3>2, KeyExpires
  <2>3. QED
    BY <2>1, <2>2
<1>4. CASE UNCHANGED Addresses!vars
  BY <1>4, AddressesQuiet DEF Addresses!vars, IpRows
<1>5. QED
  BY <1>1, <1>2, <1>3, <1>4, AdminStep, RefreshStep DEF Addresses!Next

LEMMA AddressInit == ASSUME Addresses!Init PROVE AddressInv
<1>1. /\ DOMAIN job = Handlers
      /\ \A h \in Handlers : job[h] = Addresses!Resting /\ job[h].op = "none"
  BY RestIsNoRefresh DEF Addresses!Init, Addresses!NoJobs
<1>2. \A c \in Addresses!Scopes : cache[c] = {}
  BY DEF Addresses!Init
<1>3. /\ blocked \in [Addresses!Scopes -> SUBSET Ips]
      /\ cache \in [Addresses!Scopes -> SUBSET Ips]
      /\ expires \in [Addresses!Scopes -> BOOLEAN]
      /\ broken \in [Addresses!Scopes -> BOOLEAN]
  BY DEF Addresses!Init
<1>4. Addresses!RefreshesAreReal /\ Addresses!CopiesExpire /\ Addresses!CopiesStand
  BY <1>1, <1>2
  DEF Addresses!RefreshesAreReal, Addresses!CopiesExpire, Addresses!CopiesStand, Addresses!Idle
<1>5. QED
  BY <1>3, <1>4 DEF AddressInv

LEMMA AddressInvHolds == Addresses!Spec => []AddressInv
BY AddressInit, AddressStep, PTL DEF Addresses!Spec

-----------------------------------------------------------------------------
(* Posts, comments and their records                                        *)

TextInv == Texts!RowsAreTyped /\ Texts!JobsAreReal /\ Texts!SyncsStand /\ Texts!OnRecord

\* What is written stays, of its kind and author, and is not revived.
Grown ==
  \A w \in Texts!Written :
    /\ w \in Texts!Written'
    /\ writ'[w].kind = writ[w].kind /\ writ'[w].author = writ[w].author
    /\ writ'[w].live => writ[w].live

\* Its record is as it was, and so is what it is compared with.
SameRecord(w) ==
  /\ w \in Texts!Written /\ Texts!TableOfUser(w) \in tidy
  /\ record'[w] = record[w] /\ writ'[w].live = writ[w].live

LEMMA TextsRest ==
  /\ Texts!Resting.op = "none"
  /\ \A h : Texts!Idle(h) => job[h].op = "none"
BY DEF Texts!Resting, Texts!Idle

LEMMA NoWritIsNone ==
  ASSUME Texts!NoneIsNoKind
  PROVE  Texts!NoWrit \notin Texts!Writ /\ Texts!NoWrit.live = FALSE
<1>1. Texts!NoWrit.kind = None /\ Texts!NoWrit.live = FALSE
  BY DEF Texts!NoWrit
<1>2. \A r \in Texts!Writ : r.kind \in Texts!Kinds
  BY DEF Texts!Writ
<1>3. QED
  BY <1>1, <1>2 DEF Texts!NoneIsNoKind

LEMMA SameTable ==
  ASSUME Grown, NEW w \in Texts!Written
  PROVE  Texts!TableOfUser(w)' = Texts!TableOfUser(w)
BY DEF Grown, Texts!TableOfUser

LEMMA JobStaysReal ==
  ASSUME Grown, NEW j, Texts!JobIsReal(j)
  PROVE  Texts!JobIsReal(j)'
<1>1. /\ \A w \in Texts!Written : w \in Texts!Written' /\ Texts!TableOfUser(w)' = Texts!TableOfUser(w)
      /\ \A w \in Texts!Written : Texts!Live(w)' => Texts!Live(w)
  BY SameTable DEF Grown, Texts!Live
<1>2. j \in Texts!Deletion => j \in Texts!Deletion'
  BY <1>1 DEF Texts!Deletion
<1>3. j \in Texts!SyncCommand => j \in Texts!SyncCommand' /\ j.listed \subseteq Texts!Written
  BY <1>1 DEF Texts!SyncCommand
<1>4. QED
  BY <1>1, <1>2, <1>3 DEF Texts!JobIsReal

\* While use cases do not overlap, the others rest.
LEMMA TextsAlone ==
  ASSUME Texts!SyncsStand, NEW h \in Handlers, job[h].op # "none"
  PROVE  calm => \A g \in Handlers \ {h} : Texts!Idle(g)
BY TextsRest DEF Texts!SyncsStand

\* A step of one use case, to the job j.
LEMMA TextStep ==
  ASSUME TextInv, NEW h \in Handlers, NEW j, job' = [job EXCEPT ![h] = j],
         calm' => calm /\ \A g \in Handlers \ {h} : Texts!Idle(g),
         Texts!RowsAreTyped', Grown, Texts!JobIsReal(j)', calm' => Texts!SyncStands(j)',
         \A w \in Texts!Written' :
           Texts!TableOfUser(w)' \in tidy' =>
             \/ Texts!RecordIsRight(w)' \/ Texts!InHand(w)'
             \/ SameRecord(w) /\ ~Texts!Holds(h, w)
  PROVE  TextInv'
<1>1. /\ DOMAIN job' = Handlers /\ job'[h] = j
      /\ \A g \in Handlers \ {h} : job'[g] = job[g]
  BY DEF TextInv, Texts!JobsAreReal
<1>2. Texts!JobsAreReal'
  <2>1. ASSUME NEW g \in Handlers PROVE Texts!JobIsReal(job[g])'
    <3>1. CASE g = h
      BY <1>1, <3>1
    <3>2. CASE g # h
      <4>1. Texts!JobIsReal(job[g])
        BY DEF TextInv, Texts!JobsAreReal
      <4>2. PICK i : i = job[g] /\ i = job'[g]
        BY <1>1, <3>2
      <4>3. Texts!JobIsReal(i)'
        BY <4>1, <4>2, JobStaysReal
      <4>4. QED
        BY <4>2, <4>3
    <3>3. QED
      BY <3>1, <3>2
  <2>2. QED
    BY <1>1, <2>1 DEF Texts!JobsAreReal
<1>3. Texts!SyncsStand'
  <2>1. SUFFICES ASSUME calm' PROVE Texts!SyncsStand'
    BY DEF Texts!SyncsStand
  <2>2. \A g \in Handlers \ {h} : job'[g] = Texts!Resting /\ job'[g].op = "none"
    BY <1>1, <2>1, TextsRest DEF Texts!Idle
  <2>3. \A g \in Handlers : Texts!SyncStands(job[g])'
    BY <1>1, <2>1, <2>2 DEF Texts!SyncStands
  <2>4. QED
    BY <2>2, <2>3 DEF Texts!SyncsStand, Texts!Idle
<1>4. Texts!OnRecord'
  <2>1. SUFFICES ASSUME NEW w \in Texts!Written', Texts!TableOfUser(w)' \in tidy', SameRecord(w),
                        ~Texts!Holds(h, w)
                 PROVE  Texts!RecordIsRight(w)' \/ Texts!InHand(w)'
    BY DEF Texts!OnRecord
  <2>2. Texts!RecordIsRight(w) \/ Texts!InHand(w)
    BY <2>1 DEF TextInv, Texts!OnRecord, SameRecord
  <2>3. Texts!RecordIsRight(w) => Texts!RecordIsRight(w)'
    BY <2>1 DEF Texts!RecordIsRight, Texts!Live, SameRecord
  <2>4. ASSUME NEW g \in Handlers, Texts!Holds(g, w) PROVE Texts!Holds(g, w)'
    <3>1. job'[g] = job[g]
      BY <1>1, <2>1, <2>4
    <3>2. Texts!TableOfUser(w)' = Texts!TableOfUser(w)
      BY <2>1, SameTable DEF SameRecord
    <3>3. QED
      BY <2>4, <3>1, <3>2 DEF Texts!Holds, Texts!At
  <2>5. QED
    BY <2>2, <2>3, <2>4 DEF Texts!InHand
<1>5. QED
  BY <1>2, <1>3, <1>4 DEF TextInv

\* A use case of one step.
LEMMA TextAtOnce ==
  ASSUME TextInv, Texts!AtOnce, Texts!RowsAreTyped', Grown,
         \A w \in Texts!Written' :
           Texts!TableOfUser(w)' \in tidy' => Texts!RecordIsRight(w)' \/ SameRecord(w)
  PROVE  TextInv'
<1>1. job' = job /\ (calm' => calm /\ \A h \in Handlers : Texts!Idle(h))
  BY Zenon DEF Texts!AtOnce
<1>2. Texts!JobsAreReal'
  <2>1. ASSUME NEW g \in Handlers PROVE Texts!JobIsReal(job[g])'
    <3>1. Texts!JobIsReal(job[g])
      BY DEF TextInv, Texts!JobsAreReal
    <3>2. PICK i : i = job[g] /\ i = job'[g]
      BY <1>1
    <3>3. Texts!JobIsReal(i)'
      BY <3>1, <3>2, JobStaysReal
    <3>4. QED
      BY <3>2, <3>3
  <2>2. QED
    BY <1>1, <2>1 DEF TextInv, Texts!JobsAreReal
<1>3. Texts!SyncsStand'
  BY <1>1, TextsRest DEF Texts!SyncsStand, Texts!SyncStands, Texts!Idle
<1>4. Texts!OnRecord'
  <2>1. SUFFICES ASSUME NEW w \in Texts!Written', Texts!TableOfUser(w)' \in tidy', SameRecord(w)
                 PROVE  Texts!RecordIsRight(w)' \/ Texts!InHand(w)'
    BY DEF Texts!OnRecord
  <2>2. Texts!RecordIsRight(w) \/ Texts!InHand(w)
    BY <2>1 DEF TextInv, Texts!OnRecord, SameRecord
  <2>3. Texts!RecordIsRight(w) => Texts!RecordIsRight(w)'
    BY <2>1 DEF Texts!RecordIsRight, Texts!Live, SameRecord
  <2>4. ASSUME NEW g \in Handlers, Texts!Holds(g, w) PROVE Texts!Holds(g, w)'
    <3>1. Texts!TableOfUser(w)' = Texts!TableOfUser(w)
      BY <2>1, SameTable DEF SameRecord
    <3>2. QED
      BY <1>1, <2>4, <3>1 DEF Texts!Holds, Texts!At
  <2>5. QED
    BY <2>2, <2>3, <2>4 DEF Texts!InHand
<1>5. QED
  BY <1>2, <1>3, <1>4 DEF TextInv

\* What is new is recorded in its transaction.
LEMMA Inserted ==
  ASSUME Texts!NoneIsNoKind, TextInv, NEW u \in Authors, NEW kind \in Texts!Kinds,
         NEW parent \in Texts!Written \cup {None}, Texts!Insert(u, kind, parent)
  PROVE  /\ Texts!RowsAreTyped' /\ Grown
         /\ \A w \in Texts!Written' : Texts!TableOfUser(w)' \in tidy' =>
              Texts!RecordIsRight(w)' \/ SameRecord(w)
<1> DEFINE made == [kind |-> kind, author |-> u, parent |-> parent, live |-> TRUE,
                    hasChild |-> FALSE]
<1>1. PICK w \in Texts!NewWrit :
        /\ writ' = [writ EXCEPT ![w] = made] /\ record' = [record EXCEPT ![w] = "live"]
        /\ tidy' = tidy
  BY DEF Texts!Insert
<1>2. /\ w \in Writs /\ w \notin Texts!Written
      /\ Texts!RowsAreTyped
  BY DEF Texts!NewWrit, TextInv
<1>3. made \in Texts!Writ /\ made # Texts!NoWrit /\ made.live = TRUE /\ made.parent = parent
  <2>1. Texts!Written \subseteq Writs
    BY DEF Texts!Written
  <2>2. made \in Texts!Writ /\ made.live = TRUE /\ made.parent = parent
    BY <2>1 DEF Texts!Writ
  <2>3. QED
    BY <2>2, NoWritIsNone
<1> HIDE DEF made
<1>4. /\ writ' \in [Writs -> Texts!Writ \cup {Texts!NoWrit}]
      /\ record' \in [Writs -> {"none", "live", "deleted"}]
      /\ writ'[w] = made /\ record'[w] = "live"
      /\ \A v \in Writs \ {w} : writ'[v] = writ[v] /\ record'[v] = record[v]
  BY <1>1, <1>2, <1>3 DEF Texts!RowsAreTyped
<1>5. Texts!Written' = Texts!Written \cup {w}
  BY <1>2, <1>3, <1>4 DEF Texts!Written
<1>6. Texts!RowsAreTyped'
  BY <1>2, <1>3, <1>4, <1>5 DEF Texts!RowsAreTyped, Texts!Written
<1>7. Grown
  BY <1>2, <1>4, <1>5 DEF Grown, Texts!Written
<1>8. Texts!RecordIsRight(w)'
  BY <1>3, <1>4 DEF Texts!RecordIsRight, Texts!Live
<1>9. ASSUME NEW v \in Texts!Written, Texts!TableOfUser(v)' \in tidy' PROVE SameRecord(v)
  BY <1>1, <1>2, <1>4, <1>7, <1>9, SameTable DEF SameRecord, Texts!Written
<1>10. QED
  BY <1>5, <1>6, <1>7, <1>8, <1>9

LEMMA TextBegins ==
  ASSUME NEW h \in Handlers, NEW j, Texts!Begin(h, j)
  PROVE  /\ job' = [job EXCEPT ![h] = j]
         /\ calm' => calm /\ \A g \in Handlers \ {h} : Texts!Idle(g)
         /\ \A w : ~Texts!Holds(h, w)
<1>1. Texts!Idle(h) /\ job' = [job EXCEPT ![h] = j]
  BY DEF Texts!Begin
<1>2. calm' => calm /\ \A g \in Handlers \ {h} : Texts!Idle(g)
  BY Zenon DEF Texts!Begin
<1>3. QED
  BY <1>1, <1>2, TextsRest DEF Texts!Holds, Texts!At

LEMMA SameTexts ==
  ASSUME TextInv, UNCHANGED <<writ, record, tidy>>
  PROVE  /\ Texts!RowsAreTyped' /\ Grown /\ Texts!Written' = Texts!Written
         /\ \A w \in Texts!Written' : Texts!TableOfUser(w)' = Texts!TableOfUser(w)
         /\ \A w \in Texts!Written' : Texts!TableOfUser(w)' \in tidy' => SameRecord(w)
         /\ \A w : Texts!Live(w)' = Texts!Live(w)
         /\ \A w : Texts!RecordIsRight(w)' <=> Texts!RecordIsRight(w)
<1>1. Texts!Written' = Texts!Written /\ \A w : Texts!TableOfUser(w)' = Texts!TableOfUser(w)
  BY DEF Texts!Written, Texts!TableOfUser
<1>2. Texts!RowsAreTyped' /\ Grown
  BY <1>1 DEF TextInv, Texts!RowsAreTyped, Grown
<1>3. QED
  BY <1>1, <1>2 DEF SameRecord, Texts!Live, Texts!RecordIsRight

\* A step that writes nothing.
LEMMA TextQuietStep ==
  ASSUME TextInv, NEW h \in Handlers, NEW j, job' = [job EXCEPT ![h] = j],
         calm' => calm /\ \A g \in Handlers \ {h} : Texts!Idle(g),
         UNCHANGED <<writ, record, tidy>>, Texts!JobIsReal(j), calm' => Texts!SyncStands(j),
         \A w \in Texts!Written : Texts!Holds(h, w) => Texts!InHand(w)'
  PROVE  TextInv'
<1>1. /\ Texts!RowsAreTyped' /\ Grown /\ Texts!Written' = Texts!Written
      /\ \A w \in Texts!Written' : Texts!TableOfUser(w)' = Texts!TableOfUser(w)
      /\ \A w \in Texts!Written' : Texts!TableOfUser(w)' \in tidy' => SameRecord(w)
      /\ \A w : Texts!Live(w)' = Texts!Live(w)
      /\ \A w : Texts!RecordIsRight(w)' <=> Texts!RecordIsRight(w)
  BY SameTexts
<1>2. Texts!JobIsReal(j)'
  BY <1>1, JobStaysReal
<1>3. calm' => Texts!SyncStands(j)'
  BY <1>1 DEF Texts!SyncStands
<1>4. QED
  BY <1>1, <1>2, <1>3, TextStep

LEMMA PostStep ==
  ASSUME Texts!NoneIsNoKind, TextInv, NEW u \in Authors,
         \/ Texts!CreatePost(u)
         \/ \E kind \in Texts!CommentKinds : Texts!AddComment(u, kind)
  PROVE  TextInv'
<1>1. PICK kind \in Texts!Kinds : Texts!Insert(u, kind, None) /\ Texts!AtOnce
  BY DEF Texts!CreatePost, Texts!AddComment, Texts!Kinds
<1>2. QED
  BY <1>1, Inserted, TextAtOnce

LEMMA ReplyStep ==
  ASSUME Texts!NoneIsNoKind, TextInv, NEW h \in Handlers,
         \/ \E u \in Authors, kind \in Texts!CommentKinds, parent \in Texts!Written :
              Texts!AddReply(h, u, kind, parent)
         \/ Texts!AddCheckedReply(h)
  PROVE  TextInv'
<1>1. PICK u \in Authors, kind \in Texts!Kinds, parent \in Texts!Written :
        /\ Texts!Insert(u, kind, parent)
        /\ job' = [job EXCEPT ![h] = Texts!ToRefresh(parent)]
        /\ calm' => calm /\ \A g \in Handlers \ {h} : Texts!Idle(g)
        /\ \A w : ~Texts!Holds(h, w)
  <2>1. CASE Texts!AddCheckedReply(h)
    <3>1. /\ Texts!At(h, "reply") /\ Texts!JobIsReal(job[h])
          /\ Texts!Insert(job[h].author, "site_review_comment", job[h].parent)
          /\ Texts!Continue(h, Texts!ToRefresh(job[h].parent))
      BY <2>1 DEF Texts!AddCheckedReply, TextInv, Texts!JobsAreReal
    <3>2. job[h].author \in Authors /\ job[h].parent \in Texts!Written /\ job[h].op = "reply"
      BY <3>1 DEF Texts!JobIsReal, Texts!At
    <3>3. calm' => calm /\ \A g \in Handlers \ {h} : Texts!Idle(g)
      BY <3>1, <3>2, TextsAlone DEF Texts!Continue, TextInv
    <3>4. \A w : ~Texts!Holds(h, w)
      BY <3>2 DEF Texts!Holds, Texts!At
    <3>5. "site_review_comment" \in Texts!Kinds
      BY DEF Texts!Kinds, Texts!CommentKinds
    <3>6. QED
      BY <3>1, <3>2, <3>3, <3>4, <3>5 DEF Texts!Continue
  <2>2. ASSUME NEW u \in Authors, NEW kind \in Texts!CommentKinds, NEW parent \in Texts!Written,
               Texts!AddReply(h, u, kind, parent)
        PROVE  /\ Texts!Insert(u, kind, parent)
               /\ job' = [job EXCEPT ![h] = Texts!ToRefresh(parent)]
               /\ calm' => calm /\ \A g \in Handlers \ {h} : Texts!Idle(g)
               /\ \A w : ~Texts!Holds(h, w)
    BY <2>2, TextBegins DEF Texts!AddReply
  <2>3. QED
    BY <2>1, <2>2 DEF Texts!Kinds
<1>2. /\ Texts!RowsAreTyped' /\ Grown
      /\ \A w \in Texts!Written' : Texts!TableOfUser(w)' \in tidy' =>
           Texts!RecordIsRight(w)' \/ SameRecord(w)
  BY <1>1, Inserted
<1> DEFINE j == Texts!ToRefresh(parent)
<1>3. Texts!JobIsReal(j)' /\ Texts!SyncStands(j)'
  BY <1>2 DEF Texts!JobIsReal, Texts!SyncStands, Texts!ToRefresh, Grown
<1> HIDE DEF j
<1>4. job' = [job EXCEPT ![h] = j]
  BY <1>1 DEF j
<1>5. QED
  BY <1>1, <1>2, <1>3, <1>4, TextStep

LEMMA FindStep ==
  ASSUME TextInv, NEW h \in Handlers,
         \/ \E u \in Authors, parent \in Texts!Written : Texts!CheckParent(h, u, parent)
         \/ \E w \in Texts!Written : Texts!Find(h, w)
  PROVE  TextInv'
<1>1. ASSUME NEW u \in Authors, NEW parent \in Texts!Written, Texts!CheckParent(h, u, parent)
      PROVE  TextInv'
  <2> DEFINE j == [op |-> "reply", writ |-> None, author |-> u, parent |-> parent]
  <2>1. Texts!Begin(h, j) /\ UNCHANGED <<writ, record, tidy>>
    BY <1>1 DEF Texts!CheckParent
  <2>2. Texts!JobIsReal(j) /\ Texts!SyncStands(j)
    BY DEF Texts!JobIsReal, Texts!SyncStands
  <2> HIDE DEF j
  <2>3. QED
    BY <2>1, <2>2, TextBegins, TextQuietStep
<1>2. ASSUME NEW w \in Texts!Written, Texts!Find(h, w) PROVE TextInv'
  <2> DEFINE j == [op |-> IF writ[w].kind = "post_comment" THEN "tree" ELSE "delete",
                   writ |-> w, parent |-> writ[w].parent]
  <2>1. Texts!Begin(h, j) /\ UNCHANGED <<writ, record, tidy>>
    BY <1>2 DEF Texts!Find
  <2>2. writ[w].parent \in Texts!Written \cup {None}
    BY DEF TextInv, Texts!RowsAreTyped
  <2>3. j.op \in {"tree", "delete"} /\ j \in Texts!Deletion
    BY <2>2 DEF Texts!Deletion
  <2>4. Texts!JobIsReal(j) /\ Texts!SyncStands(j)
    BY <2>3 DEF Texts!JobIsReal, Texts!SyncStands
  <2> HIDE DEF j
  <2>5. QED
    BY <2>1, <2>4, TextBegins, TextQuietStep
<1>3. QED
  BY <1>1, <1>2

\* A deletion goes on to the mark of the parent, or ends.
LEMMA FinishJob ==
  ASSUME TextInv, NEW h \in Handlers, job[h].op # "none", NEW parent \in Texts!Written \cup {None},
         Texts!Finish(h, parent)
  PROVE  \E j : /\ job' = [job EXCEPT ![h] = j] /\ calm' = calm
                /\ calm' => calm /\ \A g \in Handlers \ {h} : Texts!Idle(g)
                /\ Texts!JobIsReal(j) /\ j.op # "sync"
<1>1. calm' = calm /\ (calm' => calm /\ \A g \in Handlers \ {h} : Texts!Idle(g))
  BY TextsAlone DEF Texts!Finish, Texts!End, Texts!Continue, TextInv
<1>2. CASE parent = None
  <2>1. job' = [job EXCEPT ![h] = Texts!Resting]
    BY <1>2 DEF Texts!Finish, Texts!End
  <2>2. Texts!JobIsReal(Texts!Resting) /\ Texts!Resting.op # "sync"
    BY TextsRest DEF Texts!JobIsReal
  <2>3. QED
    BY <1>1, <2>1, <2>2
<1>3. CASE parent # None
  <2>1. job' = [job EXCEPT ![h] = Texts!ToRefresh(parent)]
    BY <1>3 DEF Texts!Finish, Texts!Continue
  <2>2. Texts!JobIsReal(Texts!ToRefresh(parent)) /\ Texts!ToRefresh(parent).op # "sync"
    BY <1>3 DEF Texts!JobIsReal, Texts!ToRefresh
  <2>3. QED
    BY <1>1, <2>1, <2>2
<1>4. QED
  BY <1>2, <1>3


\* What is deleted is deleted, and nothing else changes.
LEMMA Deleted ==
  ASSUME Texts!NoneIsNoKind, TextInv, NEW deleted, deleted \subseteq Texts!Written,
         writ' = [v \in Writs |->
                   IF v \in deleted THEN [writ[v] EXCEPT !.live = FALSE] ELSE writ[v]],
         record' \in [Writs -> {"none", "live", "deleted"}]
  PROVE  /\ Texts!RowsAreTyped' /\ Grown /\ Texts!Written' = Texts!Written
         /\ \A v \in deleted : ~writ'[v].live
         /\ \A v \in Writs \ deleted : writ'[v] = writ[v]
         /\ \A v \in deleted : writ'[v].parent = writ[v].parent
<1>1. ASSUME NEW r \in Texts!Writ, NEW s, s = [r EXCEPT !.live = FALSE]
      PROVE  /\ s \in Texts!Writ /\ ~s.live
             /\ s.kind = r.kind /\ s.author = r.author /\ s.parent = r.parent
  BY <1>1 DEF Texts!Writ
<1>2. /\ writ \in [Writs -> Texts!Writ \cup {Texts!NoWrit}]
      /\ \A w \in Texts!Written : w \in Writs /\ writ[w] \in Texts!Writ
  BY DEF TextInv, Texts!RowsAreTyped, Texts!Written
<1>3. ASSUME NEW v \in deleted
      PROVE  /\ v \in Texts!Written /\ writ'[v] \in Texts!Writ /\ ~writ'[v].live
             /\ writ'[v].kind = writ[v].kind /\ writ'[v].author = writ[v].author
             /\ writ'[v].parent = writ[v].parent
  <2>1. v \in Writs /\ writ[v] \in Texts!Writ /\ v \in Texts!Written
    BY <1>2, <1>3
  <2>2. PICK s : s = [writ[v] EXCEPT !.live = FALSE]
    OBVIOUS
  <2>3. writ'[v] = s
    BY <1>3, <2>1, <2>2
  <2>4. QED
    BY <1>1, <2>1, <2>2, <2>3
<1>4. \A v \in Writs \ deleted : writ'[v] = writ[v]
  OBVIOUS
<1>5. writ' \in [Writs -> Texts!Writ \cup {Texts!NoWrit}]
  <2>1. \A v \in Writs : writ'[v] \in Texts!Writ \cup {Texts!NoWrit}
    BY <1>2, <1>3, <1>4
  <2>2. writ' = [v \in Writs |-> writ'[v]]
    OBVIOUS
  <2>3. QED
    BY <2>1, <2>2, Zenon
<1>6. Texts!Written' = Texts!Written
  BY <1>3, <1>4, NoWritIsNone DEF Texts!Written
<1>7. Grown
  BY <1>2, <1>3, <1>4, <1>6 DEF Grown
<1>8. Texts!RowsAreTyped'
  BY <1>2, <1>3, <1>4, <1>5, <1>6 DEF TextInv, Texts!RowsAreTyped
<1>9. QED
  BY <1>3, <1>4, <1>6, <1>7, <1>8

\* More comments to go through lead to more.
LEMMA BelowGrows ==
  ASSUME NEW w, NEW few, NEW many, few \subseteq many
  PROVE  /\ Texts!Below(w, few) \subseteq Texts!Below(w, many)
         /\ Texts!Below(w, few) \subseteq few
<1>1. Texts!Below(w, few) \subseteq few
  BY DEF Texts!Below
<1>2. ASSUME NEW v \in Texts!Below(w, few) PROVE v \in Texts!Below(w, many)
  <2>1. v \in many
    BY <1>1, <1>2
  <2>2. ASSUME NEW S \in SUBSET many,
               \A u \in many : writ[u].parent \in S \cup {w} => u \in S
        PROVE  v \in S
    <3>1. S \cap few \in SUBSET few
      OBVIOUS
    <3>2. \A u \in few : writ[u].parent \in (S \cap few) \cup {w} => u \in S \cap few
      BY <2>2
    <3>3. v \in S \cap few
      BY <1>2, <3>1, <3>2 DEF Texts!Below
    <3>4. QED
      BY <3>3
  <2>3. QED
    BY <2>1, <2>2 DEF Texts!Below
<1>3. QED
  BY <1>1, <1>2

LEMMA DeleteTreeStep ==
  ASSUME Texts!NoneIsNoKind, TextInv, NEW h \in Handlers, Texts!DeleteTree(h)
  PROVE  TextInv'
<1> DEFINE w == job[h].writ
<1> DEFINE live == {v \in Texts!Written : Texts!Live(v)}
<1> DEFINE deleted == {w} \cup Texts!Below(w, live)
<1> DEFINE through == deleted \cup {v \in Texts!Written : ~Texts!Live(v)}
<1> DEFINE unrecorded == {w} \cup Texts!Below(w, through)
<1>1. /\ job[h].op = "tree" /\ Texts!Finish(h, job[h].parent)
      /\ Texts!JobIsReal(job[h]) /\ tidy' = tidy
  BY DEF Texts!DeleteTree, Texts!At, TextInv, Texts!JobsAreReal
<1>2. w \in Texts!Written /\ job[h].parent \in Texts!Written \cup {None}
  BY <1>1 DEF Texts!JobIsReal, Texts!Deletion
<1>3. /\ writ' = [v \in Writs |->
                   IF v \in deleted THEN [writ[v] EXCEPT !.live = FALSE] ELSE writ[v]]
      /\ record' = [v \in Writs |-> IF v \in unrecorded THEN "deleted" ELSE record[v]]
  BY DEF Texts!DeleteTree, Texts!DeletedWith
<1>4. /\ deleted \subseteq Texts!Written /\ deleted \subseteq unrecorded
      /\ unrecorded \subseteq through
  <2>1. Texts!Below(w, live) \subseteq live
    BY BelowGrows
  <2>2. Texts!Below(w, live) = Texts!Below(w, Texts!Below(w, live))
    <3> DEFINE below == Texts!Below(w, live)
    <3>1. ASSUME NEW v \in below PROVE v \in Texts!Below(w, below)
      <4>1. ASSUME NEW S \in SUBSET below,
                   \A u \in below : writ[u].parent \in S \cup {w} => u \in S
            PROVE  v \in S
        <5>1. S \in SUBSET live
          BY <2>1
        <5>2. ASSUME NEW u \in live, writ[u].parent \in S \cup {w} PROVE u \in S
          <6>1. u \in below
            BY <5>2 DEF Texts!Below
          <6>2. QED
            BY <4>1, <5>2, <6>1
        <5>3. QED
          BY <3>1, <5>1, <5>2 DEF Texts!Below
      <4>2. QED
        BY <3>1, <4>1 DEF Texts!Below
    <3>2. Texts!Below(w, below) \subseteq below
      BY BelowGrows
    <3>3. QED
      BY <3>1, <3>2
  <2>3. Texts!Below(w, Texts!Below(w, live)) \subseteq Texts!Below(w, through)
    BY BelowGrows
  <2>4. Texts!Below(w, through) \subseteq through
    BY BelowGrows
  <2>5. QED
    BY <1>2, <2>1, <2>2, <2>3, <2>4
<1> HIDE DEF deleted, unrecorded, live
<1>5. record' \in [Writs -> {"none", "live", "deleted"}]
  BY <1>3 DEF TextInv, Texts!RowsAreTyped
<1>6. /\ Texts!RowsAreTyped' /\ Grown /\ Texts!Written' = Texts!Written
      /\ \A v \in deleted : ~writ'[v].live
      /\ \A v \in Writs \ deleted : writ'[v] = writ[v]
  BY <1>3, <1>4, <1>5, Deleted
<1>7. PICK j : /\ job' = [job EXCEPT ![h] = j] /\ calm' = calm
               /\ calm' => calm /\ \A g \in Handlers \ {h} : Texts!Idle(g)
               /\ Texts!JobIsReal(j) /\ j.op # "sync"
  BY <1>1, <1>2, FinishJob
<1>8. Texts!JobIsReal(j)' /\ Texts!SyncStands(j)'
  BY <1>6, <1>7, JobStaysReal DEF Texts!SyncStands
<1>9. ASSUME NEW v \in Texts!Written', Texts!TableOfUser(v)' \in tidy'
      PROVE  Texts!RecordIsRight(v)' \/ (SameRecord(v) /\ ~Texts!Holds(h, v))
  <2>1. v \in Writs /\ v \in Texts!Written
    BY <1>6 DEF Texts!Written
  <2>2. CASE v \in unrecorded
    <3>1. record'[v] = "deleted"
      BY <1>3, <2>1, <2>2
    <3>2. ~writ'[v].live
      <4>1. CASE v \in deleted
        BY <1>6, <4>1
      <4>2. CASE v \notin deleted
        <5>1. ~writ[v].live /\ writ'[v] = writ[v]
          BY <1>4, <1>6, <2>1, <2>2, <4>2 DEF Texts!Live
        <5>2. QED
          BY <5>1
      <4>3. QED
        BY <4>1, <4>2
    <3>3. QED
      BY <3>1, <3>2 DEF Texts!RecordIsRight, Texts!Live
  <2>3. CASE v \notin unrecorded
    <3>1. record'[v] = record[v] /\ writ'[v] = writ[v]
      BY <1>3, <1>4, <1>6, <2>1, <2>3
    <3>2. Texts!TableOfUser(v) \in tidy
      BY <1>1, <1>6, <1>9, <2>1, SameTable
    <3>3. ~Texts!Holds(h, v)
      BY <1>1 DEF Texts!Holds, Texts!At
    <3>4. QED
      BY <2>1, <3>1, <3>2, <3>3 DEF SameRecord
  <2>4. QED
    BY <2>2, <2>3
<1>10. QED
  BY <1>6, <1>7, <1>8, <1>9, TextStep

\* One row, and then its record.
LEMMA DeleteStep ==
  ASSUME Texts!NoneIsNoKind, TextInv, NEW h \in Handlers,
         Texts!Delete(h) \/ Texts!DeleteRecord(h)
  PROVE  TextInv'
<1> DEFINE w == job[h].writ
<1>1. /\ job[h].op \in {"delete", "record"} /\ Texts!JobIsReal(job[h]) /\ tidy' = tidy
      /\ calm => \A g \in Handlers \ {h} : Texts!Idle(g)
  <2>1. job[h].op \in {"delete", "record"}
    BY DEF Texts!Delete, Texts!DeleteRecord, Texts!At
  <2>2. QED
    BY <2>1, TextsAlone DEF Texts!Delete, Texts!DeleteRecord, TextInv, Texts!JobsAreReal
<1>2. w \in Texts!Written /\ w \in Writs /\ job[h].parent \in Texts!Written \cup {None}
  BY <1>1 DEF Texts!JobIsReal, Texts!Deletion, Texts!Written
<1>3. CASE Texts!Delete(h)
  <2>0. PICK j : j = [job[h] EXCEPT !.op = "record"]
    OBVIOUS
  <2>1. /\ job[h].op = "delete" /\ record' = record /\ calm' = calm
        /\ job' = [job EXCEPT ![h] = j]
        /\ writ' = [writ EXCEPT ![w].live = FALSE]
    BY <1>3, <2>0 DEF Texts!Delete, Texts!At, Texts!Continue
  <2>2. /\ writ' = [v \in Writs |->
                     IF v \in {w} THEN [writ[v] EXCEPT !.live = FALSE] ELSE writ[v]]
        /\ record' \in [Writs -> {"none", "live", "deleted"}]
    BY <1>2, <2>1 DEF TextInv, Texts!RowsAreTyped
  <2>3. /\ Texts!RowsAreTyped' /\ Grown /\ Texts!Written' = Texts!Written
        /\ \A v \in {w} : ~writ'[v].live
        /\ \A v \in Writs \ {w} : writ'[v] = writ[v]
    BY <1>2, <2>2, Deleted
  <2>4. j.op = "record" /\ j.writ = w /\ j.parent = job[h].parent
    BY <1>1, <2>0, <2>1 DEF Texts!JobIsReal, Texts!Deletion
  <2>5. Texts!JobIsReal(j)' /\ Texts!SyncStands(j)'
    BY <1>2, <2>3, <2>4 DEF Texts!JobIsReal, Texts!SyncStands, Texts!Live
  <2>6. ASSUME NEW v \in Texts!Written', Texts!TableOfUser(v)' \in tidy'
        PROVE  Texts!InHand(v)' \/ (SameRecord(v) /\ ~Texts!Holds(h, v))
    <3>1. CASE v = w
      <4>1. job'[h] = j
        BY <2>1 DEF TextInv, Texts!JobsAreReal
      <4>2. QED
        <5>1. job'[h].op = "record" /\ job'[h].writ = v
          BY <2>4, <3>1, <4>1
        <5>2. QED
          BY <5>1 DEF Texts!InHand, Texts!Holds, Texts!At
    <3>2. CASE v # w
      <4>1. v \in Texts!Written /\ writ'[v] = writ[v] /\ record'[v] = record[v]
        BY <2>1, <2>3, <3>2 DEF Texts!Written
      <4>2. Texts!TableOfUser(v) \in tidy
        BY <1>1, <2>3, <2>6, <4>1, SameTable
      <4>3. ~Texts!Holds(h, v)
        BY <2>1 DEF Texts!Holds, Texts!At
      <4>4. QED
        BY <4>1, <4>2, <4>3 DEF SameRecord
    <3>3. QED
      BY <3>1, <3>2
  <2>7. QED
    BY <1>1, <2>1, <2>3, <2>5, <2>6, TextStep
<1>4. CASE Texts!DeleteRecord(h)
  <2>1. /\ job[h].op = "record" /\ writ' = writ
        /\ record' = [record EXCEPT ![w] = "deleted"]
        /\ Texts!Finish(h, job[h].parent)
    BY <1>4 DEF Texts!DeleteRecord, Texts!At
  <2>2. ~Texts!Live(w)
    BY <1>1, <2>1 DEF Texts!JobIsReal
  <2>3. /\ Texts!Written' = Texts!Written
        /\ record' \in [Writs -> {"none", "live", "deleted"}]
    BY <1>2, <2>1 DEF TextInv, Texts!RowsAreTyped, Texts!Written
  <2>4. Texts!RowsAreTyped' /\ Grown
    BY <2>1, <2>3 DEF TextInv, Texts!RowsAreTyped, Grown
  <2>5. PICK j : /\ job' = [job EXCEPT ![h] = j] /\ calm' = calm
                 /\ calm' => calm /\ \A g \in Handlers \ {h} : Texts!Idle(g)
                 /\ Texts!JobIsReal(j) /\ j.op # "sync"
    BY <1>2, <2>1, FinishJob
  <2>6. Texts!JobIsReal(j)' /\ Texts!SyncStands(j)'
    BY <2>4, <2>5, JobStaysReal DEF Texts!SyncStands
  <2>7. ASSUME NEW v \in Texts!Written', Texts!TableOfUser(v)' \in tidy'
        PROVE  Texts!RecordIsRight(v)' \/ (SameRecord(v) /\ ~Texts!Holds(h, v))
    <3>1. CASE v = w
      <4>1. record'[w] = "deleted"
        BY <1>2, <2>1 DEF TextInv, Texts!RowsAreTyped
      <4>2. QED
        BY <2>1, <2>2, <3>1, <4>1 DEF Texts!RecordIsRight, Texts!Live
    <3>2. CASE v # w
      <4>1. v \in Texts!Written /\ writ'[v] = writ[v] /\ record'[v] = record[v]
        BY <2>1, <2>3, <3>2 DEF TextInv, Texts!RowsAreTyped, Texts!Written
      <4>2. Texts!TableOfUser(v) \in tidy
        BY <1>1, <2>4, <2>7, <4>1, SameTable
      <4>3. ~Texts!Holds(h, v)
        BY <2>1, <3>2 DEF Texts!Holds, Texts!At
      <4>4. QED
        BY <4>1, <4>2, <4>3 DEF SameRecord
    <3>3. QED
      BY <3>1, <3>2
  <2>8. QED
    BY <2>4, <2>5, <2>6, <2>7, TextStep
<1>5. QED
  BY <1>3, <1>4

LEMMA MarkStep ==
  ASSUME Texts!NoneIsNoKind, TextInv, NEW h \in Handlers,
         Texts!LookForChild(h) \/ Texts!UpdateHasChild(h)
  PROVE  TextInv'
<1> DEFINE p == job[h].parent
<1>1. /\ job[h].op \in {"refresh", "flag"} /\ Texts!JobIsReal(job[h])
      /\ record' = record /\ tidy' = tidy /\ calm' = calm
      /\ calm => \A g \in Handlers \ {h} : Texts!Idle(g)
  <2>1. job[h].op \in {"refresh", "flag"}
    BY DEF Texts!LookForChild, Texts!UpdateHasChild, Texts!At
  <2>2. QED
    BY <2>1, TextsAlone
    DEF Texts!LookForChild, Texts!UpdateHasChild, Texts!Continue, Texts!End, TextInv,
        Texts!JobsAreReal
<1>2. p \in Texts!Written /\ p \in Writs /\ writ[p] \in Texts!Writ
  BY <1>1 DEF Texts!JobIsReal, Texts!Written, TextInv, Texts!RowsAreTyped
<1>3. \A w : ~Texts!Holds(h, w)
  BY <1>1 DEF Texts!Holds, Texts!At
<1>4. CASE Texts!LookForChild(h)
  <2>1. PICK found \in BOOLEAN : found = Texts!HasLiveReply(p)
    BY Zenon DEF Texts!HasLiveReply
  <2>2. PICK j : /\ j = [op |-> "flag", writ |-> None, parent |-> p, hasChild |-> found]
                 /\ job' = [job EXCEPT ![h] = j] /\ writ' = writ
    BY <1>4, <2>1, Zenon DEF Texts!LookForChild, Texts!Continue
  <2>3. Texts!JobIsReal(j) /\ Texts!SyncStands(j)
    BY <1>2, <2>2 DEF Texts!JobIsReal, Texts!SyncStands
  <2>4. QED
    BY <1>1, <1>3, <2>2, <2>3, TextQuietStep
<1>5. CASE Texts!UpdateHasChild(h)
  <2>1. /\ job' = [job EXCEPT ![h] = Texts!Resting]
        /\ job[h].hasChild \in BOOLEAN
        /\ writ' = [writ EXCEPT ![p].hasChild = job[h].hasChild]
    BY <1>1, <1>5 DEF Texts!UpdateHasChild, Texts!End, Texts!JobIsReal, Texts!At
  <2>2. PICK s : s = [writ[p] EXCEPT !.hasChild = job[h].hasChild]
    OBVIOUS
  <2>3. /\ s \in Texts!Writ /\ s.live = writ[p].live
        /\ s.kind = writ[p].kind /\ s.author = writ[p].author /\ s.parent = writ[p].parent
    BY <1>2, <2>1, <2>2 DEF Texts!Writ
  <2>4. /\ writ' \in [Writs -> Texts!Writ \cup {Texts!NoWrit}]
        /\ writ'[p] = s /\ \A w \in Writs \ {p} : writ'[w] = writ[w]
    BY <1>2, <2>1, <2>2, <2>3 DEF TextInv, Texts!RowsAreTyped
  <2>5. Texts!Written' = Texts!Written
    BY <1>2, <2>3, <2>4, NoWritIsNone DEF Texts!Written
  <2>6. \A w \in Texts!Written :
          /\ writ'[w].kind = writ[w].kind /\ writ'[w].author = writ[w].author
          /\ writ'[w].parent = writ[w].parent /\ writ'[w].live = writ[w].live
    BY <2>3, <2>4 DEF Texts!Written
  <2>7. Grown
    BY <2>5, <2>6 DEF Grown
  <2>8. Texts!RowsAreTyped'
    BY <1>1, <2>4, <2>5, <2>6 DEF TextInv, Texts!RowsAreTyped
  <2>9. ASSUME NEW w \in Texts!Written', Texts!TableOfUser(w)' \in tidy' PROVE SameRecord(w)
    BY <1>1, <2>5, <2>6, <2>7, <2>9, SameTable DEF SameRecord
  <2>10. Texts!JobIsReal(Texts!Resting)' /\ Texts!SyncStands(Texts!Resting)'
    BY TextsRest DEF Texts!JobIsReal, Texts!SyncStands
  <2>11. QED
    BY <1>1, <1>3, <2>1, <2>7, <2>8, <2>9, <2>10, TextStep
<1>6. QED
  BY <1>4, <1>5

\* What breaks off was to take a record away, and the table is not tidy then; or
\* it is a command, and the table is not tidy if it was not alone.
LEMMA TextFails ==
  ASSUME TextInv, NEW h \in Handlers, Texts!Fail(h)
  PROVE  TextInv'
<1>1. /\ ~Texts!Idle(h) /\ job' = [job EXCEPT ![h] = Texts!Resting] /\ calm' = calm
      /\ UNCHANGED <<writ, record>>
      /\ tidy' = CASE Texts!At(h, "record") -> tidy \ {Texts!TableOfUser(job[h].writ)}
                   [] Texts!At(h, "sync") /\ ~calm -> tidy \ {<<job[h].author, job[h].table>>}
                   [] OTHER -> tidy
  BY DEF Texts!Fail, Texts!End
<1>2. calm => \A g \in Handlers \ {h} : Texts!Idle(g)
  BY <1>1 DEF TextInv, Texts!SyncsStand
<1>3. Texts!Written' = Texts!Written /\ \A w : Texts!TableOfUser(w)' = Texts!TableOfUser(w)
  BY <1>1 DEF Texts!Written, Texts!TableOfUser
<1>4. Texts!RowsAreTyped' /\ Grown
  BY <1>1, <1>3 DEF TextInv, Texts!RowsAreTyped, Grown
<1>5. Texts!JobIsReal(Texts!Resting)' /\ Texts!SyncStands(Texts!Resting)'
  BY TextsRest DEF Texts!JobIsReal, Texts!SyncStands
<1>6. ASSUME NEW w \in Texts!Written', Texts!TableOfUser(w)' \in tidy'
      PROVE  SameRecord(w) /\ ~Texts!Holds(h, w)
  <2>1. w \in Texts!Written /\ Texts!TableOfUser(w) \in tidy'
    BY <1>3, <1>6
  <2>2. CASE Texts!At(h, "record")
    <3>1. tidy' = tidy \ {Texts!TableOfUser(job[h].writ)} /\ ~Texts!At(h, "sync")
      BY <1>1, <2>2 DEF Texts!At
    <3>2. QED
      BY <1>1, <2>1, <3>1 DEF SameRecord, Texts!Holds
  <2>3. CASE Texts!At(h, "sync") /\ ~calm
    <3>1. tidy' = tidy \ {<<job[h].author, job[h].table>>} /\ ~Texts!At(h, "record")
      BY <1>1, <2>3 DEF Texts!At
    <3>2. QED
      BY <1>1, <2>1, <3>1 DEF SameRecord, Texts!Holds
  <2>4. CASE ~Texts!At(h, "record") /\ ~(Texts!At(h, "sync") /\ ~calm)
    <3>1. tidy' = tidy
      BY <1>1, <2>4
    <3>2. QED
      BY <1>1, <2>1, <2>4, <3>1 DEF SameRecord, Texts!Holds
  <2>5. QED
    BY <2>2, <2>3, <2>4
<1>7. QED
  BY <1>1, <1>2, <1>4, <1>5, <1>6, TextStep

LEMMA SyncBegins ==
  ASSUME TextInv, NEW h \in Handlers,
         NEW u \in Authors, NEW table \in {"user_posts", "user_comments"},
         Texts!Sync(h, u, table)
  PROVE  TextInv'
<1> DEFINE j == [op |-> "sync", author |-> u, table |-> table, kinds |-> Texts!Listed(table),
                 listed |-> {}, todo |-> {}, writ |-> None, parent |-> None]
<1>1. Texts!Begin(h, j) /\ UNCHANGED <<writ, record, tidy>>
  BY DEF Texts!Sync
<1>2. /\ Texts!Listed(table) \in Seq(Texts!Kinds)
      /\ \A i \in 1..Len(Texts!Listed(table)) : Texts!TableOf(Texts!Listed(table)[i]) = table
      /\ \A kind \in Texts!Kinds :
           Texts!TableOf(kind) = table =>
             \E i \in 1..Len(Texts!Listed(table)) : Texts!Listed(table)[i] = kind
  <2>1. CASE table = "user_posts"
    <3>1. PICK kinds : kinds = <<"post">> /\ kinds = Texts!Listed(table)
      BY <2>1 DEF Texts!Listed
    <3>2. Len(kinds) = 1 /\ kinds[1] = "post"
      BY <3>1
    <3>3. kinds \in Seq(Texts!Kinds)
      BY <3>1 DEF Texts!Kinds
    <3>4. \A i \in 1..Len(kinds) : Texts!TableOf(kinds[i]) = table
      BY <2>1, <3>2 DEF Texts!TableOf
    <3>5. \A kind \in Texts!Kinds :
            Texts!TableOf(kind) = table => \E i \in 1..1 : kind = kinds[i]
      BY <2>1, <3>2 DEF Texts!TableOf
    <3>6. QED
      BY <3>1, <3>2, <3>3, <3>4, <3>5
  <2>2. CASE table = "user_comments"
    <3>1. PICK kinds : /\ kinds = <<"post_comment", "site_review_comment", "scam_report_comment">>
                       /\ kinds = Texts!Listed(table)
      BY <2>2 DEF Texts!Listed
    <3>2. /\ Len(kinds) = 3 /\ kinds[1] = "post_comment"
          /\ kinds[2] = "site_review_comment" /\ kinds[3] = "scam_report_comment"
      BY <3>1
    <3>3. kinds \in Seq(Texts!Kinds)
      BY <3>1 DEF Texts!Kinds, Texts!CommentKinds
    <3>4. \A i \in 1..Len(kinds) : Texts!TableOf(kinds[i]) = table
      BY <2>2, <3>2 DEF Texts!TableOf
    <3>5. \A kind \in Texts!Kinds :
            Texts!TableOf(kind) = table => \E i \in 1..3 : kind = kinds[i]
      BY <2>2, <3>2 DEF Texts!TableOf, Texts!Kinds, Texts!CommentKinds
    <3>6. QED
      BY <3>1, <3>2, <3>3, <3>4, <3>5
  <2>3. QED
    BY <2>1, <2>2
<1>3. j \in Texts!SyncCommand
  BY <1>2 DEF Texts!SyncCommand
<1>4. Texts!JobIsReal(j)
  BY <1>2, <1>3 DEF Texts!JobIsReal
<1>5. Texts!SyncStands(j)
  <2>1. \A w \in Texts!Written : writ[w].kind \in Texts!Kinds
    BY DEF TextInv, Texts!RowsAreTyped, Texts!Written, Texts!Writ
  <2>2. QED
    BY <1>2, <2>1 DEF Texts!SyncStands, Texts!TableOfUser
<1> HIDE DEF j
<1>6. QED
  BY <1>1, <1>4, <1>5, TextBegins, TextQuietStep

\* A command that goes on, or ends.
LEMMA SyncJob ==
  ASSUME TextInv, NEW h \in Handlers, Texts!At(h, "sync"), NEW i, i = job[h]
  PROVE  /\ i \in Texts!SyncCommand /\ i.op = "sync"
         /\ \A n \in 1..Len(i.kinds) : Texts!TableOf(i.kinds[n]) = i.table
         /\ \A w \in i.listed : w \in Texts!Written /\ Texts!TableOfUser(w) = <<i.author, i.table>>
         /\ \A entry \in i.todo : /\ entry \in Texts!Written \X BOOLEAN
                                  /\ entry[1] \in i.listed /\ entry[2] \in BOOLEAN
         /\ calm => Texts!SyncStands(i) /\ \A g \in Handlers \ {h} : Texts!Idle(g)
         /\ \A w : Texts!Holds(h, w) <=> ~calm /\ <<i.author, i.table>> = Texts!TableOfUser(w)
<1>1. /\ Texts!JobIsReal(i) /\ i.op = "sync" /\ job[h].op # "none"
      /\ calm => Texts!SyncStands(i)
  BY DEF Texts!At, TextInv, Texts!JobsAreReal, Texts!SyncsStand
<1>2. i \in Texts!SyncCommand
  BY <1>1 DEF Texts!JobIsReal
<1>3. /\ i.listed \subseteq Texts!Written /\ i.todo \subseteq Texts!Written \X BOOLEAN
      /\ \A entry \in i.todo : entry[2] \in BOOLEAN
  BY <1>2 DEF Texts!SyncCommand
<1>4. calm => \A g \in Handlers \ {h} : Texts!Idle(g)
  BY <1>1, TextsAlone DEF TextInv
<1>5. \A w : Texts!Holds(h, w) <=> ~calm /\ <<i.author, i.table>> = Texts!TableOfUser(w)
  BY <1>1 DEF Texts!Holds, Texts!At
<1>6. QED
  BY <1>1, <1>2, <1>3, <1>4, <1>5 DEF Texts!JobIsReal

LEMMA ListStep ==
  ASSUME TextInv, NEW h \in Handlers, Texts!ListRows(h)
  PROVE  TextInv'
<1>1. PICK i : i = job[h]
  OBVIOUS
<1> DEFINE rows == {w \in Texts!Written : writ[w].author = i.author /\ writ[w].kind = i.kinds[1]}
<1> DEFINE todo == {<<w, Texts!Live(w)>> : w \in rows}
<1>2. PICK j : j = [i EXCEPT !.listed = @ \cup rows, !.todo = todo, !.kinds = Tail(@)]
  OBVIOUS
<1>3. /\ Texts!At(h, "sync") /\ i.todo = {} /\ i.kinds # <<>>
      /\ job' = [job EXCEPT ![h] = j] /\ calm' = calm
      /\ UNCHANGED <<writ, record, tidy>>
  BY <1>1, <1>2 DEF Texts!ListRows, Texts!Continue
<1>4. /\ i \in Texts!SyncCommand /\ i.op = "sync"
      /\ \A n \in 1..Len(i.kinds) : Texts!TableOf(i.kinds[n]) = i.table
      /\ \A w \in i.listed : w \in Texts!Written /\ Texts!TableOfUser(w) = <<i.author, i.table>>
      /\ calm => Texts!SyncStands(i) /\ \A g \in Handlers \ {h} : Texts!Idle(g)
      /\ \A w : Texts!Holds(h, w) <=> ~calm /\ <<i.author, i.table>> = Texts!TableOfUser(w)
  BY <1>1, <1>3, SyncJob
<1>5. /\ Tail(i.kinds) \in Seq(Texts!Kinds) /\ Len(i.kinds) \in Nat \ {0}
      /\ Len(Tail(i.kinds)) = Len(i.kinds) - 1
      /\ \A n \in 1..Len(i.kinds) - 1 : Tail(i.kinds)[n] = i.kinds[n + 1]
  <2>1. i.kinds \in Seq(Texts!Kinds)
    BY <1>4 DEF Texts!SyncCommand
  <2>2. QED
    BY <1>3, <2>1
<1>6. /\ rows \subseteq Texts!Written
      /\ \A w \in rows : Texts!TableOfUser(w) = <<i.author, i.table>>
  BY <1>4, <1>5 DEF Texts!TableOfUser
<1>7. /\ todo \subseteq Texts!Written \X BOOLEAN
      /\ \A entry \in todo : entry[1] \in rows /\ entry[2] = Texts!Live(entry[1])
  <2>1. \A w \in rows : Texts!Live(w) \in BOOLEAN
    BY <1>6 DEF TextInv, Texts!RowsAreTyped, Texts!Written, Texts!Writ, Texts!Live
  <2>2. QED
    BY <1>6, <2>1
<1> HIDE DEF rows, todo
<1>8. /\ j \in Texts!SyncCommand /\ j.op = "sync" /\ j.author = i.author /\ j.table = i.table
      /\ j.listed = i.listed \cup rows /\ j.todo = todo /\ j.kinds = Tail(i.kinds)
  BY <1>2, <1>4, <1>5, <1>6, <1>7 DEF Texts!SyncCommand
<1>9. Texts!JobIsReal(j)
  BY <1>4, <1>5, <1>6, <1>7, <1>8 DEF Texts!JobIsReal
<1>10. ASSUME calm PROVE Texts!SyncStands(j)
  <2>1. ASSUME NEW w \in Texts!Written, Texts!TableOfUser(w) = <<j.author, j.table>>
        PROVE  w \in j.listed \/ \E n \in 1..Len(j.kinds) : j.kinds[n] = writ[w].kind
    <3>1. w \in i.listed \/ \E n \in 1..Len(i.kinds) : i.kinds[n] = writ[w].kind
      BY <1>4, <1>8, <1>10, <2>1 DEF Texts!SyncStands
    <3>2. CASE w \in i.listed
      BY <1>8, <3>2
    <3>3. CASE i.kinds[1] = writ[w].kind
      BY <1>8, <2>1, <3>3 DEF rows, Texts!TableOfUser
    <3>4. ASSUME NEW n \in 1..Len(i.kinds), n # 1, i.kinds[n] = writ[w].kind
          PROVE  \E m \in 1..Len(j.kinds) : j.kinds[m] = writ[w].kind
      <4>1. n - 1 \in 1..Len(i.kinds) - 1
        BY <1>5, <3>4
      <4>2. QED
        BY <1>5, <1>8, <3>4, <4>1
    <3>5. QED
      BY <3>1, <3>2, <3>3, <3>4
  <2>2. \A w \in i.listed : Texts!RecordIsRight(w)
    BY <1>3, <1>4, <1>10 DEF Texts!SyncStands
  <2>3. \A w \in rows : <<w, Texts!Live(w)>> \in todo
    BY DEF todo
  <2>4. QED
    BY <1>7, <1>8, <2>1, <2>2, <2>3 DEF Texts!SyncStands
<1>11. ASSUME NEW w \in Texts!Written, Texts!Holds(h, w) PROVE Texts!InHand(w)'
  <2>1. job'[h] = j /\ Texts!TableOfUser(w)' = Texts!TableOfUser(w)
    BY <1>3 DEF TextInv, Texts!JobsAreReal, Texts!TableOfUser
  <2>2. Texts!Holds(h, w)'
    BY <1>3, <1>4, <1>8, <1>11, <2>1 DEF Texts!Holds, Texts!At
  <2>3. QED
    BY <2>2 DEF Texts!InHand
<1>12. QED
  BY <1>3, <1>4, <1>9, <1>10, <1>11, TextQuietStep

LEMMA SyncRowStep ==
  ASSUME TextInv, NEW h \in Handlers, Texts!SyncRow(h)
  PROVE  TextInv'
<1>1. PICK i : i = job[h]
  OBVIOUS
<1>2. PICK entry \in i.todo :
        /\ record' = [record EXCEPT ![entry[1]] = IF entry[2] THEN "live" ELSE "deleted"]
        /\ job' = [job EXCEPT ![h] = [i EXCEPT !.todo = @ \ {entry}]]
        /\ calm' = calm
  BY <1>1 DEF Texts!SyncRow, Texts!Continue
<1>3. PICK j : j = [i EXCEPT !.todo = @ \ {entry}]
  OBVIOUS
<1>4. Texts!At(h, "sync") /\ writ' = writ /\ tidy' = tidy /\ job' = [job EXCEPT ![h] = j]
  BY <1>2, <1>3 DEF Texts!SyncRow
<1>5. /\ i \in Texts!SyncCommand /\ i.op = "sync"
      /\ \A n \in 1..Len(i.kinds) : Texts!TableOf(i.kinds[n]) = i.table
      /\ \A w \in i.listed : w \in Texts!Written /\ Texts!TableOfUser(w) = <<i.author, i.table>>
      /\ \A e \in i.todo : e[1] \in i.listed /\ e[2] \in BOOLEAN
      /\ calm => Texts!SyncStands(i) /\ \A g \in Handlers \ {h} : Texts!Idle(g)
      /\ \A w : Texts!Holds(h, w) <=> ~calm /\ <<i.author, i.table>> = Texts!TableOfUser(w)
  BY <1>1, <1>4, SyncJob
<1>6. /\ j \in Texts!SyncCommand /\ j.op = "sync" /\ j.author = i.author /\ j.table = i.table
      /\ j.listed = i.listed /\ j.todo = i.todo \ {entry} /\ j.kinds = i.kinds
  BY <1>3, <1>5 DEF Texts!SyncCommand
<1>7. Texts!JobIsReal(j)
  BY <1>5, <1>6 DEF Texts!JobIsReal
<1>8. /\ Texts!Written' = Texts!Written /\ \A w : Texts!TableOfUser(w)' = Texts!TableOfUser(w)
      /\ \A w : Texts!Live(w)' = Texts!Live(w)
  BY <1>4 DEF Texts!Written, Texts!TableOfUser, Texts!Live
<1>9. /\ entry[1] \in Texts!Written /\ entry[1] \in Writs
      /\ Texts!TableOfUser(entry[1]) = <<i.author, i.table>>
      /\ record'[entry[1]] = IF entry[2] THEN "live" ELSE "deleted"
      /\ \A w \in Writs \ {entry[1]} : record'[w] = record[w]
      /\ record' \in [Writs -> {"none", "live", "deleted"}]
  BY <1>2, <1>5 DEF TextInv, Texts!RowsAreTyped, Texts!Written
<1>10. Texts!RowsAreTyped' /\ Grown
  BY <1>4, <1>8, <1>9 DEF TextInv, Texts!RowsAreTyped, Grown
<1>11. Texts!JobIsReal(j)'
  BY <1>7, <1>10, JobStaysReal
<1>12. calm => Texts!RecordIsRight(entry[1])'
  <2>1. SUFFICES ASSUME calm PROVE Texts!RecordIsRight(entry[1])'
    OBVIOUS
  <2>2. entry[2] = Texts!Live(entry[1])
    BY <1>5, <2>1 DEF Texts!SyncStands
  <2>3. QED
    BY <1>5, <1>8, <1>9, <2>2 DEF Texts!RecordIsRight
<1>13. ASSUME calm PROVE Texts!SyncStands(j)'
  <2>1. ASSUME NEW w \in j.listed
        PROVE  <<w, Texts!Live(w)>> \in j.todo \/ Texts!RecordIsRight(w)'
    <3>1. CASE w = entry[1]
      BY <1>12, <1>13, <3>1
    <3>2. CASE w # entry[1]
      <4>1. <<w, Texts!Live(w)>> \in i.todo \/ Texts!RecordIsRight(w)
        BY <1>5, <1>6, <1>13, <2>1 DEF Texts!SyncStands
      <4>2. record'[w] = record[w]
        BY <1>5, <1>6, <1>9, <2>1, <3>2 DEF Texts!Written
      <4>3. <<w, Texts!Live(w)>> # entry
        BY <3>2
      <4>4. QED
        BY <1>6, <1>8, <4>1, <4>2, <4>3 DEF Texts!RecordIsRight
    <3>3. QED
      BY <3>1, <3>2
  <2>2. /\ \A w \in Texts!Written :
            Texts!TableOfUser(w) = <<j.author, j.table>> =>
              w \in j.listed \/ \E n \in 1..Len(j.kinds) : j.kinds[n] = writ[w].kind
        /\ \A e \in j.todo : e[2] = Texts!Live(e[1])
    BY <1>5, <1>6, <1>13 DEF Texts!SyncStands
  <2>3. QED
    BY <1>4, <1>8, <2>1, <2>2 DEF Texts!SyncStands
<1>14. ASSUME NEW w \in Texts!Written', Texts!TableOfUser(w)' \in tidy'
       PROVE  Texts!RecordIsRight(w)' \/ Texts!InHand(w)' \/ (SameRecord(w) /\ ~Texts!Holds(h, w))
  <2>1. w \in Texts!Written /\ w \in Writs /\ Texts!TableOfUser(w) \in tidy
    BY <1>4, <1>8, <1>14 DEF Texts!Written
  <2>2. CASE calm /\ w = entry[1]
    BY <1>12, <2>2
  <2>3. CASE w # entry[1] /\ ~Texts!Holds(h, w)
    BY <1>4, <1>9, <2>1, <2>3 DEF SameRecord
  <2>4. CASE ~calm /\ <<i.author, i.table>> = Texts!TableOfUser(w)
    <3>1. job'[h] = j
      BY <1>4 DEF TextInv, Texts!JobsAreReal
    <3>2. Texts!Holds(h, w)'
      BY <1>2, <1>6, <1>8, <2>4, <3>1 DEF Texts!Holds, Texts!At
    <3>3. QED
      BY <3>2 DEF Texts!InHand
  <2>5. QED
    BY <1>5, <1>9, <2>2, <2>3, <2>4
<1>15. QED
  BY <1>2, <1>4, <1>5, <1>10, <1>11, <1>13, <1>14, TextStep

LEMMA OrphansStep ==
  ASSUME TextInv, NEW h \in Handlers, Texts!DeleteOrphans(h)
  PROVE  TextInv'
<1>1. PICK i : i = job[h]
  OBVIOUS
<1> DEFINE table == <<i.author, i.table>>
<1>2. /\ Texts!At(h, "sync") /\ i.todo = {} /\ i.kinds = <<>> /\ writ' = writ
      /\ job' = [job EXCEPT ![h] = Texts!Resting] /\ calm' = calm
      /\ record' = [w \in Writs |->
                      IF w \in Texts!Written \ i.listed /\ Texts!TableOfUser(w) = table
                      THEN "deleted" ELSE record[w]]
      /\ tidy' = IF calm THEN tidy \cup {table} ELSE tidy \ {table}
  BY <1>1 DEF Texts!DeleteOrphans, Texts!End
<1>3. /\ calm => Texts!SyncStands(i) /\ \A g \in Handlers \ {h} : Texts!Idle(g)
      /\ i.op = "sync"
      /\ \A w : Texts!Holds(h, w) <=> ~calm /\ table = Texts!TableOfUser(w)
  BY <1>1, <1>2, SyncJob
<1>4. /\ Texts!Written' = Texts!Written /\ \A w : Texts!TableOfUser(w)' = Texts!TableOfUser(w)
      /\ \A w : Texts!Live(w)' = Texts!Live(w)
  BY <1>2 DEF Texts!Written, Texts!TableOfUser, Texts!Live
<1>5. record' \in [Writs -> {"none", "live", "deleted"}]
  BY <1>2 DEF TextInv, Texts!RowsAreTyped
<1>6. Texts!RowsAreTyped' /\ Grown
  BY <1>2, <1>4, <1>5 DEF TextInv, Texts!RowsAreTyped, Grown
<1>7. Texts!JobIsReal(Texts!Resting)' /\ Texts!SyncStands(Texts!Resting)'
  BY TextsRest DEF Texts!JobIsReal, Texts!SyncStands
<1>8. ASSUME NEW w \in Texts!Written', Texts!TableOfUser(w)' \in tidy'
      PROVE  Texts!RecordIsRight(w)' \/ (SameRecord(w) /\ ~Texts!Holds(h, w))
  <2>1. w \in Texts!Written /\ w \in Writs /\ Texts!TableOfUser(w) \in tidy'
    BY <1>4, <1>8 DEF Texts!Written
  <2>2. CASE Texts!TableOfUser(w) # table
    BY <1>2, <1>3, <2>1, <2>2 DEF SameRecord
  <2>3. CASE Texts!TableOfUser(w) = table
    <3>1. calm
      BY <1>2, <2>1, <2>3
    <3>2. w \in i.listed /\ Texts!RecordIsRight(w)
      BY <1>2, <1>3, <2>1, <2>3, <3>1 DEF Texts!SyncStands
    <3>3. record'[w] = record[w]
      BY <1>2, <2>1, <3>2
    <3>4. QED
      BY <1>4, <3>2, <3>3 DEF Texts!RecordIsRight
  <2>4. QED
    BY <2>2, <2>3
<1>9. QED
  BY <1>2, <1>3, <1>6, <1>7, <1>8, TextStep

LEMMA TextInit == Texts!Init => TextInv
<1>1. SUFFICES ASSUME Texts!Init PROVE TextInv
  OBVIOUS
<1>2. /\ Texts!Written = {}
      /\ \A h \in Handlers : job[h] = Texts!Resting /\ job[h].op = "none"
  BY <1>1, TextsRest DEF Texts!Init, Texts!NoJobs, Texts!Written
<1>3. Texts!RowsAreTyped
  BY <1>1, <1>2 DEF Texts!Init, Texts!RowsAreTyped
<1>4. Texts!JobsAreReal
  BY <1>1, <1>2 DEF Texts!Init, Texts!NoJobs, Texts!JobsAreReal, Texts!JobIsReal
<1>5. Texts!SyncsStand
  BY <1>2 DEF Texts!SyncsStand, Texts!SyncStands, Texts!Idle
<1>6. QED
  BY <1>2, <1>3, <1>4, <1>5 DEF TextInv, Texts!OnRecord

LEMMA TextStays ==
  ASSUME Texts!NoneIsNoKind, TextInv, [Texts!Next]_(Texts!vars)
  PROVE  TextInv'
<1>1. ASSUME NEW h \in Handlers,
             \/ Texts!PostController(h) \/ Texts!SiteReviewController(h)
             \/ Texts!ScamReportController(h)
      PROVE  TextInv'
  BY <1>1, PostStep, ReplyStep, FindStep
  DEF Texts!PostController, Texts!SiteReviewController, Texts!ScamReportController,
      Texts!DeleteOf, Texts!CommentKinds
<1>2. ASSUME NEW h \in Handlers, Texts!CommandLine(h) PROVE TextInv'
  BY <1>2, SyncBegins DEF Texts!CommandLine
<1>3. ASSUME NEW h \in Handlers, Texts!Continuations(h) PROVE TextInv'
  BY <1>3, ReplyStep, DeleteTreeStep, DeleteStep, MarkStep, ListStep, SyncRowStep, OrphansStep,
     TextFails
  DEF Texts!Continuations
<1>4. CASE UNCHANGED Texts!vars
  <2>1. UNCHANGED <<writ, record, tidy, job, calm>>
    BY <1>4 DEF Texts!vars
  <2>2. /\ Texts!RowsAreTyped' /\ Grown /\ Texts!Written' = Texts!Written
        /\ \A w \in Texts!Written' : Texts!TableOfUser(w)' = Texts!TableOfUser(w)
        /\ \A w : Texts!Live(w)' = Texts!Live(w)
        /\ \A w : Texts!RecordIsRight(w)' <=> Texts!RecordIsRight(w)
    BY <2>1, SameTexts
  <2>3. Texts!JobsAreReal'
    <3>1. ASSUME NEW g \in Handlers PROVE Texts!JobIsReal(job[g])'
      <4>1. PICK i : i = job[g] /\ i = job'[g]
        BY <2>1
      <4>2. Texts!JobIsReal(i)
        BY <4>1 DEF TextInv, Texts!JobsAreReal
      <4>3. QED
        BY <2>2, <4>1, <4>2, JobStaysReal
    <3>2. QED
      BY <2>1, <3>1 DEF TextInv, Texts!JobsAreReal
  <2>4. Texts!SyncsStand'
    BY <2>1, <2>2 DEF TextInv, Texts!SyncsStand, Texts!SyncStands, Texts!Idle
  <2>5. \A g, w : Texts!Holds(g, w) <=> Texts!Holds(g, w)'
    BY <2>1 DEF Texts!Holds, Texts!At, Texts!TableOfUser
  <2>6. Texts!OnRecord'
    BY <2>1, <2>2, <2>5 DEF TextInv, Texts!OnRecord, Texts!InHand
  <2>7. QED
    BY <2>2, <2>3, <2>4, <2>6 DEF TextInv
<1>5. QED
  BY <1>1, <1>2, <1>3, <1>4 DEF Texts!Next

LEMMA TextInvHolds == ASSUME Texts!NoneIsNoKind PROVE Texts!Spec => []TextInv
<1>1. Texts!NoneIsNoKind /\ TextInv /\ [Texts!Next]_(Texts!vars) => TextInv'
  BY TextStays
<1>2. QED
  BY <1>1, TextInit, PTL DEF Texts!Spec

-----------------------------------------------------------------------------
(* The marks of comments that have replies, while use cases do not overlap  *)

HasReply(w) == \E v \in Texts!Written : writ[v].parent = w /\ writ[v].live

\* The mark and what it says of the replies are as they were.
SameMark(w) ==
  /\ w \in Texts!Written \ staleMarks /\ writ[w].live
  /\ writ'[w].hasChild = writ[w].hasChild
  /\ HasReply(w)' <=> HasReply(w)

LEMMA MarksOfReplies ==
  \A w : /\ Texts!HasLiveReply(w) <=> HasReply(w)
         /\ Texts!HasLiveReply(w)' <=> HasReply(w)'
         /\ Texts!MarkIsRight(w) <=> (writ[w].hasChild <=> HasReply(w))
         /\ Texts!MarkIsRight(w)' <=> (writ'[w].hasChild <=> HasReply(w)')
<1>1. \A w : Texts!HasLiveReply(w) <=> HasReply(w)
  BY DEF Texts!HasLiveReply, Texts!Replies, Texts!Live, HasReply
<1>2. \A w : Texts!HasLiveReply(w)' <=> HasReply(w)'
  BY DEF Texts!HasLiveReply, Texts!Replies, Texts!Live, HasReply
<1>3. QED
  BY <1>1, <1>2 DEF Texts!MarkIsRight

\* A step of the one use case in progress, to the job j.
LEMMA MarksStep ==
  ASSUME TextInv, calm => Texts!MarksStand, NEW h \in Handlers, NEW j,
         job' = [job EXCEPT ![h] = j],
         calm' => calm /\ \A g \in Handlers \ {h} : Texts!Idle(g),
         calm' => Texts!MarkStands(j)',
         calm' => \A w \in Texts!Written' \ staleMarks' :
           writ'[w].live => \/ Texts!ToMark(j, w) \/ Texts!MarkIsRight(w)'
                            \/ SameMark(w) /\ ~Texts!ToMark(job[h], w)
  PROVE  Texts!MarksStand'
<1>1. SUFFICES ASSUME calm' PROVE Texts!MarksStand'
  BY DEF Texts!MarksStand
<1>2. /\ job'[h] = j /\ calm
      /\ \A g \in Handlers \ {h} : job[g] = Texts!Resting /\ job'[g] = Texts!Resting
  BY <1>1 DEF TextInv, Texts!JobsAreReal, Texts!Idle
<1>3. \A g \in Handlers \ {h} : \A w : ~Texts!ToMark(job[g], w)
  BY <1>2, TextsRest DEF Texts!ToMark
<1>4. ASSUME NEW w \in Texts!Written' \ staleMarks', writ'[w].live, ~Texts!ToMark(j, w)
      PROVE  Texts!MarkIsRight(w)'
  <2>1. SUFFICES ASSUME SameMark(w), ~Texts!ToMark(job[h], w) PROVE Texts!MarkIsRight(w)'
    BY <1>1, <1>4
  <2>2. Texts!MarkIsRight(w)
    BY <1>2, <1>3, <2>1 DEF Texts!MarksStand, SameMark, Texts!Live
  <2>3. QED
    BY <2>1, <2>2, MarksOfReplies DEF SameMark
<1>5. ASSUME NEW g \in Handlers PROVE Texts!MarkStands(job[g])'
  <2>1. CASE g = h
    BY <1>1, <1>2, <2>1
  <2>2. CASE g # h
    BY <1>2, <2>2, TextsRest DEF Texts!MarkStands
  <2>3. QED
    BY <2>1, <2>2
<1>6. QED
  <2>1. ASSUME NEW w \in Texts!Written' \ staleMarks', Texts!Live(w)',
               \A g \in Handlers : ~Texts!ToMark(job[g], w)'
        PROVE  Texts!MarkIsRight(w)'
    BY <1>2, <1>4, <2>1 DEF Texts!Live
  <2>2. QED
    BY <1>5, <2>1 DEF Texts!MarksStand

\* What is not written has its mark.
LEMMA MarksOfSame ==
  ASSUME UNCHANGED writ, NEW w \in Texts!Written' \ staleMarks, writ'[w].live
  PROVE  SameMark(w)
BY DEF SameMark, Texts!Written, HasReply

\* What is new has no replies, and is one of its parent.
LEMMA MarksInserted ==
  ASSUME Texts!NoneIsNoKind, Texts!NoneIsNoWrit, TextInv, NEW u \in Authors,
         NEW kind \in Texts!Kinds, NEW parent \in Texts!Written \cup {None},
         Texts!Insert(u, kind, parent)
  PROVE  \A w \in Texts!Written' \ staleMarks' :
           writ'[w].live /\ w # parent => Texts!MarkIsRight(w)' \/ SameMark(w)
<1> DEFINE made == [kind |-> kind, author |-> u, parent |-> parent, live |-> TRUE,
                    hasChild |-> FALSE]
<1>1. PICK n \in Texts!NewWrit :
        /\ writ' = [writ EXCEPT ![n] = made] /\ staleMarks' = staleMarks
  BY DEF Texts!Insert
<1>2. /\ n \in Writs /\ n \notin Texts!Written /\ n # None
      /\ Texts!Written \subseteq Writs
      /\ writ \in [Writs -> Texts!Writ \cup {Texts!NoWrit}]
      /\ \A w \in Texts!Written : writ[w].parent \in Texts!Written \cup {None}
  BY DEF Texts!NewWrit, Texts!NoneIsNoWrit, TextInv, Texts!RowsAreTyped, Texts!Written
<1>3. /\ writ'[n].parent = parent /\ ~writ'[n].hasChild
      /\ \A w \in Writs \ {n} : writ'[w] = writ[w]
  BY <1>1, <1>2
<1>4. /\ Texts!Written' \subseteq Texts!Written \cup {n}
      /\ Texts!Written \subseteq Texts!Written'
  BY <1>2, <1>3 DEF Texts!Written
<1>5. Texts!MarkIsRight(n)'
  <2>1. \A v \in Texts!Written' : writ'[v].parent # n
    BY <1>2, <1>3, <1>4 
  <2>2. QED
    BY <1>3, <2>1, MarksOfReplies DEF HasReply
<1>6. ASSUME NEW w \in Texts!Written \ staleMarks', writ'[w].live, w # parent
      PROVE  SameMark(w)
  <2>1. writ'[w] = writ[w]
    BY <1>2, <1>3
  <2>2. HasReply(w)' <=> HasReply(w)
    BY <1>2, <1>3, <1>4, <1>6 DEF HasReply
  <2>3. QED
    BY <1>1, <1>6, <2>1, <2>2 DEF SameMark
<1>7. QED
  BY <1>4, <1>5, <1>6

LEMMA MarksPost ==
  ASSUME Texts!NoneIsNoKind, Texts!NoneIsNoWrit, TextInv, Texts!MarksStand, NEW u \in Authors,
         \/ Texts!CreatePost(u)
         \/ \E kind \in Texts!CommentKinds : Texts!AddComment(u, kind)
  PROVE  Texts!MarksStand'
<1>1. PICK kind \in Texts!Kinds : Texts!Insert(u, kind, None) /\ Texts!AtOnce
  BY DEF Texts!CreatePost, Texts!AddComment, Texts!Kinds
<1>2. job' = job /\ (calm' => calm /\ \A h \in Handlers : Texts!Idle(h))
  BY <1>1, Zenon DEF Texts!AtOnce
<1>3. SUFFICES ASSUME calm' PROVE Texts!MarksStand'
  BY DEF Texts!MarksStand
<1>4. /\ calm
      /\ \A h \in Handlers : job[h].op = "none" /\ job'[h].op = "none"
  BY <1>2, <1>3, TextsRest
<1>5. ASSUME NEW w \in Texts!Written' \ staleMarks', writ'[w].live PROVE Texts!MarkIsRight(w)'
  <2>1. w # None
    BY DEF Texts!Written, Texts!NoneIsNoWrit
  <2>2. Texts!MarkIsRight(w)' \/ SameMark(w)
    BY <1>1, <1>5, <2>1, MarksInserted
  <2>3. SameMark(w) => Texts!MarkIsRight(w)
    BY <1>4 DEF Texts!MarksStand, SameMark, Texts!Live, Texts!ToMark
  <2>4. QED
    BY <2>2, <2>3, MarksOfReplies DEF SameMark
<1>6. \A h \in Handlers : Texts!MarkStands(job[h])'
  BY <1>4 DEF Texts!MarkStands
<1>7. QED
  BY <1>5, <1>6 DEF Texts!MarksStand, Texts!Live

LEMMA MarksReply ==
  ASSUME Texts!NoneIsNoKind, Texts!NoneIsNoWrit, TextInv, Texts!MarksStand, NEW h \in Handlers,
         \/ \E u \in Authors, kind \in Texts!CommentKinds, parent \in Texts!Written :
              Texts!AddReply(h, u, kind, parent)
         \/ Texts!AddCheckedReply(h)
  PROVE  Texts!MarksStand'
<1>1. PICK u \in Authors, kind \in Texts!Kinds, parent \in Texts!Written :
        /\ Texts!Insert(u, kind, parent)
        /\ job' = [job EXCEPT ![h] = Texts!ToRefresh(parent)]
        /\ calm' => calm /\ \A g \in Handlers \ {h} : Texts!Idle(g)
        /\ job[h].op \in {"none", "reply"}
  <2>1. CASE Texts!AddCheckedReply(h)
    <3>1. /\ Texts!At(h, "reply") /\ Texts!JobIsReal(job[h])
          /\ Texts!Insert(job[h].author, "site_review_comment", job[h].parent)
          /\ Texts!Continue(h, Texts!ToRefresh(job[h].parent))
      BY <2>1 DEF Texts!AddCheckedReply, TextInv, Texts!JobsAreReal
    <3>2. job[h].author \in Authors /\ job[h].parent \in Texts!Written /\ job[h].op = "reply"
      BY <3>1 DEF Texts!JobIsReal, Texts!At
    <3>3. calm' => calm /\ \A g \in Handlers \ {h} : Texts!Idle(g)
      BY <3>1, <3>2, TextsAlone DEF Texts!Continue, TextInv
    <3>4. "site_review_comment" \in Texts!Kinds
      BY DEF Texts!Kinds, Texts!CommentKinds
    <3>5. QED
      BY <3>1, <3>2, <3>3, <3>4 DEF Texts!Continue
  <2>2. ASSUME NEW u \in Authors, NEW kind \in Texts!CommentKinds, NEW parent \in Texts!Written,
               Texts!AddReply(h, u, kind, parent)
        PROVE  /\ Texts!Insert(u, kind, parent)
               /\ job' = [job EXCEPT ![h] = Texts!ToRefresh(parent)]
               /\ calm' => calm /\ \A g \in Handlers \ {h} : Texts!Idle(g)
               /\ job[h].op \in {"none", "reply"}
    <3>1. Texts!Idle(h)
      BY <2>2 DEF Texts!AddReply, Texts!Begin
    <3>2. QED
      BY <2>2, <3>1, TextBegins, TextsRest DEF Texts!AddReply
  <2>3. QED
    BY <2>1, <2>2 DEF Texts!Kinds
<1> DEFINE j == Texts!ToRefresh(parent)
<1>2. /\ Texts!MarkStands(j)'
      /\ Texts!ToMark(j, parent)
      /\ \A w : ~Texts!ToMark(job[h], w)
  BY <1>1 DEF Texts!MarkStands, Texts!ToMark, Texts!ToRefresh
<1>3. \A w \in Texts!Written' \ staleMarks' :
        writ'[w].live /\ w # parent => Texts!MarkIsRight(w)' \/ SameMark(w)
  BY <1>1, MarksInserted
<1>4. job' = [job EXCEPT ![h] = j]
  BY <1>1
<1> HIDE DEF j
<1>5. QED
  BY <1>1, <1>2, <1>3, <1>4, MarksStep

\* What begins and writes nothing: a deletion knows the parent of its row.
LEMMA MarksBegin ==
  ASSUME TextInv, Texts!MarksStand, NEW h \in Handlers,
         \/ \E u \in Authors, parent \in Texts!Written : Texts!CheckParent(h, u, parent)
         \/ \E w \in Texts!Written : Texts!Find(h, w)
         \/ \E u \in Authors, table \in {"user_posts", "user_comments"} : Texts!Sync(h, u, table)
  PROVE  Texts!MarksStand'
<1>1. PICK j : Texts!Begin(h, j) /\ UNCHANGED <<writ, staleMarks>> /\ Texts!MarkStands(j)
  <2>1. ASSUME NEW w \in Texts!Written, Texts!Find(h, w)
        PROVE  \E j : Texts!Begin(h, j) /\ UNCHANGED <<writ, staleMarks>> /\ Texts!MarkStands(j)
    <3> DEFINE j == [op |-> IF writ[w].kind = "post_comment" THEN "tree" ELSE "delete",
                     writ |-> w, parent |-> writ[w].parent]
    <3>1. Texts!Begin(h, j) /\ UNCHANGED <<writ, staleMarks>>
      BY <2>1 DEF Texts!Find
    <3>2. Texts!MarkStands(j)
      BY DEF Texts!MarkStands
    <3>3. QED
      BY <3>1, <3>2
  <2>2. ASSUME NEW u \in Authors, NEW parent \in Texts!Written, Texts!CheckParent(h, u, parent)
        PROVE  \E j : Texts!Begin(h, j) /\ UNCHANGED <<writ, staleMarks>> /\ Texts!MarkStands(j)
    BY <2>2 DEF Texts!CheckParent, Texts!MarkStands
  <2>3. ASSUME NEW u \in Authors, NEW table \in {"user_posts", "user_comments"},
               Texts!Sync(h, u, table)
        PROVE  \E j : Texts!Begin(h, j) /\ UNCHANGED <<writ, staleMarks>> /\ Texts!MarkStands(j)
    BY <2>3 DEF Texts!Sync, Texts!MarkStands
  <2>4. QED
    BY <2>1, <2>2, <2>3
<1>2. /\ job' = [job EXCEPT ![h] = j]
      /\ calm' => calm /\ \A g \in Handlers \ {h} : Texts!Idle(g)
      /\ job[h].op = "none"
  <2>1. Texts!Idle(h)
    BY <1>1 DEF Texts!Begin
  <2>2. QED
    BY <1>1, <2>1, TextBegins, TextsRest
<1>3. Texts!MarkStands(j)'
  BY <1>1, MarksOfReplies DEF Texts!MarkStands, HasReply, Texts!Written
<1>4. \A w : ~Texts!ToMark(job[h], w)
  BY <1>2 DEF Texts!ToMark
<1>5. QED
  BY <1>1, <1>2, <1>3, <1>4, MarksOfSame, MarksStep

\* A deletion ends if its row has no parent, and is to mark the parent otherwise.
LEMMA MarksFinish ==
  ASSUME TextInv, NEW h \in Handlers, job[h].op # "none", NEW parent \in Texts!Written \cup {None},
         Texts!Finish(h, parent)
  PROVE  \E j : /\ job' = [job EXCEPT ![h] = j]
                /\ calm' => calm /\ \A g \in Handlers \ {h} : Texts!Idle(g)
                /\ Texts!MarkStands(j)'
                /\ parent # None => Texts!ToMark(j, parent)
<1>1. calm' => calm /\ \A g \in Handlers \ {h} : Texts!Idle(g)
  BY TextsAlone DEF Texts!Finish, Texts!End, Texts!Continue, TextInv
<1>2. CASE parent = None
  <2>1. job' = [job EXCEPT ![h] = Texts!Resting]
    BY <1>2 DEF Texts!Finish, Texts!End
  <2>2. Texts!MarkStands(Texts!Resting)'
    BY TextsRest DEF Texts!MarkStands
  <2>3. QED
    BY <1>1, <1>2, <2>1, <2>2
<1>3. CASE parent # None
  <2>1. job' = [job EXCEPT ![h] = Texts!ToRefresh(parent)]
    BY <1>3 DEF Texts!Finish, Texts!Continue
  <2>2. /\ Texts!MarkStands(Texts!ToRefresh(parent))'
        /\ Texts!ToMark(Texts!ToRefresh(parent), parent)
    BY DEF Texts!MarkStands, Texts!ToMark, Texts!ToRefresh
  <2>3. QED
    BY <1>1, <2>1, <2>2
<1>4. QED
  BY <1>2, <1>3

\* What is below a comment hangs on it.
LEMMA BelowHangs ==
  ASSUME NEW w, NEW through, NEW u \in Texts!Below(w, through)
  PROVE  writ[u].parent \in Texts!Below(w, through) \cup {w}
<1> DEFINE below == Texts!Below(w, through)
<1> DEFINE S == {v \in below : writ[v].parent \in below \cup {w}}
<1>1. below \subseteq through /\ S \subseteq below
  BY DEF Texts!Below
<1>2. ASSUME NEW v \in through, writ[v].parent \in below \cup {w} PROVE v \in below
  <2>1. ASSUME NEW T \in SUBSET through,
               \A x \in through : writ[x].parent \in T \cup {w} => x \in T
        PROVE  v \in T
    <3>1. below \subseteq T
      BY <2>1 DEF Texts!Below
    <3>2. QED
      BY <1>2, <2>1, <3>1
  <2>2. QED
    BY <1>2, <2>1 DEF Texts!Below
<1>3. \A v \in through : writ[v].parent \in S \cup {w} => v \in S
  BY <1>1, <1>2
<1>4. S \in SUBSET through
  BY <1>1
<1>5. u \in S
  <2> HIDE DEF S
  <2>1. QED
    BY <1>3, <1>4 DEF Texts!Below
<1>6. QED
  BY <1>5

\* What is deleted is a reply of what is deleted with it, and of the parent that
\* is marked next.
LEMMA MarksDeleted ==
  ASSUME TextInv, NEW deleted, deleted \subseteq Texts!Written, NEW parent, staleMarks' = staleMarks,
         Texts!Written' = Texts!Written,
         \A v \in deleted : ~writ'[v].live,
         \A v \in Writs \ deleted : writ'[v] = writ[v],
         \A v \in deleted : writ'[v].parent = writ[v].parent,
         \A v \in deleted : writ[v].parent \in deleted \cup {parent}
  PROVE  \A v \in Texts!Written' \ staleMarks' :
           writ'[v].live /\ v # parent => SameMark(v)
<1>1. Texts!Written \subseteq Writs
  BY DEF Texts!Written
<1>2. SUFFICES ASSUME NEW v \in Texts!Written \ staleMarks, writ'[v].live, v # parent
               PROVE  SameMark(v)
  OBVIOUS
<1>3. v \notin deleted /\ writ'[v] = writ[v]
  BY <1>1, <1>2
<1>4. HasReply(v)' <=> HasReply(v)
  BY <1>1, <1>2, <1>3 DEF HasReply
<1>5. QED
  BY <1>2, <1>3, <1>4 DEF SameMark

LEMMA MarksDeleteTree ==
  ASSUME Texts!NoneIsNoKind, Texts!NoneIsNoWrit, TextInv, Texts!MarksStand, NEW h \in Handlers,
         Texts!DeleteTree(h)
  PROVE  Texts!MarksStand'
<1> DEFINE w == job[h].writ
<1> DEFINE parent == job[h].parent
<1> DEFINE live == {v \in Texts!Written : Texts!Live(v)}
<1> DEFINE deleted == {w} \cup Texts!Below(w, live)
<1>1. /\ job[h].op = "tree" /\ Texts!Finish(h, parent) /\ Texts!JobIsReal(job[h])
      /\ UNCHANGED <<staleMarks, tidy>>
  BY DEF Texts!DeleteTree, Texts!At, TextInv, Texts!JobsAreReal
<1>2. w \in Texts!Written /\ parent \in Texts!Written \cup {None}
  BY <1>1 DEF Texts!JobIsReal, Texts!Deletion
<1>3. /\ writ' = [v \in Writs |->
                   IF v \in deleted THEN [writ[v] EXCEPT !.live = FALSE] ELSE writ[v]]
      /\ record' = [v \in Writs |-> IF v \in Texts!DeletedWith(w, deleted) THEN "deleted"
                                    ELSE record[v]]
  BY DEF Texts!DeleteTree
<1>4. deleted \subseteq Texts!Written
  BY <1>2, BelowGrows
<1>5. ASSUME calm, NEW v \in deleted PROVE writ[v].parent \in deleted \cup {parent}
  <2>1. CASE v = w
    BY <1>1, <1>5, <2>1 DEF Texts!MarksStand, Texts!MarkStands
  <2>2. CASE v \in Texts!Below(w, live)
    BY <2>2, BelowHangs
  <2>3. QED
    BY <1>5, <2>1, <2>2
<1>6. record' \in [Writs -> {"none", "live", "deleted"}]
  BY <1>3 DEF TextInv, Texts!RowsAreTyped
<1> HIDE DEF deleted, live
<1>7. /\ Texts!Written' = Texts!Written
      /\ \A v \in deleted : ~writ'[v].live
      /\ \A v \in Writs \ deleted : writ'[v] = writ[v]
      /\ \A v \in deleted : writ'[v].parent = writ[v].parent
  BY <1>3, <1>4, <1>6, Deleted
<1>8. calm => \A v \in Texts!Written' \ staleMarks' :
                writ'[v].live /\ v # parent => SameMark(v)
  BY <1>1, <1>4, <1>5, <1>7, MarksDeleted
<1>9. PICK j : /\ job' = [job EXCEPT ![h] = j]
               /\ calm' => calm /\ \A g \in Handlers \ {h} : Texts!Idle(g)
               /\ Texts!MarkStands(j)'
               /\ parent # None => Texts!ToMark(j, parent)
  BY <1>1, <1>2, MarksFinish
<1>10. /\ \A v : ~Texts!ToMark(job[h], v)
       /\ \A v \in Texts!Written' : v # None
  BY <1>1 DEF Texts!ToMark, Texts!Written, Texts!NoneIsNoWrit
<1>11. QED
  BY <1>8, <1>9, <1>10, MarksStep

\* One row, and then its record.
LEMMA MarksDelete ==
  ASSUME Texts!NoneIsNoKind, Texts!NoneIsNoWrit, TextInv, Texts!MarksStand, NEW h \in Handlers,
         Texts!Delete(h) \/ Texts!DeleteRecord(h)
  PROVE  Texts!MarksStand'
<1> DEFINE w == job[h].writ
<1> DEFINE parent == job[h].parent
<1>1. /\ job[h].op \in {"delete", "record"} /\ Texts!JobIsReal(job[h]) /\ UNCHANGED staleMarks
      /\ calm => \A g \in Handlers \ {h} : Texts!Idle(g)
      /\ calm => writ[w].parent = parent
  <2>1. job[h].op \in {"delete", "record"}
    BY DEF Texts!Delete, Texts!DeleteRecord, Texts!At
  <2>2. calm => writ[w].parent = parent
    BY <2>1 DEF Texts!MarksStand, Texts!MarkStands
  <2>3. QED
    BY <2>1, <2>2, TextsAlone DEF Texts!Delete, Texts!DeleteRecord, TextInv, Texts!JobsAreReal
<1>2. /\ w \in Texts!Written /\ w \in Writs /\ parent \in Texts!Written \cup {None}
      /\ \A v \in Texts!Written' : v # None
  BY <1>1 DEF Texts!JobIsReal, Texts!Deletion, Texts!Written, Texts!NoneIsNoWrit
<1>3. CASE Texts!Delete(h)
  <2>1. PICK j : j = [job[h] EXCEPT !.op = "record"]
    OBVIOUS
  <2>2. /\ job[h].op = "delete" /\ record' = record /\ calm' = calm
        /\ job' = [job EXCEPT ![h] = j]
        /\ writ' = [writ EXCEPT ![w].live = FALSE]
    BY <1>3, <2>1 DEF Texts!Delete, Texts!At, Texts!Continue
  <2>3. /\ writ' = [v \in Writs |->
                     IF v \in {w} THEN [writ[v] EXCEPT !.live = FALSE] ELSE writ[v]]
        /\ record' \in [Writs -> {"none", "live", "deleted"}]
    BY <1>2, <2>2 DEF TextInv, Texts!RowsAreTyped
  <2>4. /\ Texts!Written' = Texts!Written
        /\ \A v \in {w} : ~writ'[v].live
        /\ \A v \in Writs \ {w} : writ'[v] = writ[v]
        /\ \A v \in {w} : writ'[v].parent = writ[v].parent
    BY <1>2, <2>3, Deleted
  <2>5. calm => \A v \in Texts!Written' \ staleMarks' :
                  writ'[v].live /\ v # parent => SameMark(v)
    <3>1. PICK gone, p : gone = {w} /\ p = parent
      OBVIOUS
    <3>2. gone \subseteq Texts!Written /\ (calm => \A v \in gone : writ[v].parent \in gone \cup {p})
      BY <1>1, <1>2, <3>1
    <3>3. /\ \A v \in gone : ~writ'[v].live
          /\ \A v \in Writs \ gone : writ'[v] = writ[v]
          /\ \A v \in gone : writ'[v].parent = writ[v].parent
          /\ Texts!Written' = Texts!Written /\ staleMarks' = staleMarks
      BY <1>1, <2>4, <3>1
    <3>4. ASSUME calm
          PROVE  \A v \in Texts!Written' \ staleMarks' :
                   writ'[v].live /\ v # p => SameMark(v)
      <4>1. \A v \in gone : writ[v].parent \in gone \cup {p}
        BY <3>2, <3>4
      <4>2. QED
        BY <3>2, <3>3, <4>1, MarksDeleted
    <3>5. QED
      BY <3>1, <3>4
  <2>6. j.op = "record" /\ j.writ = w /\ j.parent = parent
    BY <1>1, <2>1, <2>2 DEF Texts!JobIsReal, Texts!Deletion
  <2>7. calm => Texts!MarkStands(j)'
    BY <1>1, <2>4, <2>6 DEF Texts!MarkStands
  <2>8. Texts!ToMark(j, parent) /\ \A v : ~Texts!ToMark(job[h], v)
    BY <2>2, <2>6 DEF Texts!ToMark
  <2>9. QED
    BY <1>1, <2>2, <2>5, <2>7, <2>8, MarksStep
<1>4. CASE Texts!DeleteRecord(h)
  <2>1. job[h].op = "record" /\ UNCHANGED writ /\ Texts!Finish(h, parent)
    BY <1>4 DEF Texts!DeleteRecord, Texts!At
  <2>2. PICK j : /\ job' = [job EXCEPT ![h] = j]
                 /\ calm' => calm /\ \A g \in Handlers \ {h} : Texts!Idle(g)
                 /\ Texts!MarkStands(j)'
                 /\ parent # None => Texts!ToMark(j, parent)
    BY <1>2, <2>1, MarksFinish
  <2>3. \A v \in Texts!Written' \ staleMarks' :
          writ'[v].live /\ v # parent => SameMark(v) /\ ~Texts!ToMark(job[h], v)
    BY <1>1, <2>1, MarksOfSame DEF Texts!ToMark
  <2>4. QED
    BY <1>2, <2>2, <2>3, MarksStep
<1>5. QED
  BY <1>3, <1>4

LEMMA MarksSet ==
  ASSUME Texts!NoneIsNoKind, TextInv, Texts!MarksStand, NEW h \in Handlers,
         Texts!LookForChild(h) \/ Texts!UpdateHasChild(h)
  PROVE  Texts!MarksStand'
<1>0. PICK p : p = job[h].parent
  OBVIOUS
<1>1. /\ job[h].op \in {"refresh", "flag"} /\ Texts!JobIsReal(job[h]) /\ calm' = calm
      /\ calm => Texts!MarkStands(job[h])
      /\ calm => \A g \in Handlers \ {h} : Texts!Idle(g)
  <2>1. job[h].op \in {"refresh", "flag"}
    BY DEF Texts!LookForChild, Texts!UpdateHasChild, Texts!At
  <2>2. QED
    BY <2>1, TextsAlone
    DEF Texts!LookForChild, Texts!UpdateHasChild, Texts!Continue, Texts!End, TextInv,
        Texts!JobsAreReal, Texts!MarksStand
<1>2. p \in Texts!Written /\ p \in Writs /\ writ[p] \in Texts!Writ
  BY <1>0, <1>1 DEF Texts!JobIsReal, Texts!Written, TextInv, Texts!RowsAreTyped
<1>3. CASE Texts!LookForChild(h)
  <2>1. PICK found \in BOOLEAN : found = Texts!HasLiveReply(p)
    BY Zenon DEF Texts!HasLiveReply
  <2>2. PICK j : /\ j = [op |-> "flag", writ |-> None, parent |-> p, hasChild |-> found]
                 /\ job' = [job EXCEPT ![h] = j] /\ UNCHANGED <<writ, staleMarks>>
    BY <1>0, <1>3, <2>1, Zenon DEF Texts!LookForChild, Texts!Continue
  <2>3. j.op = "flag" /\ j.parent = p /\ (j.hasChild <=> HasReply(p))
    BY <2>1, <2>2, MarksOfReplies
  <2>4. HasReply(p)' <=> HasReply(p)
    BY <2>2 DEF HasReply, Texts!Written
  <2>5. Texts!MarkStands(j)'
    BY <2>3, <2>4, MarksOfReplies DEF Texts!MarkStands
  <2>6. Texts!ToMark(j, p) /\ \A w : Texts!ToMark(job[h], w) => w = p
    BY <1>0, <2>3 DEF Texts!ToMark
  <2>7. QED
    BY <1>1, <2>2, <2>5, <2>6, MarksOfSame, MarksStep
<1>4. CASE Texts!UpdateHasChild(h)
  <2>1. /\ job' = [job EXCEPT ![h] = Texts!Resting]
        /\ job[h].hasChild \in BOOLEAN /\ job[h].op = "flag"
        /\ writ' = [writ EXCEPT ![p].hasChild = job[h].hasChild]
        /\ staleMarks' = staleMarks \ {p}
    BY <1>0, <1>1, <1>4 DEF Texts!UpdateHasChild, Texts!End, Texts!JobIsReal, Texts!At
  <2>2. PICK s : s = [writ[p] EXCEPT !.hasChild = job[h].hasChild]
    OBVIOUS
  <2>3. /\ s \in Texts!Writ /\ s.live = writ[p].live /\ s.parent = writ[p].parent
        /\ s.hasChild = job[h].hasChild
    BY <1>2, <2>1, <2>2 DEF Texts!Writ
  <2>4. /\ writ'[p] = s /\ \A w \in Writs \ {p} : writ'[w] = writ[w]
    BY <1>2, <2>1, <2>2 DEF TextInv, Texts!RowsAreTyped
  <2>5. Texts!Written' = Texts!Written /\ Texts!Written \subseteq Writs
    BY <1>2, <2>3, <2>4, NoWritIsNone DEF Texts!Written
  <2>6. \A w \in Texts!Written :
          writ'[w].parent = writ[w].parent /\ writ'[w].live = writ[w].live
    BY <2>3, <2>4, <2>5
  <2>7. \A w : HasReply(w)' <=> HasReply(w)
    BY <2>5, <2>6 DEF HasReply
  <2>8. calm => Texts!MarkIsRight(p)'
    <3>1. calm => (job[h].hasChild <=> HasReply(p))
      BY <1>0, <1>1, <2>1, MarksOfReplies DEF Texts!MarkStands
    <3>2. QED
      BY <2>3, <2>4, <2>7, <3>1, MarksOfReplies
  <2>9. ASSUME NEW w \in Texts!Written' \ staleMarks', writ'[w].live, w # p PROVE SameMark(w)
    BY <2>1, <2>4, <2>5, <2>7, <2>9 DEF SameMark
  <2>10. Texts!MarkStands(Texts!Resting)' /\ \A w : Texts!ToMark(job[h], w) => w = p
    BY <1>0, TextsRest DEF Texts!MarkStands, Texts!ToMark
  <2>11. QED
    BY <1>1, <2>1, <2>8, <2>9, <2>10, MarksStep
<1>5. QED
  BY <1>3, <1>4

\* A command writes no row.
LEMMA MarksSync ==
  ASSUME TextInv, Texts!MarksStand, NEW h \in Handlers,
         Texts!ListRows(h) \/ Texts!SyncRow(h) \/ Texts!DeleteOrphans(h)
  PROVE  Texts!MarksStand'
<1>1. /\ job[h].op = "sync" /\ UNCHANGED <<writ, staleMarks>> /\ calm' = calm
  BY DEF Texts!ListRows, Texts!SyncRow, Texts!DeleteOrphans, Texts!At, Texts!Continue, Texts!End
<1>2. PICK i : i = job[h]
  OBVIOUS
<1>3. i \in Texts!SyncCommand /\ i.op = "sync"
  BY <1>1, <1>2, SyncJob DEF Texts!At
<1>4. \E j : job' = [job EXCEPT ![h] = j] /\ j.op \in {"none", "sync"}
  <2>1. CASE Texts!ListRows(h)
    <3> DEFINE rows == {w \in Texts!Written : writ[w].author = job[h].author /\ writ[w].kind = job[h].kinds[1]}
    <3> DEFINE j == [i EXCEPT !.listed = @ \cup rows,
                             !.todo = {<<w, Texts!Live(w)>> : w \in rows},
                             !.kinds = Tail(@)]
    <3>1. job' = [job EXCEPT ![h] = j]
      BY <1>2, <2>1 DEF Texts!ListRows, Texts!Continue
    <3>2. j.op = "sync"
      BY <1>3 DEF Texts!SyncCommand
    <3>3. QED
      BY <3>1, <3>2
  <2>2. CASE Texts!SyncRow(h)
    <3>1. PICK entry : job' = [job EXCEPT ![h] = [i EXCEPT !.todo = @ \ {entry}]]
      BY <1>2, <2>2 DEF Texts!SyncRow, Texts!Continue
    <3>2. PICK j : j = [i EXCEPT !.todo = @ \ {entry}]
      OBVIOUS
    <3>3. j.op = "sync"
      BY <1>3, <3>2 DEF Texts!SyncCommand
    <3>4. QED
      BY <3>1, <3>2, <3>3
  <2>3. CASE Texts!DeleteOrphans(h)
    BY <2>3, TextsRest DEF Texts!DeleteOrphans, Texts!End
  <2>4. QED
    BY <2>1, <2>2, <2>3
<1>5. PICK j : job' = [job EXCEPT ![h] = j] /\ j.op \in {"none", "sync"}
  BY <1>4
<1>6. Texts!MarkStands(j)' /\ \A w : ~Texts!ToMark(job[h], w)
  BY <1>1, <1>5 DEF Texts!MarkStands, Texts!ToMark
<1>7. calm' => calm /\ \A g \in Handlers \ {h} : Texts!Idle(g)
  BY <1>1, TextsAlone DEF TextInv
<1>8. QED
  BY <1>1, <1>5, <1>6, <1>7, MarksOfSame, MarksStep

\* What breaks off leaves the mark that it was to set, and that is known.
LEMMA MarksFail ==
  ASSUME Texts!NoneIsNoWrit, TextInv, Texts!MarksStand, NEW h \in Handlers, Texts!Fail(h)
  PROVE  Texts!MarksStand'
<1>1. /\ ~Texts!Idle(h) /\ job' = [job EXCEPT ![h] = Texts!Resting] /\ calm' = calm
      /\ UNCHANGED writ
      /\ staleMarks' = IF job[h].op \in {"record", "refresh", "flag"}
                      THEN staleMarks \cup ({job[h].parent} \ {None}) ELSE staleMarks
  BY DEF Texts!Fail, Texts!End
<1>2. calm' => calm /\ \A g \in Handlers \ {h} : Texts!Idle(g)
  BY <1>1 DEF TextInv, Texts!SyncsStand
<1>3. Texts!MarkStands(Texts!Resting)'
  BY TextsRest DEF Texts!MarkStands
<1>4. ASSUME NEW w \in Texts!Written' \ staleMarks', writ'[w].live
      PROVE  SameMark(w) /\ ~Texts!ToMark(job[h], w)
  <2>1. w # None
    BY DEF Texts!Written, Texts!NoneIsNoWrit
  <2>2. w \notin staleMarks /\ ~Texts!ToMark(job[h], w)
    BY <1>1, <1>4, <2>1 DEF Texts!ToMark
  <2>3. QED
    BY <1>1, <1>4, <2>2, MarksOfSame
<1>5. QED
  BY <1>1, <1>2, <1>3, <1>4, MarksStep

LEMMA MarksInit == Texts!Init => Texts!MarksStand
<1>1. SUFFICES ASSUME Texts!Init PROVE Texts!MarksStand
  OBVIOUS
<1>2. /\ Texts!Written = {}
      /\ \A h \in Handlers : job[h].op = "none"
  BY <1>1, TextsRest DEF Texts!Init, Texts!NoJobs, Texts!Written
<1>3. QED
  BY <1>2 DEF Texts!MarksStand, Texts!MarkStands

LEMMA MarksStay ==
  ASSUME Texts!NoneIsNoKind, Texts!NoneIsNoWrit, TextInv, Texts!MarksStand,
         [Texts!Next]_(Texts!vars)
  PROVE  Texts!MarksStand'
<1>1. ASSUME NEW h \in Handlers,
             \/ Texts!PostController(h) \/ Texts!SiteReviewController(h)
             \/ Texts!ScamReportController(h)
      PROVE  Texts!MarksStand'
  BY <1>1, MarksPost, MarksReply, MarksBegin
  DEF Texts!PostController, Texts!SiteReviewController, Texts!ScamReportController,
      Texts!DeleteOf, Texts!CommentKinds
<1>2. ASSUME NEW h \in Handlers, Texts!CommandLine(h) PROVE Texts!MarksStand'
  BY <1>2, MarksBegin DEF Texts!CommandLine
<1>3. ASSUME NEW h \in Handlers, Texts!Continuations(h) PROVE Texts!MarksStand'
  BY <1>3, MarksReply, MarksDeleteTree, MarksDelete, MarksSet, MarksSync, MarksFail
  DEF Texts!Continuations
<1>4. CASE UNCHANGED Texts!vars
  BY <1>4 DEF Texts!vars, Texts!MarksStand, Texts!MarkStands, Texts!MarkIsRight, Texts!ToMark,
      Texts!HasLiveReply, Texts!Replies, Texts!Written, Texts!Live
<1>5. QED
  BY <1>1, <1>2, <1>3, <1>4 DEF Texts!Next

LEMMA MarksHold ==
  ASSUME Texts!NoneIsNoKind, Texts!NoneIsNoWrit PROVE Texts!Spec => []Texts!MarksStand
<1>1. TextInv /\ Texts!MarksStand /\ [Texts!Next]_(Texts!vars) => Texts!MarksStand'
  BY MarksStay
<1>2. QED
  BY <1>1, MarksInit, TextInvHolds, PTL DEF Texts!Spec

LEMMA MarksAreOfReplies == Texts!MarksStand => Texts!CalmHasChild
<1>1. \A h \in Handlers : \A w : Texts!ToMark(job[h], w) => ~Texts!Idle(h) /\ job[h].parent = w
  BY TextsRest DEF Texts!ToMark
<1>2. QED
  BY <1>1 DEF Texts!MarksStand, Texts!CalmHasChild, Texts!MarkIsRight, Texts!HasLiveReply

-----------------------------------------------------------------------------
(* The images of sites, events and gifticons *)

ImageInv ==
  /\ Images!TypeOK /\ Images!JobsAreReal
  /\ Images!FilesOwned /\ Images!NothingLost

LEMMA WhatIsNamed ==
  /\ \A f : f \in Images!Named <=> \E i \in Images!Items : f \in Images!FilesOf(image[i])
  /\ \A f : f \in Images!Named' <=> \E i \in Images!Items : f \in Images!FilesOf(image'[i])
BY DEF Images!Named, Images!FilesOf, Images!Items, Images!Optional

LEMMA WhatIsInHand ==
  /\ \A f : f \in Images!InHand <=>
       \E h \in Handlers : ~Images!Idle(h) /\ f \in Images!HandOf(job[h])
  /\ \A f : f \in Images!InHand' <=>
       \E h \in Handlers : ~Images!Idle(h)' /\ f \in Images!HandOf(job'[h])
BY DEF Images!InHand, Images!HandOf, Images!Optional, Images!Idle, Images!Resting

LEMMA ImagesRest ==
  /\ Images!Resting.op = "none"
  /\ \A h \in Handlers : Images!Idle(h) => job[h].op \notin Images!Uncommitted \cup {"reload", "clean"}
BY DEF Images!Resting, Images!Idle, Images!Uncommitted

\* A job goes on, and no row is written.
LEMMA HandStep ==
  ASSUME ImageInv, NEW h \in Handlers, NEW n, job' = [job EXCEPT ![h] = n],
         UNCHANGED image, calm' \in BOOLEAN, calm' => calm,
         disk' \subseteq Files, left' \subseteq Files,
         spoilt' \in BOOLEAN, spoilt => spoilt',
         Images!JobIsReal(h)',
         ~spoilt' =>
           /\ Images!OwnFiles(h)'
           /\ \A g \in Handlers \ {h} :
                job[g].op \in Images!Uncommitted =>
                  /\ job[g].new \subseteq disk'
                  /\ n # Images!Resting => job[g].new \cap Images!HandOf(n) = {}
           /\ \A i \in Images!Items : image[i].banners \subseteq disk',
         ~spoilt' /\ calm' =>
           /\ \A g \in Handlers \ {h} : Images!Idle(g)
           /\ Images!DeletesWhatItDrops(h)'
           /\ Images!Named \subseteq disk'
           /\ disk' \subseteq Images!Named \cup left' \cup
                               (IF n = Images!Resting THEN {} ELSE Images!HandOf(n))
  PROVE  ImageInv'
<1>1. /\ DOMAIN job' = Handlers /\ job'[h] = n
      /\ \A g \in Handlers \ {h} : job'[g] = job[g]
      /\ \A g \in Handlers : Images!JobIsReal(g)
  BY DEF ImageInv, Images!JobsAreReal
<1>2. Images!TypeOK'
  BY DEF ImageInv, Images!TypeOK
<1>3. Images!JobsAreReal'
  <2>1. ASSUME NEW g \in Handlers \ {h} PROVE Images!JobIsReal(g)'
    BY <1>1 DEF Images!JobIsReal, Images!Idle
  <2>2. QED
    BY <1>1, <2>1 DEF Images!JobsAreReal
<1>4. Images!FilesOwned'
  <2>1. SUFFICES ASSUME ~spoilt' PROVE Images!FilesOwned'
    BY DEF Images!FilesOwned
  <2>2. ~spoilt /\ Images!BannersApart /\ \A g \in Handlers : Images!OwnFiles(g)
    BY <2>1 DEF ImageInv, Images!FilesOwned
  <2>3. ASSUME NEW g \in Handlers \ {h} PROVE Images!OwnFiles(g)'
    BY <1>1, <2>1, <2>2, WhatIsNamed DEF Images!OwnFiles, Images!Idle, Images!ReplacesBanners
  <2>4. QED
    BY <2>1, <2>2, <2>3 DEF Images!FilesOwned, Images!BannersApart
<1>5. Images!NothingLost'
  <2>1. SUFFICES ASSUME ~spoilt', calm' PROVE Images!NothingLost'
    BY DEF Images!NothingLost
  <2>2. \A g \in Handlers \ {h} : job'[g] = Images!Resting
    BY <1>1, <2>1 DEF Images!Idle
  <2>3. \A g \in Handlers : Images!DeletesWhatItDrops(g)'
    <3>1. ASSUME NEW g \in Handlers \ {h} PROVE Images!DeletesWhatItDrops(g)'
      BY <2>2, ImagesRest DEF Images!DeletesWhatItDrops, Images!Uncommitted
    <3>2. QED
      BY <2>1, <3>1
  <2>4. disk' \subseteq (Images!Named \cup left \cup Images!InHand)'
    BY <1>1, <2>1, WhatIsNamed, WhatIsInHand DEF Images!Idle
  <2>5. Images!Named' \subseteq disk'
    BY <2>1, WhatIsNamed
  <2>6. \A f, g \in Handlers : Images!Idle(f)' \/ Images!Idle(g)' \/ f = g
    BY <2>2 DEF Images!Idle
  <2>7. Images!NothingLost
    BY DEF ImageInv
  <2>8. QED
    BY <2>1, <2>3, <2>4, <2>5, <2>6, <2>7 DEF Images!NothingLost
<1>6. QED
  BY <1>2, <1>3, <1>4, <1>5 DEF ImageInv

\* Nothing but a soft deletion is done to a row, and no job moves.
LEMMA RowsKept ==
  ASSUME ImageInv, UNCHANGED job, image' \in [Images!Items -> Images!Row \cup {Images!NoRow}],
         \A i \in Images!Items :
           /\ image'[i].banners = image[i].banners /\ image'[i].image = image[i].image
           /\ image[i] # Images!NoRow => image'[i] # Images!NoRow,
         calm' \in BOOLEAN, calm' => calm /\ \A g \in Handlers : Images!Idle(g),
         disk' \subseteq Files, left' \subseteq Files, UNCHANGED spoilt,
         \E files \in SUBSET Files : disk' = disk \cup files /\ left' = left \cup files
  PROVE  ImageInv'
<1>1. DOMAIN job = Handlers /\ \A g \in Handlers : Images!JobIsReal(g)
  BY DEF ImageInv, Images!JobsAreReal
<1>2. Images!TypeOK'
  BY DEF ImageInv, Images!TypeOK
<1>3. Images!JobsAreReal'
  <2>1. ASSUME NEW g \in Handlers PROVE Images!JobIsReal(g)'
    BY <1>1 DEF Images!JobIsReal, Images!Idle, Images!Uncommitted
  <2>2. QED
    BY <1>1, <2>1 DEF Images!JobsAreReal
<1>4. \A f : f \in Images!Named' <=> f \in Images!Named
  BY WhatIsNamed DEF Images!FilesOf
<1>5. Images!FilesOwned'
  <2>1. SUFFICES ASSUME ~spoilt' PROVE Images!FilesOwned'
    BY DEF Images!FilesOwned
  <2>2. ~spoilt /\ Images!BannersApart /\ \A g \in Handlers : Images!OwnFiles(g)
    BY <2>1 DEF ImageInv, Images!FilesOwned
  <2>3. ASSUME NEW g \in Handlers PROVE Images!OwnFiles(g)'
    BY <1>1, <1>4, <2>1, <2>2 DEF Images!OwnFiles, Images!Idle, Images!ReplacesBanners
  <2>4. Images!BannersApart'
    BY <2>2 DEF Images!BannersApart
  <2>5. \A i \in Images!Items : image'[i].banners \subseteq disk'
    BY <2>1 DEF ImageInv, Images!FilesOwned
  <2>6. QED
    BY <2>3, <2>4, <2>5 DEF Images!FilesOwned
<1>6. Images!NothingLost'
  <2>1. SUFFICES ASSUME ~spoilt', calm' PROVE Images!NothingLost'
    BY DEF Images!NothingLost
  <2>2. \A g \in Handlers : job'[g] = Images!Resting
    BY <2>1 DEF Images!Idle
  <2>3. \A g \in Handlers : Images!DeletesWhatItDrops(g)'
    BY <2>2, ImagesRest DEF Images!DeletesWhatItDrops, Images!Uncommitted
  <2>4. Images!NothingLost
    BY DEF ImageInv
  <2>5. \A f : ~(f \in Images!InHand)
    BY <2>1, WhatIsInHand
  <2>6. disk' \subseteq (Images!Named \cup left \cup Images!InHand)'
    BY <1>4, <2>1, <2>4, <2>5 DEF Images!NothingLost
  <2>7. Images!Named' \subseteq disk'
    BY <1>4, <2>1, <2>4 DEF Images!NothingLost
  <2>8. /\ \A i, k \in Images!Items : i # k => Images!FilesOf(image'[i]) \cap Images!FilesOf(image'[k]) = {}
        /\ \A i \in Images!Items : Images!Cardinality(image'[i].banners) <= MaxBanners
    BY <2>1, <2>4 DEF Images!NothingLost, Images!FilesOf
  <2>9. \A f, g \in Handlers : Images!Idle(f)' \/ Images!Idle(g)' \/ f = g
    BY <2>2 DEF Images!Idle
  <2>10. QED
    BY <2>1, <2>3, <2>6, <2>7, <2>8, <2>9 DEF Images!NothingLost
<1>7. QED
  BY <1>2, <1>3, <1>5, <1>6 DEF ImageInv

\* A transaction commits: the row is what the job has for it, and what the row
\* drops is still to be deleted.
LEMMA CommitStep ==
  ASSUME ImageInv, Images!KeepIsNoFile, NEW h \in Handlers, NEW j, j = job[h], j.op \in Images!Uncommitted,
         NEW r \in Images!Row, r.banners = Images!Written(j).banners,
         r.image = Images!Written(j).image,
         image' = [image EXCEPT ![j.item] = r],
         NEW n, job' = [job EXCEPT ![h] = n],
         \/ n = Images!Resting /\ j.old = {}
         \/ /\ n.op = "clean" /\ n.old = j.old /\ n.new = {} /\ n.image = None
         \/ /\ n.op = "reload" /\ n.old = j.old /\ n.new = j.new /\ n.image = j.image
            /\ n.item = j.item /\ j.op \in {"insert", "site"},
         UNCHANGED <<disk, left, spoilt, calm>>
  PROVE  ImageInv'
<1>0. j.op # "none" /\ ~Images!Idle(h) /\ j.item \in Images!Items
      /\ j.new \subseteq Files /\ j.old \subseteq Files
      /\ j.image \in Files \cup {Keep, None} /\ j.add \subseteq j.new
      /\ (j.op = "event" => j.old = j.gone)
  BY ImagesRest DEF ImageInv, Images!JobsAreReal, Images!JobIsReal, Images!Uncommitted
<1>1. /\ DOMAIN job' = Handlers /\ job'[h] = n
      /\ \A g \in Handlers \ {h} : job'[g] = job[g]
      /\ \A g \in Handlers : Images!JobIsReal(g)
  BY DEF ImageInv, Images!JobsAreReal
<1>2. /\ image' \in [Images!Items -> Images!Row \cup {Images!NoRow}]
      /\ image'[j.item] = r /\ \A i \in Images!Items \ {j.item} : image'[i] = image[i]
      /\ r # Images!NoRow
  <2>1. r.status # "none"
    BY DEF Images!Row
  <2>2. QED
    BY <1>0, <2>1 DEF ImageInv, Images!TypeOK, Images!NoRow
<1>3. Images!TypeOK'
  BY <1>2 DEF ImageInv, Images!TypeOK
<1>4. Images!JobsAreReal'
  <2>1. ASSUME NEW g \in Handlers \ {h} PROVE Images!JobIsReal(g)'
    BY <1>1, <1>2 DEF Images!JobIsReal, Images!Idle
  <2>2. Images!JobIsReal(h)'
    BY <1>0, <1>1, ImagesRest DEF Images!JobIsReal, Images!Idle, Images!Uncommitted
  <2>3. QED
    BY <1>1, <2>1, <2>2 DEF Images!JobsAreReal
<1>5. /\ r.banners = IF Images!ReplacesBanners(j) THEN j.add
                     ELSE IF j.op = "event" THEN (image[j.item].banners \ j.gone) \cup j.add
                     ELSE image[j.item].banners
      /\ r.image = IF j.image = Keep THEN image[j.item].image ELSE j.image
  BY DEF Images!Written
<1>6. Images!FilesOwned'
  <2>1. SUFFICES ASSUME ~spoilt' PROVE Images!FilesOwned'
    BY DEF Images!FilesOwned
  <2>2. /\ ~spoilt /\ Images!BannersApart /\ \A g \in Handlers : Images!OwnFiles(g)
        /\ \A i \in Images!Items : image[i].banners \subseteq disk
    BY <2>1 DEF ImageInv, Images!FilesOwned
  <2>3. /\ j.new \subseteq disk /\ j.new \cap j.old = {} /\ j.image \notin j.add
        /\ \A i \in Images!Items : j.new \cap Images!FilesOf(image[i]) = {}
        /\ \A g \in Handlers \ {h} : ~Images!Idle(g) => j.new \cap Images!HandOf(job[g]) = {}
        /\ \A i \in Images!Items :
             /\ image[i].banners \cap Images!Optional(j.image) = {}
             /\ \/ image[i].banners \cap j.old = {}
                \/ (Images!ReplacesBanners(j) \/ j.op = "event") /\ j.item = i
    BY <1>0, <2>2, WhatIsNamed DEF Images!OwnFiles
  <2>4. /\ r.banners \subseteq image[j.item].banners \cup j.new
        /\ Images!Optional(r.image) \subseteq Images!Optional(image[j.item].image) \cup Images!Optional(j.image)
    BY <1>0, <1>5
  <2>5. \A i \in Images!Items : image'[i].banners \subseteq disk'
    BY <1>2, <2>2, <2>3, <2>4
  <2>6. Images!BannersApart'
    <3>1. r.banners \cap Images!Optional(r.image) = {}
      BY <1>0, <1>5, <2>2, <2>3 DEF Images!BannersApart, Images!FilesOf, Images!Optional
    <3>2. ASSUME NEW i \in Images!Items \ {j.item}
          PROVE  /\ image[i].banners \cap Images!Optional(r.image) = {}
                 /\ r.banners \cap Images!Optional(image[i].image) = {}
                 /\ image[i].banners \cap r.banners = {}
      BY <1>0, <2>2, <2>3, <2>4 DEF Images!BannersApart, Images!FilesOf
    <3>3. QED
      BY <1>0, <1>2, <2>2, <3>1, <3>2 DEF Images!BannersApart
  <2>7. ASSUME NEW g \in Handlers \ {h} PROVE Images!OwnFiles(g)'
    <3>1. Images!OwnFiles(g) /\ job'[g] = job[g]
      BY <1>1, <2>2
    <3>2. ASSUME job[g].op \in Images!Uncommitted
          PROVE  job[g].new \cap Images!Named' = {} /\ job[g].new \cap Images!HandOf(j) = {}
      <4>1. job[g].new \cap Images!HandOf(j) = {}
        BY <1>0, <3>1, <3>2 DEF Images!OwnFiles
      <4>2. \A i \in Images!Items : job[g].new \cap Images!FilesOf(image[i]) = {}
        BY <3>1, <3>2, WhatIsNamed DEF Images!OwnFiles
      <4>3. job[g].new \cap Images!FilesOf(r) = {}
        BY <1>0, <2>4, <4>1, <4>2 DEF Images!FilesOf, Images!HandOf
      <4>4. QED
        BY <1>2, <4>1, <4>2, <4>3, WhatIsNamed
    <3>3. ASSUME ~Images!Idle(g), NEW i \in Images!Items
          PROVE  /\ image'[i].banners \cap Images!Optional(job[g].image) = {}
                 /\ \/ image'[i].banners \cap job[g].old = {}
                    \/ (Images!ReplacesBanners(job[g]) \/ job[g].op = "event") /\ job[g].item = i
      BY <1>0, <1>2, <2>3, <2>4, <3>1, <3>3 DEF Images!OwnFiles, Images!HandOf
    <3>4. ~Images!Idle(h)' => Images!HandOf(n) \subseteq Images!HandOf(j)
      BY <1>0, <1>1, ImagesRest DEF Images!HandOf, Images!Idle, Images!Optional
    <3>5. QED
      BY <1>1, <3>1, <3>2, <3>3, <3>4 DEF Images!OwnFiles, Images!Idle, Images!ReplacesBanners
  <2>8. Images!OwnFiles(h)'
    <3>1. n.op \notin Images!Uncommitted
      BY ImagesRest DEF Images!Uncommitted
    <3>2. ASSUME NEW i \in Images!Items, n # Images!Resting
          PROVE  image'[i].banners \cap Images!Optional(n.image) = {}
      <4>1. CASE n.image = None
        BY <4>1 DEF Images!Optional
      <4>2. CASE n.image = j.image
        BY <1>0, <1>2, <1>5, <2>3, <4>2 DEF Images!Optional
      <4>3. QED
        BY <3>2, <4>1, <4>2
    <3>3. ASSUME NEW i \in Images!Items, n # Images!Resting
          PROVE  image'[i].banners \cap n.old = {}
      BY <1>0, <1>2, <1>5, <2>3, <3>3
    <3>4. QED
      BY <1>1, <3>1, <3>2, <3>3 DEF Images!OwnFiles, Images!Idle
  <2>9. QED
    BY <2>5, <2>6, <2>7, <2>8 DEF Images!FilesOwned
<1>7. Images!NothingLost'
  <2>1. SUFFICES ASSUME ~spoilt', calm' PROVE Images!NothingLost'
    BY DEF Images!NothingLost
  <2>2. /\ Images!NothingLost /\ ~spoilt /\ calm
        /\ \A g \in Handlers \ {h} : job'[g] = Images!Resting /\ job[g] = Images!Resting
    BY <1>0, <1>1, <2>1 DEF ImageInv, Images!NothingLost, Images!Idle
  <2>3. /\ j.old = Images!FilesOf(image[j.item]) \ Images!FilesOf(r)
        /\ j.new = Images!FilesOf(r) \ Images!FilesOf(image[j.item])
        /\ Images!Cardinality(r.banners) <= MaxBanners
    BY <2>2 DEF Images!NothingLost, Images!DeletesWhatItDrops, Images!FilesOf
  <2>4. /\ j.new \subseteq disk
        /\ \A i \in Images!Items : j.new \cap Images!FilesOf(image[i]) = {}
    BY <2>2, WhatIsNamed DEF ImageInv, Images!FilesOwned, Images!OwnFiles
  <2>5. \A i \in Images!Items \ {j.item} :
          Images!FilesOf(image[i]) \cap Images!FilesOf(image[j.item]) = {}
    BY <1>0, <2>2 DEF Images!NothingLost
  <2>6. \A f : f \in Images!Named' <=> (f \in Images!Named /\ f \notin j.old) \/ f \in j.new
    BY <1>0, <1>2, <2>3, <2>4, <2>5, WhatIsNamed
  <2>7. Images!Optional(j.image) \subseteq Images!Named'
    <3>1. Images!Optional(j.image) \subseteq Images!Optional(r.image)
      BY <1>5 DEF Images!Optional
    <3>2. QED
      BY <1>0, <1>2, <3>1, WhatIsNamed DEF Images!FilesOf
  <2>8. \A g \in Handlers : Images!DeletesWhatItDrops(g)'
    <3>1. ASSUME NEW g \in Handlers \ {h} PROVE Images!DeletesWhatItDrops(g)'
      BY <2>2, ImagesRest DEF Images!DeletesWhatItDrops, Images!Uncommitted
    <3>2. n.op \notin Images!Uncommitted
      BY ImagesRest DEF Images!Uncommitted
    <3>3. n.op \in {"reload", "clean"} => n.old \cap Images!Named' = {}
      BY <2>3, <2>6, ImagesRest
    <3>4. n.op = "reload" => n.new \cup Images!Optional(n.image) \subseteq Images!Named'
      BY <2>6, <2>7, ImagesRest
    <3>5. Images!DeletesWhatItDrops(h)'
      BY <1>1, <3>2, <3>3, <3>4 DEF Images!DeletesWhatItDrops
    <3>6. QED
      BY <3>1, <3>5
  <2>9. \A i, k \in Images!Items :
          i # k => Images!FilesOf(image'[i]) \cap Images!FilesOf(image'[k]) = {}
    <3>1. ASSUME NEW i \in Images!Items \ {j.item}
          PROVE  Images!FilesOf(image[i]) \cap Images!FilesOf(r) = {}
      BY <2>3, <2>4, <2>5
    <3>2. QED
      BY <1>0, <1>2, <2>2, <3>1 DEF Images!NothingLost
  <2>10. Images!Named' \subseteq disk'
    BY <2>2, <2>4, <2>6 DEF Images!NothingLost
  <2>11. disk' \subseteq (Images!Named \cup left \cup Images!InHand)'
    <3>1. \A f : f \in Images!InHand => f \in Images!HandOf(j)
      BY <2>2, WhatIsInHand DEF Images!Idle
    <3>2. \A f : f \in j.old => f \in Images!InHand'
      BY <1>1, WhatIsInHand, ImagesRest DEF Images!HandOf, Images!Idle
    <3>3. \A f : f \in Images!HandOf(j) => f \in Images!Named' \/ f \in Images!InHand'
      BY <2>6, <2>7, <3>2 DEF Images!HandOf
    <3>4. QED
      BY <2>2, <2>6, <3>1, <3>2, <3>3 DEF Images!NothingLost
  <2>12. \A i \in Images!Items : Images!Cardinality(image'[i].banners) <= MaxBanners
    BY <1>0, <1>2, <2>2, <2>3 DEF Images!NothingLost
  <2>13. \A f, g \in Handlers : Images!Idle(f)' \/ Images!Idle(g)' \/ f = g
    BY <2>2 DEF Images!Idle
  <2>14. QED
    BY <2>1, <2>8, <2>9, <2>10, <2>11, <2>12, <2>13 DEF Images!NothingLost
<1>8. QED
  BY <1>3, <1>4, <1>6, <1>7 DEF ImageInv

\* A request stores its files: they are new, and it holds nothing else that is
\* not of its row.
MayStore(j) ==
  /\ j.op \in Images!Uncommitted \ {"save"} /\ j.item \in Images!Items
  /\ j.image \in Images!NewFiles \cup {Keep, None} /\ j.image \notin j.add
  /\ j.add \subseteq Images!NewFiles /\ j.new = j.add \cup Images!Optional(j.image)
  /\ j.op = "insert" => j.image # Keep /\ j.old = {}
  /\ j.op # "insert" => image[j.item] # Images!NoRow
  /\ j.op = "event" => j.image = Keep /\ j.old = j.gone
  /\ j.old \subseteq Images!FilesOf(image[j.item])
  /\ {"op", "item", "image", "new", "old"} \subseteq DOMAIN j
  /\ Images!BannersApart =>
       /\ j.old = Images!FilesOf(image[j.item]) \ Images!FilesOf(Images!Written(j))
       /\ j.new = Images!FilesOf(Images!Written(j)) \ Images!FilesOf(image[j.item])
       /\ Images!NothingLost /\ ~spoilt /\ calm =>
            Images!Cardinality(Images!Written(j).banners) <= MaxBanners

LEMMA StoreStep ==
  ASSUME ImageInv, Images!KeepIsNoFile, NEW h \in Handlers, NEW j, Images!Begin(h, j),
         MayStore(j), disk' = disk \cup j.new, UNCHANGED <<image, left, spoilt>>
  PROVE  ImageInv'
<1>1. /\ job' = [job EXCEPT ![h] = j] /\ Images!Idle(h) /\ disk' = disk \cup j.new
      /\ UNCHANGED <<image, left, spoilt>> /\ calm' = (calm /\ \A g \in Handlers \ {h} : Images!Idle(g))
  BY Zenon DEF Images!Begin
<1>2. /\ j.op \in Images!Uncommitted \ {"save"} /\ j.item \in Images!Items
      /\ j.image \in Images!NewFiles \cup {Keep, None} /\ j.image \notin j.add
      /\ j.add \subseteq j.new /\ j.new = j.add \cup Images!Optional(j.image)
      /\ j.old \subseteq Images!FilesOf(image[j.item])
  BY DEF MayStore
<1>3. \A f \in j.new : /\ f \in Files /\ f \notin disk /\ f \notin Images!Named
                       /\ f \notin Images!InHand
  BY DEF MayStore, Images!NewFiles, Images!Optional
<1>4. j # Images!Resting /\ j.op # "none"
  BY <1>2, ImagesRest DEF Images!Uncommitted
<1>5. DOMAIN job' = Handlers /\ job'[h] = j
  BY <1>1 DEF ImageInv, Images!JobsAreReal
<1>6. /\ image[j.item].banners \subseteq Files /\ image[j.item].image \in Files \cup {None}
  BY <1>2 DEF ImageInv, Images!TypeOK, Images!Row, Images!NoRow
<1>7. j.old \subseteq Files /\ j.old \subseteq Images!Named
  BY <1>2, <1>6, WhatIsNamed DEF Images!FilesOf, Images!Optional
<1>8. Images!JobIsReal(h)'
  BY <1>1, <1>2, <1>3, <1>4, <1>5, <1>7
  DEF MayStore, Images!JobIsReal, Images!Uncommitted, Images!NewFiles
<1>9. calm' \in BOOLEAN /\ (calm' => calm /\ \A g \in Handlers \ {h} : Images!Idle(g))
  BY <1>1
<1>10. ASSUME ~spoilt'
       PROVE  /\ Images!OwnFiles(h)'
              /\ \A g \in Handlers \ {h} :
                   job[g].op \in Images!Uncommitted =>
                     job[g].new \subseteq disk' /\ job[g].new \cap Images!HandOf(j) = {}
              /\ \A k \in Images!Items : image[k].banners \subseteq disk'
  <2>1. /\ Images!BannersApart /\ \A g \in Handlers : Images!OwnFiles(g)
        /\ \A k \in Images!Items : image[k].banners \subseteq disk
    BY <1>1, <1>10 DEF ImageInv, Images!FilesOwned
  <2>2. ASSUME NEW k \in Images!Items
        PROVE  /\ image[k].banners \cap Images!Optional(j.image) = {}
               /\ \/ image[k].banners \cap j.old = {}
                  \/ (Images!ReplacesBanners(j) \/ j.op = "event") /\ j.item = k
    <3>1. image[k].banners \cap Images!Optional(j.image) = {}
      BY <1>2, <1>3, WhatIsNamed DEF Images!FilesOf
    <3>2. CASE k = j.item /\ ~(Images!ReplacesBanners(j) \/ j.op = "event")
      <4>1. /\ Images!Written(j).banners = image[k].banners
            /\ j.old = Images!FilesOf(image[k]) \ Images!FilesOf(Images!Written(j))
        BY <2>1, <3>2 DEF MayStore, Images!Written
      <4>2. QED
        BY <3>1, <4>1 DEF Images!FilesOf
    <3>3. CASE k # j.item
      BY <1>2, <2>1, <3>1, <3>3 DEF Images!BannersApart, Images!FilesOf
    <3>4. QED
      BY <3>1, <3>2, <3>3
  <2>3. \A g \in Handlers \ {h} : ~Images!Idle(g)' => j.new \cap Images!HandOf(job'[g]) = {}
    BY <1>1, <1>3, <1>5, WhatIsInHand DEF Images!Idle
  <2>4. j.new \cap Images!Named' = {} /\ j.new \cap j.old = {}
    BY <1>1, <1>2, <1>3, <1>7, WhatIsNamed
  <2>5. Images!OwnFiles(h)'
    BY <1>1, <1>2, <1>5, <2>2, <2>3, <2>4 DEF Images!OwnFiles, Images!ReplacesBanners
  <2>6. ASSUME NEW g \in Handlers \ {h}, job[g].op \in Images!Uncommitted
        PROVE  job[g].new \subseteq disk' /\ job[g].new \cap Images!HandOf(j) = {}
    <3>1. ~Images!Idle(g)
      BY <2>6, ImagesRest
    <3>2. job[g].new \subseteq disk /\ job[g].new \cap Images!Named = {}
      BY <2>1, <2>6 DEF Images!OwnFiles
    <3>3. j.new \cap job[g].new = {}
      BY <1>3, <3>1, WhatIsInHand DEF Images!HandOf
    <3>4. Images!HandOf(j) \subseteq j.new \cup Images!Named
      BY <1>2, <1>7 DEF Images!HandOf
    <3>5. QED
      BY <1>1, <3>2, <3>3, <3>4
  <2>7. QED
    BY <1>1, <2>1, <2>5, <2>6
<1>11. ASSUME ~spoilt', calm'
       PROVE  /\ \A g \in Handlers \ {h} : Images!Idle(g)
              /\ Images!DeletesWhatItDrops(h)'
              /\ Images!Named \subseteq disk'
              /\ disk' \subseteq Images!Named \cup left' \cup Images!HandOf(j)
  <2>1. /\ calm /\ ~spoilt /\ \A g \in Handlers : Images!Idle(g)
        /\ Images!NothingLost /\ Images!BannersApart
    BY <1>1, <1>9, <1>11 DEF ImageInv, Images!FilesOwned
  <2>2. \A f : f \notin Images!InHand
    BY <2>1, WhatIsInHand
  <2>3. Images!Written(j)' = Images!Written(j)
    BY <1>1 DEF Images!Written
  <2>4. Images!DeletesWhatItDrops(h)'
    BY <1>1, <1>2, <1>5, <2>1, <2>3
    DEF MayStore, Images!DeletesWhatItDrops, Images!Uncommitted, Images!FilesOf
  <2>5. QED
    BY <1>1, <1>9, <1>11, <2>1, <2>2, <2>4 DEF Images!NothingLost, Images!HandOf
<1>12. /\ disk' \subseteq Files /\ left' \subseteq Files
       /\ spoilt' \in BOOLEAN /\ (spoilt => spoilt') /\ UNCHANGED image
       /\ job' = [job EXCEPT ![h] = j]
  BY <1>1, <1>3 DEF ImageInv, Images!TypeOK
<1>13. QED
  BY <1>4, <1>8, <1>9, <1>10, <1>11, <1>12, HandStep

LEMMA FewerBanners ==
  ASSUME Images!FilesAreFinite, NEW S \in SUBSET Files, NEW T \in SUBSET S
  PROVE  Images!Cardinality(S) <= MaxBanners => Images!Cardinality(T) <= MaxBanners
<1>1. /\ Images!IsFiniteSet(Files) <=> IsFiniteSet(Files)
      /\ MaxBanners \in Nat
  BY Zenon DEF Images!FilesAreFinite, Images!IsFiniteSet, IsFiniteSet
<1>2. Images!Cardinality(S) = Cardinality(S)
  BY DEF Images!Cardinality, Cardinality
<1>3. Images!Cardinality(T) = Cardinality(T)
  BY DEF Images!Cardinality, Cardinality
<1>4. IsFiniteSet(S)
  BY <1>1, FS_Subset DEF Images!FilesAreFinite
<1>5. Cardinality(S) \in Nat /\ Cardinality(T) \in Nat /\ Cardinality(T) <= Cardinality(S)
  BY <1>4, FS_Subset, FS_CardinalityType
<1>6. QED
  BY <1>1, <1>2, <1>3, <1>5

\* The files an image of a request and the one before it bring and leave.
LEMMA ReplacedImage ==
  ASSUME Images!KeepIsNoFile, NEW i \in Images!Items,
         NEW img \in Images!NewFiles \cup {Keep, None}, NEW written,
         written = IF img = Keep THEN image[i].image ELSE img
  PROVE  /\ Images!OldImage(i, img) \subseteq Images!Optional(image[i].image)
         /\ Images!OldImage(i, img) =
              Images!Optional(image[i].image) \ Images!Optional(written)
         /\ Images!Optional(img) =
              Images!Optional(written) \ Images!Optional(image[i].image)
         /\ Images!BannersApart => 
              /\ image[i].banners \cap Images!Optional(image[i].image) = {}
              /\ image[i].banners \cap Images!Optional(written) = {}
<1>1. Images!OldImage(i, img) = IF img = Keep THEN {} ELSE Images!Optional(image[i].image)
  BY DEF Images!OldImage
<1>2. Images!BannersApart => image[i].banners \cap Images!Optional(image[i].image) = {}
  BY DEF Images!BannersApart
<1>3. Keep # None /\ Images!Optional(Keep) = {} /\ Images!Optional(None) = {}
  BY DEF Images!KeepIsNoFile, Images!Optional
<1>4. CASE img = Keep
  BY <1>1, <1>2, <1>3, <1>4
<1>5. CASE img = None
  BY <1>1, <1>2, <1>3, <1>5
<1>6. CASE img \in Images!NewFiles
  <2>1. img \notin Images!FilesOf(image[i]) /\ Images!Optional(img) = {img} /\ img # Keep
    BY <1>6, WhatIsNamed DEF Images!NewFiles, Images!Optional, Images!KeepIsNoFile
  <2>2. QED
    BY <1>1, <1>2, <2>1 DEF Images!FilesOf
<1>7. QED
  BY <1>4, <1>5, <1>6

LEMMA UploadStep ==
  ASSUME ImageInv, Images!KeepIsNoFile, Images!FilesAreFinite, NEW h \in Handlers,
         \/ Images!SiteEventController(h) \/ Images!PocaEventController(h)
         \/ Images!GifticonController(h) \/ Images!SiteController(h)
  PROVE  ImageInv'
<1>0. /\ \A i \in Images!Items :
           /\ image[i].banners \subseteq Files /\ image[i].image \in Files \cup {None}
           /\ Images!Live(i) => image[i] # Images!NoRow
      /\ Images!NewFiles \subseteq Files
      /\ \A i \in Images!Items : Images!NewFiles \cap Images!FilesOf(image[i]) = {}
      /\ Keep # None /\ Keep \notin Files /\ None \notin Files
  <2>1. \A i \in Images!Items : Images!NewFiles \cap Images!FilesOf(image[i]) = {}
    BY WhatIsNamed DEF Images!NewFiles
  <2>2. QED
    BY <2>1 DEF ImageInv, Images!TypeOK, Images!Row, Images!NoRow, Images!Live,
                Images!NewFiles, Images!KeepIsNoFile
<1>1. ASSUME NEW i \in Images!Items, NEW img \in Images!NewFiles \cup {None},
             NEW banners \in SUBSET Images!NewFiles, Images!UploadForCreate(h, i, img, banners)
      PROVE  ImageInv'
  <2>1. PICK j : j = [op |-> "insert", item |-> i, image |-> img, add |-> banners, gone |-> {},
                      new |-> banners \cup Images!Optional(img), old |-> {}]
    OBVIOUS
  <2>2. Images!FilesOf(image[i]) = {}
    BY <1>1 DEF Images!UploadForCreate, Images!NoRow, Images!FilesOf, Images!Optional
  <2>3. Images!Written(j).banners = banners /\ Images!Written(j).image = img
    BY <1>0, <2>1 DEF Images!Written, Images!ReplacesBanners
  <2>4. Images!FilesOf(Images!Written(j)) = j.new
    BY <2>1, <2>3 DEF Images!FilesOf
  <2>5. /\ Images!Cardinality(banners) <= MaxBanners /\ img \notin banners
        /\ Images!Begin(h, j) /\ disk' = disk \cup j.new /\ UNCHANGED <<image, left, spoilt>>
    BY <1>1, <2>1 DEF Images!UploadForCreate, Images!MayHave, Images!Store
  <2>6. MayStore(j)
    BY <1>0, <2>1, <2>2, <2>3, <2>4, <2>5 DEF MayStore, Images!Uncommitted
  <2>7. QED
    BY <2>5, <2>6, StoreStep
<1>2. ASSUME NEW i \in Images!Items, NEW add \in SUBSET Images!NewFiles,
             NEW gone \in SUBSET image[i].banners, Images!UploadForSiteEvent(h, i, add, gone)
      PROVE  ImageInv'
  <2>1. PICK j : j = [op |-> "event", item |-> i, image |-> Keep, add |-> add, gone |-> gone,
                      new |-> add \cup Images!Optional(Keep), old |-> gone]
    OBVIOUS
  <2>2. j.new = add
    BY <2>1 DEF Images!Optional
  <2>3. /\ Images!Written(j).banners = (image[i].banners \ gone) \cup add
        /\ Images!Written(j).image = image[i].image
    BY <2>1 DEF Images!Written, Images!ReplacesBanners
  <2>4. Images!BannersApart =>
          /\ gone = Images!FilesOf(image[i]) \ Images!FilesOf(Images!Written(j))
          /\ j.new = Images!FilesOf(Images!Written(j)) \ Images!FilesOf(image[i])
    BY <1>0, <2>2, <2>3 DEF Images!FilesOf, Images!BannersApart
  <2>5. /\ Images!Live(i)
        /\ add # {} => Images!Cardinality(image[i].banners \cup add) <= MaxBanners
        /\ Images!Begin(h, j) /\ disk' = disk \cup j.new /\ UNCHANGED <<image, left, spoilt>>
    BY <1>2, <2>1 DEF Images!UploadForSiteEvent, Images!Store
  <2>6. Images!NothingLost /\ ~spoilt /\ calm =>
          Images!Cardinality(Images!Written(j).banners) <= MaxBanners
    <3>1. CASE add = {}
      BY <1>0, <2>3, <3>1, FewerBanners DEF Images!NothingLost
    <3>2. CASE add # {}
      BY <1>0, <2>3, <2>5, <3>2, FewerBanners
    <3>3. QED
      BY <3>1, <3>2
  <2>7. MayStore(j)
    BY <1>0, <2>1, <2>4, <2>5, <2>6 DEF MayStore, Images!Uncommitted, Images!FilesOf
  <2>8. QED
    BY <2>5, <2>7, StoreStep
<1>3. ASSUME NEW i \in Images!Items, NEW img \in Images!NewFiles \cup {Keep, None},
             NEW op \in {"image", "site"}, Images!Live(i),
             Images!Store(h, op, i, img, {}, {}, Images!OldImage(i, img))
      PROVE  ImageInv'
  <2>1. PICK j : j = [op |-> op, item |-> i, image |-> img, add |-> {}, gone |-> {},
                      new |-> {} \cup Images!Optional(img), old |-> Images!OldImage(i, img)]
    OBVIOUS
  <2>2. /\ Images!Written(j).banners = image[i].banners
        /\ Images!Written(j).image = IF img = Keep THEN image[i].image ELSE img
    BY <2>1 DEF Images!Written, Images!ReplacesBanners
  <2>3. Images!BannersApart =>
          /\ j.old = Images!FilesOf(image[i]) \ Images!FilesOf(Images!Written(j))
          /\ j.new = Images!FilesOf(Images!Written(j)) \ Images!FilesOf(image[i])
    <3>1. PICK written : written = Images!Written(j).image
      OBVIOUS
    <3>2. /\ j.old = Images!Optional(image[i].image) \ Images!Optional(written)
          /\ j.new = Images!Optional(written) \ Images!Optional(image[i].image)
          /\ Images!BannersApart =>
               /\ image[i].banners \cap Images!Optional(image[i].image) = {}
               /\ image[i].banners \cap Images!Optional(written) = {}
      BY <2>1, <2>2, <3>1, ReplacedImage
    <3>3. QED
      BY <2>2, <3>1, <3>2 DEF Images!FilesOf
  <2>4. Images!NothingLost /\ ~spoilt /\ calm =>
          Images!Cardinality(Images!Written(j).banners) <= MaxBanners
    BY <2>2 DEF Images!NothingLost
  <2>5. /\ Images!Begin(h, j) /\ disk' = disk \cup j.new /\ UNCHANGED <<image, left, spoilt>>
    BY <1>3, <2>1 DEF Images!Store
  <2>6. j.old \subseteq Images!FilesOf(image[i])
    BY <2>1, ReplacedImage DEF Images!FilesOf
  <2>7. MayStore(j)
    BY <1>0, <1>3, <2>1, <2>3, <2>4, <2>6 DEF MayStore, Images!Uncommitted
  <2>8. QED
    BY <2>5, <2>7, StoreStep
<1>4. ASSUME NEW i \in Images!Items, NEW img \in Images!NewFiles \cup {Keep, None},
             NEW add \in SUBSET Images!NewFiles, Images!UploadForPocaEvent(h, i, img, add, TRUE)
      PROVE  ImageInv'
  <2>1. PICK j : j = [op |-> "poca", item |-> i, image |-> img, add |-> add, gone |-> {},
                      new |-> add \cup Images!Optional(img),
                      old |-> Images!OldImage(i, img) \cup image[i].banners]
    OBVIOUS
  <2>2. /\ Images!Written(j).banners = add
        /\ Images!Written(j).image = IF img = Keep THEN image[i].image ELSE img
    BY <2>1 DEF Images!Written, Images!ReplacesBanners
  <2>3. /\ Images!Live(i) /\ img \notin add /\ Images!Cardinality(add) <= MaxBanners
        /\ Images!Begin(h, j) /\ disk' = disk \cup j.new /\ UNCHANGED <<image, left, spoilt>>
    BY <1>4, <2>1 DEF Images!UploadForPocaEvent, Images!MayHave, Images!Store
  <2>4. Images!BannersApart =>
          /\ j.old = Images!FilesOf(image[i]) \ Images!FilesOf(Images!Written(j))
          /\ j.new = Images!FilesOf(Images!Written(j)) \ Images!FilesOf(image[i])
    <3>1. PICK written : written = Images!Written(j).image
      OBVIOUS
    <3>2. /\ Images!OldImage(i, img) =
               Images!Optional(image[i].image) \ Images!Optional(written)
          /\ Images!Optional(img) =
               Images!Optional(written) \ Images!Optional(image[i].image)
          /\ Images!BannersApart =>
               /\ image[i].banners \cap Images!Optional(image[i].image) = {}
               /\ image[i].banners \cap Images!Optional(written) = {}
      BY <2>2, <3>1, ReplacedImage
    <3>3. add \cap image[i].banners = {} /\ add \cap Images!Optional(image[i].image) = {}
      BY <1>0 DEF Images!FilesOf
    <3>4. QED
      BY <2>1, <2>2, <3>1, <3>2, <3>3 DEF Images!FilesOf
  <2>5. j.old \subseteq Images!FilesOf(image[i])
    BY <2>1, ReplacedImage DEF Images!FilesOf
  <2>6. MayStore(j)
    BY <1>0, <2>1, <2>2, <2>3, <2>4, <2>5 DEF MayStore, Images!Uncommitted
  <2>7. QED
    BY <2>3, <2>6, StoreStep
<1>5. ASSUME NEW i \in Images!Items, NEW img, NEW add,
             Images!UploadForPocaEvent(h, i, img, add, FALSE)
      PROVE  Images!Live(i) /\ Images!Store(h, "image", i, img, {}, {}, Images!OldImage(i, img))
  <2>1. add = {} /\ Images!OldImage(i, img) \cup {} = Images!OldImage(i, img)
    BY <1>5 DEF Images!UploadForPocaEvent
  <2>2. QED
    BY <1>5, <2>1 DEF Images!UploadForPocaEvent
<1>6. /\ \A i : i \in SiteEvents \/ i \in PocaEvents \/ i \in Gifticons \/ i \in OneSite => i \in Images!Items
      /\ Images!Images = Images!NewFiles \cup {None}
  BY DEF Images!Items, Images!Images
<1>7. CASE Images!SiteEventController(h)
  BY <1>1, <1>2, <1>6, <1>7 DEF Images!SiteEventController
<1>8. CASE Images!PocaEventController(h)
  <2>1. PICK i \in PocaEvents, add \in SUBSET Images!NewFiles :
          \/ \E img \in Images!Images : Images!UploadForCreate(h, i, img, add)
          \/ \E img \in Images!Images \cup {Keep}, replace \in BOOLEAN :
               Images!UploadForPocaEvent(h, i, img, add, replace)
    BY <1>8 DEF Images!PocaEventController
  <2>2. QED
    BY <1>1, <1>3, <1>4, <1>5, <1>6, <2>1
<1>9. CASE Images!GifticonController(h)
  BY <1>1, <1>3, <1>6, <1>9 DEF Images!GifticonController, Images!UploadForGifticon
<1>10. CASE Images!SiteController(h)
  BY <1>1, <1>3, <1>6, <1>10 DEF Images!SiteController, Images!UploadForSite
<1>11. QED
  BY <1>7, <1>8, <1>9, <1>10

-----------------------------------------------------------------------------
(* What is left of a use case *)

\* A request that is alone: the files there are are those of rows, those it has
\* in hand and those that were left behind.
LEMMA AloneWithFiles ==
  ASSUME ImageInv, NEW h \in Handlers, NEW j, j = job[h], ~Images!Idle(h), ~spoilt, calm
  PROVE  /\ \A g \in Handlers \ {h} : Images!Idle(g)
         /\ Images!Named \subseteq disk
         /\ disk \subseteq Images!Named \cup left \cup j.new \cup j.old
         /\ j.op \in Images!Uncommitted => j.new \cap Images!Named = {} /\ j.old \subseteq Images!Named
         /\ j.op \in {"reload", "clean"} => j.old \cap Images!Named = {} /\ j.new \subseteq Images!Named
<1>1. /\ \A g \in Handlers \ {h} : Images!Idle(g)
      /\ Images!Named \subseteq disk /\ disk \subseteq Images!Named \cup left \cup Images!InHand
      /\ Images!DeletesWhatItDrops(h)
  BY DEF ImageInv, Images!NothingLost
<1>2. Images!JobIsReal(h) /\ Images!OwnFiles(h)
  BY DEF ImageInv, Images!JobsAreReal, Images!FilesOwned
<1>3. ASSUME j.op \in Images!Uncommitted
      PROVE  /\ j.new \cap Images!Named = {} /\ j.old \subseteq Images!Named
             /\ Images!Optional(j.image) \subseteq Images!Named \cup j.new
  <2>1. j.item \in Images!Items
    BY <1>2, <1>3 DEF Images!JobIsReal, Images!Uncommitted
  <2>2. /\ j.old = Images!FilesOf(image[j.item]) \ Images!FilesOf(Images!Written(j))
        /\ j.new = Images!FilesOf(Images!Written(j)) \ Images!FilesOf(image[j.item])
    BY <1>1, <1>3 DEF Images!DeletesWhatItDrops
  <2>3. Images!FilesOf(image[j.item]) \subseteq Images!Named
    BY <2>1, WhatIsNamed
  <2>4. Images!Optional(j.image) \subseteq Images!FilesOf(Images!Written(j))
    <3>1. j.image # Keep => Images!Written(j).image = j.image
      BY DEF Images!Written
    <3>2. Images!Optional(Keep) = {}
      BY DEF Images!Optional
    <3>3. QED
      BY <3>1, <3>2 DEF Images!FilesOf
  <2>5. j.new \cap Images!Named = {}
    BY <1>2, <1>3 DEF Images!OwnFiles
  <2>6. QED
    BY <2>2, <2>3, <2>4, <2>5
<1>4. j.op \in {"reload", "clean"} =>
        /\ j.old \cap Images!Named = {} /\ j.new \subseteq Images!Named
        /\ Images!Optional(j.image) \subseteq Images!Named
  BY <1>1, <1>2 DEF Images!DeletesWhatItDrops, Images!JobIsReal, Images!Optional
<1>5. \A f : f \in Images!InHand => f \in Images!HandOf(j)
  BY <1>1, WhatIsInHand
<1>6. j.op \in Images!Uncommitted \cup {"reload", "clean"}
  BY <1>2 DEF Images!JobIsReal
<1>7. QED
  BY <1>1, <1>3, <1>4, <1>5, <1>6 DEF Images!HandOf

LEMMA BusyWithFiles ==
  ASSUME ImageInv, NEW h \in Handlers, NEW j, j = job[h],
         j.op \in Images!Uncommitted \cup {"reload", "clean"}
  PROVE  /\ ~Images!Idle(h) /\ Images!JobIsReal(h) /\ DOMAIN job = Handlers
         /\ j.new \subseteq Files /\ j.old \subseteq Files
         /\ \A n : job' = [job EXCEPT ![h] = n] => job'[h] = n
         /\ ~spoilt =>
              /\ Images!OwnFiles(h) /\ Images!BannersApart
              /\ \A i \in Images!Items : image[i].banners \subseteq disk
              /\ \A g \in Handlers \ {h} :
                   job[g].op \in Images!Uncommitted =>
                     /\ job[g].new \subseteq disk /\ job[g].new \cap Images!Named = {}
                     /\ job[g].new \cap (j.new \cup j.old \cup Images!Optional(j.image)) = {}
<1>1. ~Images!Idle(h) /\ Images!JobIsReal(h) /\ DOMAIN job = Handlers
  BY ImagesRest DEF ImageInv, Images!JobsAreReal
<1>2. \A n : job' = [job EXCEPT ![h] = n] => job'[h] = n
  BY <1>1
<1>3. ~spoilt =>
        /\ \A g \in Handlers : Images!OwnFiles(g)
        /\ Images!BannersApart /\ \A i \in Images!Items : image[i].banners \subseteq disk
  BY DEF ImageInv, Images!FilesOwned
<1>4. QED
  BY <1>1, <1>2, <1>3 DEF Images!JobIsReal, Images!OwnFiles, Images!HandOf

\* A use case has its transaction behind it, and what is left to do is to delete
\* files, none of them named, or nothing.
LEMMA ToCleanUp ==
  ASSUME ImageInv, NEW h \in Handlers, NEW j, j = job[h],
         j.op \in Images!Uncommitted \cup {"reload", "clean"},
         NEW files \in SUBSET Files,
         \/ Images!CleanUp(h, files)
         \/ Images!End(h) /\ files = {},
         UNCHANGED image, left' \subseteq Files, spoilt' \in BOOLEAN, spoilt => spoilt',
         disk' \subseteq disk,
         ~spoilt' =>
           /\ files \subseteq j.new \cup j.old
           /\ \A i \in Images!Items : image[i].banners \cap files = {}
           /\ disk \ disk' \subseteq j.old
           /\ disk # disk' => j.op = "clean",
         ~spoilt' /\ calm =>
           /\ files \cap Images!Named = {}
           /\ left \subseteq left'
           /\ (j.new \cup j.old) \cap disk' \subseteq Images!Named \cup files \cup left'
  PROVE  ImageInv'
<1>1. PICK n : /\ job' = [job EXCEPT ![h] = n]
               /\ \/ n = Images!Resting /\ files = {}
                  \/ n.op = "clean" /\ n.old = files /\ n.new = {} /\ n.image = None
  <2>1. CASE Images!CleanUp(h, files)
    <3>1. PICK n : n = [op |-> "clean", image |-> None, new |-> {}, old |-> files]
      OBVIOUS
    <3>2. job' = [job EXCEPT ![h] = n] /\ n.op = "clean" /\ n.old = files /\ n.new = {} /\ n.image = None
      BY <2>1, <3>1 DEF Images!CleanUp, Images!Continue
    <3>3. QED
      BY <3>2
  <2>2. CASE Images!End(h) /\ files = {}
    BY <2>2 DEF Images!End
  <2>3. QED
    BY <2>1, <2>2
<1>2. calm' = calm /\ calm \in BOOLEAN /\ disk \subseteq Files
  BY Zenon DEF Images!CleanUp, Images!Continue, Images!End, ImageInv, Images!TypeOK
<1>3. /\ ~Images!Idle(h) /\ job'[h] = n /\ n.op \notin Images!Uncommitted
      /\ Images!Optional(None) = {} /\ (n # Images!Resting => Images!HandOf(n) = files)
  BY <1>1, BusyWithFiles, ImagesRest DEF Images!Optional, Images!HandOf, Images!Uncommitted
<1>4. Images!JobIsReal(h)'
  BY <1>1, <1>3, ImagesRest DEF Images!JobIsReal, Images!Idle, Images!Uncommitted
<1>5. ASSUME ~spoilt'
      PROVE  /\ Images!OwnFiles(h)'
             /\ \A g \in Handlers \ {h} :
                  job[g].op \in Images!Uncommitted =>
                    /\ job[g].new \subseteq disk'
                    /\ n # Images!Resting => job[g].new \cap Images!HandOf(n) = {}
             /\ \A i \in Images!Items : image[i].banners \subseteq disk'
  <2>1. Images!OwnFiles(h)'
    <3>1. n # Images!Resting => n.old = files /\ n.image = None
      BY <1>1
    <3>2. \A i \in Images!Items : image'[i].banners \cap files = {}
      BY <1>5
    <3>3. QED
      BY <1>3, <3>1, <3>2 DEF Images!OwnFiles, Images!Idle
  <2>2. \A i \in Images!Items : image[i].banners \cap (disk \ disk') = {}
    <3>1. CASE disk = disk'
      BY <3>1
    <3>2. CASE j.op = "clean"
      <4>1. ~Images!ReplacesBanners(j) /\ j.op # "event"
        BY <3>2 DEF Images!ReplacesBanners
      <4>2. Images!OwnFiles(h)
        BY <1>5, BusyWithFiles
      <4>3. QED
        BY <1>3, <1>5, <4>1, <4>2 DEF Images!OwnFiles
    <3>3. QED
      BY <1>5, <3>1, <3>2
  <2>3. ASSUME NEW g \in Handlers \ {h}, job[g].op \in Images!Uncommitted
        PROVE  /\ job[g].new \subseteq disk'
               /\ n # Images!Resting => job[g].new \cap Images!HandOf(n) = {}
    <3>1. job[g].new \subseteq disk /\ job[g].new \cap (j.new \cup j.old) = {}
      BY <1>5, <2>3, BusyWithFiles
    <3>2. QED
      BY <1>3, <1>5, <3>1
  <2>4. \A i \in Images!Items : image[i].banners \subseteq disk
    BY <1>5, BusyWithFiles
  <2>5. QED
    BY <2>1, <2>2, <2>3, <2>4
<1>6. ASSUME ~spoilt', calm'
      PROVE  /\ \A g \in Handlers \ {h} : Images!Idle(g)
             /\ Images!DeletesWhatItDrops(h)'
             /\ Images!Named \subseteq disk'
             /\ disk' \subseteq Images!Named \cup left' \cup files
  <2>1. /\ \A g \in Handlers \ {h} : Images!Idle(g)
        /\ Images!Named \subseteq disk
        /\ disk \subseteq Images!Named \cup left \cup j.new \cup j.old
        /\ j.op = "clean" => j.old \cap Images!Named = {}
    BY <1>2, <1>3, <1>6, AloneWithFiles
  <2>2. n.op # "reload" /\ (n.op = "clean" => n.old \cap Images!Named' = {})
    BY <1>1, <1>2, <1>6, ImagesRest, WhatIsNamed
  <2>3. Images!DeletesWhatItDrops(h)'
    BY <1>3, <2>2 DEF Images!DeletesWhatItDrops
  <2>4. Images!Named \subseteq disk'
    BY <1>6, <2>1
  <2>5. QED
    BY <1>2, <1>6, <2>1, <2>3, <2>4
<1>7. (IF n = Images!Resting THEN {} ELSE Images!HandOf(n)) = files
  BY <1>1, <1>3, ImagesRest
<1>8. calm' \in BOOLEAN /\ (calm' => calm) /\ disk' \subseteq Files
  BY <1>2
<1>9. QED
  BY <1>1, <1>3, <1>4, <1>5, <1>6, <1>7, <1>8, HandStep

\* A transaction leaves what its job has for the row.
LEMMA TransactionStep ==
  ASSUME ImageInv, Images!KeepIsNoFile, NEW h \in Handlers,
         \/ Images!Create(h) \/ Images!Save(h) \/ Images!UpdateSiteEvent(h) \/ Images!UpdateSite(h)
  PROVE  ImageInv'
<1> DEFINE after(n, j) ==
      \/ n = Images!Resting /\ j.old = {}
      \/ /\ n.op = "clean" /\ n.old = j.old /\ n.new = {} /\ n.image = None
      \/ /\ n.op = "reload" /\ n.old = j.old /\ n.new = j.new /\ n.image = j.image
         /\ n.item = j.item /\ j.op \in {"insert", "site"}
<1>1. PICK j : j = job[h]
  OBVIOUS
<1>2. j.op \in Images!Uncommitted /\ UNCHANGED <<disk, left, spoilt, calm>>
  BY <1>1 DEF Images!Create, Images!Save, Images!UpdateSiteEvent, Images!UpdateSite, Images!At,
              Images!Uncommitted, Images!Continue, Images!End, Images!CleanUp
<1>3. Images!JobIsReal(h) /\ ~Images!Idle(h)
  BY <1>1, <1>2, BusyWithFiles
<1>4. /\ j.item \in Images!Items /\ j.new \subseteq Files /\ j.old \subseteq Files
      /\ j.image \in Files \cup {Keep, None} /\ j.add \subseteq j.new
      /\ {"op", "item", "image", "new", "old"} \subseteq DOMAIN j
      /\ j.op # "insert" => image[j.item] # Images!NoRow
      /\ j.op = "insert" => j.image # Keep /\ j.old = {}
      /\ j.op = "event" => j.image = Keep /\ j.old = j.gone
      /\ j.op = "save" => j.image # Keep /\ j.replace \in BOOLEAN
  BY <1>1, <1>2, <1>3 DEF Images!JobIsReal, Images!Uncommitted
<1>5. \A n : n = [j EXCEPT !.op = "reload"] =>
              /\ n.op = "reload" /\ n.old = j.old /\ n.new = j.new /\ n.image = j.image
              /\ n.item = j.item
  BY <1>4
<1>6. ASSUME NEW r \in Images!Row, r.banners = Images!Written(j).banners,
             r.image = Images!Written(j).image, image' = [image EXCEPT ![j.item] = r],
             NEW n, job' = [job EXCEPT ![h] = n], after(n, j)
      PROVE  ImageInv'
  BY <1>1, <1>2, <1>6, CommitStep
<1>7. /\ Images!CleanUp(h, j.old) => \E n : job' = [job EXCEPT ![h] = n] /\ after(n, j)
      /\ Images!Continue(h, [j EXCEPT !.op = "reload"]) /\ j.op \in {"insert", "site"} =>
           \E n : job' = [job EXCEPT ![h] = n] /\ after(n, j)
      /\ Images!End(h) /\ j.old = {} => \E n : job' = [job EXCEPT ![h] = n] /\ after(n, j)
  <2>1. ASSUME Images!CleanUp(h, j.old)
        PROVE  \E n : job' = [job EXCEPT ![h] = n] /\ after(n, j)
    <3>1. PICK n : n = [op |-> "clean", image |-> None, new |-> {}, old |-> j.old]
      OBVIOUS
    <3>2. job' = [job EXCEPT ![h] = n] /\ after(n, j)
      BY <2>1, <3>1 DEF Images!CleanUp, Images!Continue
    <3>3. QED
      BY <3>2
  <2>2. ASSUME Images!Continue(h, [j EXCEPT !.op = "reload"]), j.op \in {"insert", "site"}
        PROVE  \E n : job' = [job EXCEPT ![h] = n] /\ after(n, j)
    <3>1. PICK n : n = [j EXCEPT !.op = "reload"]
      OBVIOUS
    <3>2. job' = [job EXCEPT ![h] = n] /\ after(n, j)
      BY <1>5, <2>2, <3>1 DEF Images!Continue
    <3>3. QED
      BY <3>2
  <2>3. ASSUME Images!End(h), j.old = {}
        PROVE  \E n : job' = [job EXCEPT ![h] = n] /\ after(n, j)
    BY <2>3 DEF Images!End
  <2>4. QED
    BY <2>1, <2>2, <2>3
<1>8. CASE Images!Create(h)
  <2>1. PICK r : r = [status |-> "live", image |-> j.image, banners |-> j.add]
    OBVIOUS
  <2>2. j.op = "insert" /\ image' = [image EXCEPT ![j.item] = r]
    BY <1>1, <1>8, <2>1 DEF Images!Create, Images!At
  <2>3. /\ r \in Images!Row /\ r.banners = Images!Written(j).banners
        /\ r.image = Images!Written(j).image
    BY <1>4, <2>1, <2>2 DEF Images!Row, Images!Written, Images!ReplacesBanners
  <2>4. Images!End(h) \/ Images!Continue(h, [j EXCEPT !.op = "reload"])
    BY <1>1, <1>8 DEF Images!Create
  <2>5. QED
    BY <1>4, <1>6, <1>7, <2>2, <2>3, <2>4
<1>9. CASE Images!Save(h)
  <2>1. j.op = "save" /\ Images!CleanUp(h, j.old)
    BY <1>1, <1>9 DEF Images!Save, Images!At
  <2>2. image[j.item] \in Images!Row /\ image[j.item].banners \subseteq Files
    BY <1>4, <2>1 DEF ImageInv, Images!TypeOK, Images!Row
  <2>3. PICK banners \in SUBSET Files :
          banners = IF j.replace THEN j.add ELSE image[j.item].banners
    BY <1>4, <2>2
  <2>4. PICK r : r = [image[j.item] EXCEPT !.image = j.image, !.banners = banners]
    OBVIOUS
  <2>5. r \in Images!Row /\ r.banners = banners /\ r.image = j.image
    BY <1>4, <2>1, <2>2, <2>4 DEF Images!Row
  <2>6. Images!Written(j).banners = banners /\ Images!Written(j).image = j.image
    BY <1>4, <2>1, <2>3 DEF Images!Written, Images!ReplacesBanners
  <2>7. image' = [image EXCEPT ![j.item] = r]
    BY <1>1, <1>4, <1>9, <2>3, <2>4 DEF Images!Save, ImageInv, Images!TypeOK
  <2>8. QED
    BY <1>6, <1>7, <2>1, <2>5, <2>6, <2>7
<1>10. CASE Images!UpdateSiteEvent(h)
  <2>1. j.op = "event" /\ Images!CleanUp(h, j.old)
    BY <1>1, <1>10 DEF Images!UpdateSiteEvent, Images!At
  <2>2. image[j.item] \in Images!Row /\ image[j.item].image \in Files \cup {None}
        /\ image[j.item].banners \subseteq Files
    BY <1>4, <2>1 DEF ImageInv, Images!TypeOK, Images!Row
  <2>3. PICK banners \in SUBSET Files : banners = (image[j.item].banners \ j.gone) \cup j.add
    BY <1>4, <2>2
  <2>4. PICK r : r = [image[j.item] EXCEPT !.banners = banners]
    OBVIOUS
  <2>5. r \in Images!Row /\ r.banners = banners /\ r.image = image[j.item].image
    BY <2>2, <2>4 DEF Images!Row
  <2>6. Images!Written(j).banners = banners /\ Images!Written(j).image = image[j.item].image
    BY <1>4, <2>1, <2>3 DEF Images!Written, Images!ReplacesBanners
  <2>7. image' = [image EXCEPT ![j.item] = r]
    BY <1>1, <1>4, <1>10, <2>3, <2>4 DEF Images!UpdateSiteEvent, ImageInv, Images!TypeOK
  <2>8. QED
    BY <1>6, <1>7, <2>1, <2>5, <2>6, <2>7
<1>11. CASE Images!UpdateSite(h)
  <2>1. j.op = "site" /\ Images!Continue(h, [j EXCEPT !.op = "reload"])
    BY <1>1, <1>11 DEF Images!UpdateSite, Images!At
  <2>2. image[j.item] \in Images!Row /\ image[j.item].image \in Files \cup {None}
        /\ image[j.item].banners \subseteq Files
    BY <1>4, <2>1 DEF ImageInv, Images!TypeOK, Images!Row
  <2>3. PICK img \in Files \cup {None} : img = IF j.image = Keep THEN image[j.item].image ELSE j.image
    BY <1>4, <2>2
  <2>4. PICK r : r = [image[j.item] EXCEPT !.image = img]
    OBVIOUS
  <2>5. r \in Images!Row /\ r.banners = image[j.item].banners /\ r.image = img
    BY <2>2, <2>4 DEF Images!Row
  <2>6. Images!Written(j).banners = image[j.item].banners /\ Images!Written(j).image = img
    BY <1>4, <2>1, <2>3 DEF Images!Written, Images!ReplacesBanners
  <2>7. image' = [image EXCEPT ![j.item] = r]
    BY <1>1, <1>4, <1>11, <2>3, <2>4 DEF Images!UpdateSite, ImageInv, Images!TypeOK
  <2>8. QED
    BY <1>6, <1>7, <2>1, <2>5, <2>6, <2>7
<1>12. QED
  BY <1>8, <1>9, <1>10, <1>11

\* The row is read: what the job has for it is the same as before.
LEMMA ReadStep ==
  ASSUME ImageInv, Images!KeepIsNoFile, NEW h \in Handlers, Images!Read(h)
  PROVE  ImageInv'
<1>1. PICK j : j = job[h]
  OBVIOUS
<1>2. /\ j.op \in {"image", "poca"} /\ j.op \in Images!Uncommitted
      /\ UNCHANGED <<image, disk, left, spoilt, calm>>
  BY <1>1 DEF Images!Read, Images!Uncommitted, Images!Continue
<1>3. Images!JobIsReal(h) /\ ~Images!Idle(h) /\ DOMAIN job = Handlers
  BY <1>1, <1>2, BusyWithFiles
<1>4. /\ j.item \in Images!Items /\ j.new \subseteq Files /\ j.old \subseteq Files
      /\ j.image \in Files \cup {Keep, None} /\ j.add \subseteq j.new
      /\ image[j.item] # Images!NoRow
  BY <1>1, <1>2, <1>3 DEF Images!JobIsReal
<1>5. PICK img : img = IF j.image = Keep THEN image[j.item].image ELSE j.image
  OBVIOUS
<1>6. PICK n : n = [op |-> "save", item |-> j.item, new |-> j.new, old |-> j.old, add |-> j.add,
                    replace |-> j.op = "poca", image |-> img]
  OBVIOUS
<1>7. job' = [job EXCEPT ![h] = n] /\ job'[h] = n
  BY <1>1, <1>3, <1>5, <1>6 DEF Images!Read, Images!Continue
<1>8. /\ n.op = "save" /\ n.item = j.item /\ n.new = j.new /\ n.old = j.old /\ n.add = j.add
      /\ n.image = img /\ n.replace \in BOOLEAN /\ (n.replace <=> j.op = "poca")
      /\ {"op", "item", "image", "new", "old"} \subseteq DOMAIN n
  BY <1>6
<1>9. image[j.item] \in Images!Row /\ image[j.item].image \in Files \cup {None}
  BY <1>4 DEF ImageInv, Images!TypeOK, Images!Row
<1>10. img \in Files \cup {None} /\ img # Keep
  BY <1>4, <1>5, <1>9 DEF Images!KeepIsNoFile
<1>11. Images!JobIsReal(h)'
  BY <1>2, <1>4, <1>7, <1>8, <1>10 DEF Images!JobIsReal, Images!Uncommitted
<1>12. Images!Optional(img) \subseteq Images!Optional(j.image) \cup Images!Optional(image[j.item].image)
  BY <1>5
<1>13. /\ Images!Written(n).banners = Images!Written(j).banners
       /\ Images!Written(n).image = Images!Written(j).image
       /\ Images!ReplacesBanners(n) <=> Images!ReplacesBanners(j)
  BY <1>2, <1>5, <1>8, <1>10 DEF Images!Written, Images!ReplacesBanners
<1>14. n # Images!Resting
  BY <1>8, ImagesRest
<1>15. ASSUME ~spoilt'
       PROVE  /\ Images!OwnFiles(h)'
              /\ \A g \in Handlers \ {h} :
                   job[g].op \in Images!Uncommitted =>
                     job[g].new \subseteq disk' /\ job[g].new \cap Images!HandOf(n) = {}
              /\ \A i \in Images!Items : image[i].banners \subseteq disk'
  <2>1. /\ Images!OwnFiles(h) /\ Images!BannersApart
        /\ \A i \in Images!Items : image[i].banners \subseteq disk
        /\ \A g \in Handlers \ {h} :
             job[g].op \in Images!Uncommitted =>
               /\ job[g].new \subseteq disk /\ job[g].new \cap Images!Named = {}
               /\ job[g].new \cap (j.new \cup j.old \cup Images!Optional(j.image)) = {}
    BY <1>1, <1>2, <1>15, BusyWithFiles
  <2>2. Images!Optional(image[j.item].image) \subseteq Images!Named
    BY <1>4, WhatIsNamed DEF Images!FilesOf
  <2>3. j.new \cap Images!Named = {} /\ j.image \notin j.add
    BY <1>1, <1>2, <2>1 DEF Images!OwnFiles
  <2>4. img \notin j.add
    <3>1. CASE j.image = Keep /\ img # None
      <4>1. img \in Images!Named
        BY <1>5, <1>10, <2>2, <3>1 DEF Images!Optional
      <4>2. QED
        BY <1>4, <2>3, <4>1
    <3>2. CASE j.image = Keep /\ img = None
      BY <1>4, <3>2 DEF Images!KeepIsNoFile
    <3>3. CASE j.image # Keep
      BY <1>5, <2>3, <3>3
    <3>4. QED
      BY <3>1, <3>2, <3>3
  <2>5. Images!OwnFiles(h)'
    <3>1. /\ n.new \subseteq disk' /\ n.image \notin n.add
          /\ n.new \cap (Images!Named \cup n.old)' = {}
      BY <1>1, <1>2, <1>8, <2>1, <2>4, WhatIsNamed DEF Images!OwnFiles
    <3>2. \A g \in Handlers \ {h} : ~Images!Idle(g)' => n.new \cap Images!HandOf(job'[g]) = {}
      BY <1>1, <1>2, <1>3, <1>7, <1>8, <2>1 DEF Images!OwnFiles, Images!Idle
    <3>3. ASSUME NEW i \in Images!Items
          PROVE  /\ image[i].banners \cap Images!Optional(n.image) = {}
                 /\ \/ image[i].banners \cap n.old = {}
                    \/ (Images!ReplacesBanners(n) \/ n.op = "event") /\ n.item = i
      <4>1. image[i].banners \cap Images!Optional(image[j.item].image) = {}
        BY <1>4, <2>1 DEF Images!BannersApart
      <4>2. /\ image[i].banners \cap Images!Optional(j.image) = {}
            /\ image[i].banners \cap j.old = {} \/ (Images!ReplacesBanners(j) /\ j.item = i)
        BY <1>1, <1>2, <1>3, <2>1 DEF Images!OwnFiles
      <4>3. QED
        BY <1>8, <1>12, <1>13, <4>1, <4>2
    <3>4. QED
      BY <1>2, <1>7, <3>1, <3>2, <3>3 DEF Images!OwnFiles, Images!ReplacesBanners
  <2>6. ASSUME NEW g \in Handlers \ {h}, job[g].op \in Images!Uncommitted
        PROVE  job[g].new \subseteq disk' /\ job[g].new \cap Images!HandOf(n) = {}
    BY <1>2, <1>8, <1>12, <2>1, <2>2, <2>6 DEF Images!HandOf
  <2>7. QED
    BY <1>2, <2>1, <2>5, <2>6
<1>16. ASSUME ~spoilt', calm'
       PROVE  /\ \A g \in Handlers \ {h} : Images!Idle(g)
              /\ Images!DeletesWhatItDrops(h)'
              /\ Images!Named \subseteq disk'
              /\ disk' \subseteq Images!Named \cup left' \cup Images!HandOf(n)
  <2>1. /\ \A g \in Handlers \ {h} : Images!Idle(g)
        /\ Images!Named \subseteq disk
        /\ disk \subseteq Images!Named \cup left \cup j.new \cup j.old
    BY <1>1, <1>2, <1>3, <1>16, AloneWithFiles
  <2>2. Images!DeletesWhatItDrops(h)
    BY <1>2, <1>16 DEF ImageInv, Images!NothingLost
  <2>3. /\ Images!Written(n)'.banners = Images!Written(n).banners
        /\ Images!Written(n)'.image = Images!Written(n).image
    BY <1>2 DEF Images!Written
  <2>4. Images!DeletesWhatItDrops(h)'
    BY <1>1, <1>2, <1>7, <1>8, <1>13, <2>2, <2>3 DEF Images!DeletesWhatItDrops, Images!FilesOf
  <2>5. QED
    BY <1>2, <1>8, <2>1, <2>4 DEF Images!HandOf
<1>17. /\ calm' \in BOOLEAN /\ (calm' => calm) /\ disk' \subseteq Files /\ left' \subseteq Files
       /\ spoilt' \in BOOLEAN /\ (spoilt => spoilt') /\ UNCHANGED image
  BY <1>2 DEF ImageInv, Images!TypeOK
<1>18. QED
  BY <1>7, <1>11, <1>14, <1>15, <1>16, <1>17, HandStep

LEMMA LastStep ==
  ASSUME ImageInv, NEW h \in Handlers,
         \/ Images!Reload(h) \/ Images!ReloadFails(h) \/ Images!RollBack(h)
         \/ Images!DeleteFiles(h) \/ Images!Crash(h)
  PROVE  ImageInv'
<1>1. PICK j : j = job[h]
  OBVIOUS
<1>2. /\ UNCHANGED <<image, calm>> /\ left \subseteq left' /\ disk' \subseteq disk
      /\ spoilt \in BOOLEAN /\ left \subseteq Files /\ (spoilt => spoilt') /\ spoilt' \in BOOLEAN
  BY DEF Images!Reload, Images!ReloadFails, Images!RollBack, Images!DeleteFiles, Images!Crash,
         Images!CleanUp, Images!Continue, Images!End, ImageInv, Images!TypeOK
<1>3. j.op \in Images!Uncommitted \cup {"reload", "clean"}
  BY <1>1 DEF Images!Reload, Images!ReloadFails, Images!RollBack, Images!DeleteFiles,
              Images!Crash, Images!At, Images!Uncommitted, ImageInv, Images!JobsAreReal, Images!JobIsReal
<1>4. /\ ~Images!Idle(h) /\ Images!JobIsReal(h) /\ j.new \subseteq Files /\ j.old \subseteq Files
      /\ ~spoilt => Images!OwnFiles(h)
  BY <1>1, <1>3, BusyWithFiles
<1>5. ASSUME ~spoilt, NEW i \in Images!Items
      PROVE  /\ j.op \in {"reload", "clean"} => image[i].banners \cap j.old = {}
             /\ j.op \in Images!Uncommitted => image[i].banners \cap j.new = {}
  <2>1. image[i].banners \subseteq Images!Named
    BY WhatIsNamed DEF Images!FilesOf
  <2>2. j.op \in {"reload", "clean"} => ~Images!ReplacesBanners(j) /\ j.op # "event"
    BY DEF Images!ReplacesBanners
  <2>3. QED
    BY <1>1, <1>4, <1>5, <2>1, <2>2 DEF Images!OwnFiles
<1>6. ~spoilt /\ calm =>
        /\ j.op \in Images!Uncommitted => j.new \cap Images!Named = {} /\ j.old \subseteq Images!Named
        /\ j.op \in {"reload", "clean"} => j.old \cap Images!Named = {} /\ j.new \subseteq Images!Named
  BY <1>1, <1>4, AloneWithFiles
<1>7. CASE Images!Reload(h)
  <2>1. j.op = "reload" /\ Images!CleanUp(h, j.old) /\ UNCHANGED <<image, disk, left, spoilt>>
    BY <1>1, <1>7 DEF Images!Reload, Images!At
  <2>2. QED
    BY <1>1, <1>2, <1>3, <1>4, <1>5, <1>6, <2>1, ToCleanUp
<1>8. CASE Images!ReloadFails(h)
  <2>1. /\ j.op = "reload" /\ Images!CleanUp(h, j.new) /\ left' = left \cup j.old
        /\ spoilt' = (spoilt \/ j.new # {}) /\ UNCHANGED <<image, disk>>
    BY <1>1, <1>8 DEF Images!ReloadFails, Images!At
  <2>2. left' \subseteq Files /\ (~spoilt' => j.new = {})
    BY <1>2, <1>4, <2>1
  <2>3. QED
    BY <1>1, <1>2, <1>3, <1>4, <1>5, <1>6, <2>1, <2>2, ToCleanUp
<1>9. CASE Images!RollBack(h)
  <2>1. PICK collected \in IF Images!At(h, "event") THEN {{}, j.old} ELSE {{}} :
          spoilt' = (spoilt \/ collected # {}) /\ Images!CleanUp(h, j.new \cup collected)
    BY <1>1, <1>9 DEF Images!RollBack
  <2>2. j.op \in Images!Uncommitted /\ UNCHANGED <<image, disk, left>>
    BY <1>1, <1>9 DEF Images!RollBack, Images!Uncommitted
  <2>3. PICK files \in SUBSET Files : files = j.new \cup collected
    BY <1>4, <2>1
  <2>4. Images!CleanUp(h, files) /\ (~spoilt' => ~spoilt /\ files = j.new)
    BY <2>1, <2>3
  <2>5. QED
    BY <1>1, <1>2, <1>3, <1>5, <1>6, <2>2, <2>4, ToCleanUp
<1>10. CASE Images!DeleteFiles(h)
  <2>1. PICK files \in SUBSET j.old : disk' = disk \ files /\ left' = left \cup (j.old \ files)
    BY <1>1, <1>10 DEF Images!DeleteFiles
  <2>2. j.op = "clean" /\ Images!End(h) /\ UNCHANGED <<image, spoilt>> /\ j.new = {}
    BY <1>1, <1>4, <1>10 DEF Images!DeleteFiles, Images!At, Images!JobIsReal
  <2>3. /\ left' \subseteq Files /\ disk \ disk' \subseteq j.old
        /\ (j.new \cup j.old) \cap disk' \subseteq left'
    BY <1>2, <1>4, <2>1, <2>2
  <2>4. PICK none \in SUBSET Files : none = {}
    OBVIOUS
  <2>5. QED
    BY <1>1, <1>2, <1>3, <2>2, <2>3, <2>4, ToCleanUp
<1>11. CASE Images!Crash(h)
  <2>1. left' = left \cup j.new \cup j.old /\ Images!End(h) /\ UNCHANGED <<image, disk, spoilt>>
    BY <1>1, <1>11 DEF Images!Crash
  <2>2. left' \subseteq Files /\ (j.new \cup j.old) \cap disk' \subseteq left'
    BY <1>2, <1>4, <2>1
  <2>3. PICK none \in SUBSET Files : none = {}
    OBVIOUS
  <2>4. QED
    BY <1>1, <1>2, <1>3, <2>1, <2>2, <2>3, ToCleanUp
<1>12. QED
  BY <1>7, <1>8, <1>9, <1>10, <1>11

-----------------------------------------------------------------------------

LEMMA NoRequestStep ==
  ASSUME ImageInv,
         \/ \E files \in SUBSET Images!NewFiles \ {{}} : Images!BreakOff(files)
         \/ \E i \in Images!Items : Images!Delete(i)
  PROVE  ImageInv'
<1>1. UNCHANGED <<job, spoilt>> /\ calm' = (calm /\ \A g \in Handlers : Images!Idle(g))
  BY Zenon DEF Images!BreakOff, Images!Delete, Images!AtOnce
<1>2. /\ calm' \in BOOLEAN /\ (calm' => calm /\ \A g \in Handlers : Images!Idle(g))
      /\ image \in [Images!Items -> Images!Row \cup {Images!NoRow}]
      /\ disk \subseteq Files /\ left \subseteq Files
  BY <1>1 DEF ImageInv, Images!TypeOK
<1>3. ASSUME NEW files \in SUBSET Images!NewFiles, Images!BreakOff(files) PROVE ImageInv'
  <2>1. files \in SUBSET Files /\ disk' = disk \cup files /\ left' = left \cup files /\ UNCHANGED image
    BY <1>3 DEF Images!BreakOff, Images!NewFiles
  <2>2. disk' \subseteq Files /\ left' \subseteq Files
    BY <1>2, <2>1
  <2>3. QED
    BY <1>1, <1>2, <2>1, <2>2, RowsKept
<1>4. ASSUME NEW i \in Images!Items, Images!Delete(i) PROVE ImageInv'
  <2>1. /\ image' = [image EXCEPT ![i].status = "deleted"] /\ UNCHANGED <<disk, left>>
        /\ image[i].status = "live"
    BY <1>4 DEF Images!Delete, Images!Live
  <2>2. image[i] \in Images!Row
    BY <1>2, <2>1 DEF Images!NoRow
  <2>3. PICK r : r = [image[i] EXCEPT !.status = "deleted"]
    OBVIOUS
  <2>4. /\ r \in Images!Row /\ r.banners = image[i].banners /\ r.image = image[i].image
        /\ r # Images!NoRow
    BY <2>2, <2>3 DEF Images!Row, Images!NoRow
  <2>5. image' = [image EXCEPT ![i] = r]
    BY <1>2, <2>1, <2>3
  <2>6. /\ image' \in [Images!Items -> Images!Row \cup {Images!NoRow}]
        /\ \A k \in Images!Items :
             /\ image'[k].banners = image[k].banners /\ image'[k].image = image[k].image
             /\ image[k] # Images!NoRow => image'[k] # Images!NoRow
    BY <1>2, <2>4, <2>5
  <2>7. /\ {} \in SUBSET Files /\ disk' = disk \cup {} /\ left' = left \cup {}
    BY <2>1
  <2>8. QED
    BY <1>1, <1>2, <2>1, <2>6, <2>7, RowsKept
<1>5. QED
  BY <1>3, <1>4

LEMMA ImageInit == ASSUME Images!Init, Images!FilesAreFinite PROVE ImageInv
<1>1. /\ image = [i \in Images!Items |-> Images!NoRow] /\ disk = {} /\ left = {} /\ spoilt = FALSE
      /\ job = [h \in Handlers |-> Images!Resting] /\ calm = TRUE
  BY DEF Images!Init, Images!NoJobs
<1>2. Images!Optional(None) = {} /\ Images!NoRow.banners = {} /\ Images!NoRow.image = None
  BY DEF Images!Optional, Images!NoRow
<1>3. Images!TypeOK
  BY <1>1 DEF Images!TypeOK
<1>4. \A h \in Handlers : Images!Idle(h) /\ job[h].op \notin Images!Uncommitted \cup {"reload", "clean"}
  BY <1>1, ImagesRest DEF Images!Idle
<1>5. Images!JobsAreReal
  BY <1>1, <1>4 DEF Images!JobsAreReal, Images!JobIsReal
<1>6. Images!FilesOwned
  BY <1>1, <1>2, <1>4 DEF Images!FilesOwned, Images!BannersApart, Images!OwnFiles
<1>7. \A f : f \notin Images!Named
  BY <1>1, <1>2, WhatIsNamed DEF Images!FilesOf
<1>8. Images!Cardinality({}) <= MaxBanners
  <2>1. Images!Cardinality({}) = Cardinality({})
    BY DEF Images!Cardinality, Cardinality
  <2>2. QED
    BY <2>1, FS_EmptySet DEF Images!FilesAreFinite
<1>9. Images!NothingLost
  BY <1>1, <1>2, <1>4, <1>7, <1>8 DEF Images!NothingLost, Images!DeletesWhatItDrops, Images!FilesOf
<1>10. QED
  BY <1>3, <1>5, <1>6, <1>9 DEF ImageInv

LEMMA ImageStep ==
  ASSUME Images!KeepIsNoFile, Images!FilesAreFinite, ImageInv, [Images!Next]_(Images!vars)
  PROVE  ImageInv'
<1>1. CASE UNCHANGED Images!vars
  <2>1. UNCHANGED <<image, disk, left, spoilt, job, calm>>
    BY <1>1 DEF Images!vars
  <2>2. Images!TypeOK'
    BY <2>1 DEF ImageInv, Images!TypeOK
  <2>3. \A h \in Handlers : Images!Idle(h)' <=> Images!Idle(h)
    BY <2>1 DEF Images!Idle
  <2>4. Images!JobsAreReal'
    <3>1. ASSUME NEW h \in Handlers PROVE Images!JobIsReal(h)'
      BY <2>1 DEF ImageInv, Images!JobsAreReal, Images!JobIsReal, Images!Idle
    <3>2. QED
      BY <2>1, <3>1 DEF ImageInv, Images!JobsAreReal
  <2>5. /\ \A f : f \in Images!Named' <=> f \in Images!Named
        /\ \A f : f \in Images!InHand' <=> f \in Images!InHand
    BY <2>1, <2>3, WhatIsNamed, WhatIsInHand
  <2>6. Images!FilesOwned'
    <3>1. ASSUME NEW h \in Handlers, Images!OwnFiles(h) PROVE Images!OwnFiles(h)'
      BY <2>1, <2>3, <2>5, <3>1 DEF Images!OwnFiles
    <3>2. QED
      BY <2>1, <3>1 DEF ImageInv, Images!FilesOwned, Images!BannersApart
  <2>7. Images!NothingLost'
    <3>1. ASSUME NEW h \in Handlers, Images!DeletesWhatItDrops(h)
          PROVE  Images!DeletesWhatItDrops(h)'
      <4>1. Images!Written(job[h])' = Images!Written(job[h])
        BY <2>1 DEF Images!Written
      <4>2. QED
        BY <2>1, <2>5, <3>1, <4>1 DEF Images!DeletesWhatItDrops
    <3>2. QED
      BY <2>1, <2>3, <2>5, <3>1 DEF ImageInv, Images!NothingLost
  <2>8. QED
    BY <2>2, <2>4, <2>6, <2>7 DEF ImageInv
<1>2. ASSUME NEW h \in Handlers, Images!Finish(h) PROVE ImageInv'
  BY <1>2, TransactionStep, ReadStep, LastStep DEF Images!Finish
<1>3. QED
  BY <1>1, <1>2, UploadStep, NoRequestStep DEF Images!Next

LEMMA ImageInvHolds ==
  ASSUME Images!KeepIsNoFile, Images!FilesAreFinite PROVE Images!Spec => []ImageInv
<1>1. Images!Init => ImageInv
  BY ImageInit
<1>2. ImageInv /\ [Images!Next]_(Images!vars) => ImageInv'
  BY ImageStep
<1>3. QED
  BY <1>1, <1>2, PTL DEF Images!Spec

-----------------------------------------------------------------------------
(* The catalogue: the theorems of the component                             *)

RequestTheorems == INSTANCE CatalogueProofs WITH Tiers <- {}

TierTheorems ==
  INSTANCE CatalogueProofs WITH Names <- OneName, Sites <- OneSite, Requests <- {}

\* Both instances are of the same component: what is defined is the same,
\* definition by definition.
LEMMA SameRequests ==
  /\ SitesAndRequests!Init <=> RequestTheorems!Init
  /\ SitesAndRequests!Next <=> RequestTheorems!Next
  /\ SitesAndRequests!CalmCatalogue <=> RequestTheorems!CalmCatalogue
  /\ SitesAndRequests!MadeOnce <=> RequestTheorems!MadeOnce
  /\ SitesAndRequests!vars = RequestTheorems!vars
BY DEF SitesAndRequests!Resting, SitesAndRequests!Idle, SitesAndRequests!At,
      SitesAndRequests!NoJobs, SitesAndRequests!Begin, SitesAndRequests!Continue,
      SitesAndRequests!End, SitesAndRequests!AtOnce, SitesAndRequests!Busy,
      SitesAndRequests!Labels, SitesAndRequests!Filing, SitesAndRequests!vars,
      SitesAndRequests!NoRow, SitesAndRequests!Live, SitesAndRequests!Known,
      SitesAndRequests!LiveLabels, SitesAndRequests!Init, SitesAndRequests!Same,
      SitesAndRequests!CreateLabel, SitesAndRequests!InUse,
      SitesAndRequests!CheckDeleteLabel, SitesAndRequests!DeleteLabel,
      SitesAndRequests!RestoreLabel, SitesAndRequests!DeleteCategory,
      SitesAndRequests!DeleteTier, SitesAndRequests!NameTaken,
      SitesAndRequests!SlugTaken, SitesAndRequests!SlugInTable,
      SitesAndRequests!CheckCreateSite, SitesAndRequests!Inserted,
      SitesAndRequests!CreateSite, SitesAndRequests!CheckUpdateSite,
      SitesAndRequests!UpdateSite, SitesAndRequests!DeleteSite,
      SitesAndRequests!RestoreSite, SitesAndRequests!NameFound,
      SitesAndRequests!CheckCreateRequest, SitesAndRequests!CreateSiteRequest,
      SitesAndRequests!SlugFree, SitesAndRequests!MoveImages,
      SitesAndRequests!CheckApproveRequest, SitesAndRequests!ApproveSiteRequest,
      SitesAndRequests!CheckDecide, SitesAndRequests!Decide,
      SitesAndRequests!RejectSiteRequest, SitesAndRequests!CancelSiteRequest,
      SitesAndRequests!Fail, SitesAndRequests!CategoryController,
      SitesAndRequests!TierController, SitesAndRequests!CreateRoutes,
      SitesAndRequests!SiteController, SitesAndRequests!SiteRequestController,
      SitesAndRequests!AdminSiteRequestController, SitesAndRequests!Finish,
      SitesAndRequests!Next, SitesAndRequests!CalmCatalogue,
      SitesAndRequests!MadeOnce, SitesAndRequests!Cardinality,
      SitesAndRequests!IsFiniteSet, RequestTheorems!Resting, RequestTheorems!Idle,
      RequestTheorems!At, RequestTheorems!NoJobs, RequestTheorems!Begin,
      RequestTheorems!Continue, RequestTheorems!End, RequestTheorems!AtOnce,
      RequestTheorems!Busy, RequestTheorems!Labels, RequestTheorems!Filing,
      RequestTheorems!vars, RequestTheorems!NoRow, RequestTheorems!Live,
      RequestTheorems!Known, RequestTheorems!LiveLabels, RequestTheorems!Init,
      RequestTheorems!Same, RequestTheorems!CreateLabel, RequestTheorems!InUse,
      RequestTheorems!CheckDeleteLabel, RequestTheorems!DeleteLabel,
      RequestTheorems!RestoreLabel, RequestTheorems!DeleteCategory,
      RequestTheorems!DeleteTier, RequestTheorems!NameTaken,
      RequestTheorems!SlugTaken, RequestTheorems!SlugInTable,
      RequestTheorems!CheckCreateSite, RequestTheorems!Inserted,
      RequestTheorems!CreateSite, RequestTheorems!CheckUpdateSite,
      RequestTheorems!UpdateSite, RequestTheorems!DeleteSite,
      RequestTheorems!RestoreSite, RequestTheorems!NameFound,
      RequestTheorems!CheckCreateRequest, RequestTheorems!CreateSiteRequest,
      RequestTheorems!SlugFree, RequestTheorems!MoveImages,
      RequestTheorems!CheckApproveRequest, RequestTheorems!ApproveSiteRequest,
      RequestTheorems!CheckDecide, RequestTheorems!Decide,
      RequestTheorems!RejectSiteRequest, RequestTheorems!CancelSiteRequest,
      RequestTheorems!Fail, RequestTheorems!CategoryController,
      RequestTheorems!TierController, RequestTheorems!CreateRoutes,
      RequestTheorems!SiteController, RequestTheorems!SiteRequestController,
      RequestTheorems!AdminSiteRequestController, RequestTheorems!Finish,
      RequestTheorems!Next, RequestTheorems!CalmCatalogue,
      RequestTheorems!MadeOnce, RequestTheorems!Cardinality,
      RequestTheorems!IsFiniteSet

LEMMA SameTiers ==
  /\ SitesAndTiers!Init <=> TierTheorems!Init
  /\ SitesAndTiers!Next <=> TierTheorems!Next
  /\ SitesAndTiers!CalmCatalogue <=> TierTheorems!CalmCatalogue
  /\ SitesAndTiers!vars = TierTheorems!vars
BY DEF SitesAndTiers!Resting, SitesAndTiers!Idle, SitesAndTiers!At,
      SitesAndTiers!NoJobs, SitesAndTiers!Begin, SitesAndTiers!Continue,
      SitesAndTiers!End, SitesAndTiers!AtOnce, SitesAndTiers!Busy,
      SitesAndTiers!Labels, SitesAndTiers!Filing, SitesAndTiers!vars,
      SitesAndTiers!NoRow, SitesAndTiers!Live, SitesAndTiers!Known,
      SitesAndTiers!LiveLabels, SitesAndTiers!Init, SitesAndTiers!Same,
      SitesAndTiers!CreateLabel, SitesAndTiers!InUse,
      SitesAndTiers!CheckDeleteLabel, SitesAndTiers!DeleteLabel,
      SitesAndTiers!RestoreLabel, SitesAndTiers!DeleteCategory,
      SitesAndTiers!DeleteTier, SitesAndTiers!NameTaken, SitesAndTiers!SlugTaken,
      SitesAndTiers!SlugInTable, SitesAndTiers!CheckCreateSite,
      SitesAndTiers!Inserted, SitesAndTiers!CreateSite,
      SitesAndTiers!CheckUpdateSite, SitesAndTiers!UpdateSite,
      SitesAndTiers!DeleteSite, SitesAndTiers!RestoreSite,
      SitesAndTiers!NameFound, SitesAndTiers!CheckCreateRequest,
      SitesAndTiers!CreateSiteRequest, SitesAndTiers!SlugFree,
      SitesAndTiers!MoveImages, SitesAndTiers!CheckApproveRequest,
      SitesAndTiers!ApproveSiteRequest, SitesAndTiers!CheckDecide,
      SitesAndTiers!Decide, SitesAndTiers!RejectSiteRequest,
      SitesAndTiers!CancelSiteRequest, SitesAndTiers!Fail,
      SitesAndTiers!CategoryController, SitesAndTiers!TierController,
      SitesAndTiers!CreateRoutes, SitesAndTiers!SiteController,
      SitesAndTiers!SiteRequestController,
      SitesAndTiers!AdminSiteRequestController, SitesAndTiers!Finish,
      SitesAndTiers!Next, SitesAndTiers!CalmCatalogue, SitesAndTiers!Cardinality,
      SitesAndTiers!IsFiniteSet, TierTheorems!Resting, TierTheorems!Idle,
      TierTheorems!At, TierTheorems!NoJobs, TierTheorems!Begin,
      TierTheorems!Continue, TierTheorems!End, TierTheorems!AtOnce,
      TierTheorems!Busy, TierTheorems!Labels, TierTheorems!Filing,
      TierTheorems!vars, TierTheorems!NoRow, TierTheorems!Live,
      TierTheorems!Known, TierTheorems!LiveLabels, TierTheorems!Init,
      TierTheorems!Same, TierTheorems!CreateLabel, TierTheorems!InUse,
      TierTheorems!CheckDeleteLabel, TierTheorems!DeleteLabel,
      TierTheorems!RestoreLabel, TierTheorems!DeleteCategory,
      TierTheorems!DeleteTier, TierTheorems!NameTaken, TierTheorems!SlugTaken,
      TierTheorems!SlugInTable, TierTheorems!CheckCreateSite,
      TierTheorems!Inserted, TierTheorems!CreateSite,
      TierTheorems!CheckUpdateSite, TierTheorems!UpdateSite,
      TierTheorems!DeleteSite, TierTheorems!RestoreSite, TierTheorems!NameFound,
      TierTheorems!CheckCreateRequest, TierTheorems!CreateSiteRequest,
      TierTheorems!SlugFree, TierTheorems!MoveImages,
      TierTheorems!CheckApproveRequest, TierTheorems!ApproveSiteRequest,
      TierTheorems!CheckDecide, TierTheorems!Decide,
      TierTheorems!RejectSiteRequest, TierTheorems!CancelSiteRequest,
      TierTheorems!Fail, TierTheorems!CategoryController,
      TierTheorems!TierController, TierTheorems!CreateRoutes,
      TierTheorems!SiteController, TierTheorems!SiteRequestController,
      TierTheorems!AdminSiteRequestController, TierTheorems!Finish,
      TierTheorems!Next, TierTheorems!CalmCatalogue, TierTheorems!Cardinality,
      TierTheorems!IsFiniteSet

LEMMA SameRequestTypes == SitesAndRequests!TypeOK <=> RequestTheorems!TypeOK
BY DEF SitesAndRequests!TypeOK, SitesAndRequests!Site, SitesAndRequests!SiteRequest,
      SitesAndRequests!NoRow, SitesAndRequests!Labels, SitesAndRequests!Filing,
      SitesAndRequests!Cardinality, SitesAndRequests!IsFiniteSet,
      RequestTheorems!TypeOK, RequestTheorems!Site, RequestTheorems!SiteRequest,
      RequestTheorems!NoRow, RequestTheorems!Labels, RequestTheorems!Filing,
      RequestTheorems!Cardinality, RequestTheorems!IsFiniteSet

LEMMA SameTierTypes == SitesAndTiers!TypeOK <=> TierTheorems!TypeOK
BY DEF SitesAndTiers!TypeOK, SitesAndTiers!Site, SitesAndTiers!SiteRequest,
      SitesAndTiers!NoRow, SitesAndTiers!Labels, SitesAndTiers!Filing,
      SitesAndTiers!Cardinality, SitesAndTiers!IsFiniteSet,
      TierTheorems!TypeOK, TierTheorems!Site, TierTheorems!SiteRequest,
      TierTheorems!NoRow, TierTheorems!Labels, TierTheorems!Filing,
      TierTheorems!Cardinality, TierTheorems!IsFiniteSet

-----------------------------------------------------------------------------
(* The shapes of the listings *)

\* The shapes of the listings that have a second page: sorted by the column they hold and
\* the id, both one way; continued by the id alone; sorted by another column first; or of
\* values that all differ.
TwoColumns(l) ==
  /\ l.holds \in {"created", "key"}
  /\ l.after # "keyset, ids ascending"
  /\ \E o1, o2 :
       /\ l.orders = <<o1, o2>>
       /\ o1.column = l.holds /\ o2.column = "id"
       /\ o1.dir = Lists!Dir(l) /\ o2.dir = Lists!Dir(l)

IdAlone(l) == l.after = "id" \/ l.holds = "nothing"

OtherFirst(l) ==
  /\ l.orders[1].column = "other" /\ l.after # "keyset, ids ascending"
  /\ Lists!Dir(l) = "DESC"

AllDiffer(l) ==
  /\ l.holds # "created"
  /\ \E o1, o2, o3 :
       /\ l.orders = <<o1, o2, o3>>
       /\ o1.column = "key" /\ o1.dir = "DESC"
  /\ \/ l.after = "keyset or null" /\ Lists!Dir(l) = "DESC"
     \/ l.after = "keyset, ids ascending" /\ ~l.isTime

Shaped(l) ==
  /\ l.isTime \in BOOLEAN
  /\ Lists!Dir(l) \in {"ASC", "DESC"}
  /\ l.holds \in {"created", "key", "key else created", "nothing"}
  /\ TwoColumns(l) \/ IdAlone(l) \/ OtherFirst(l) \/ AllDiffer(l)

LEMMA TwoColumnsAreShaped ==
  ASSUME NEW c \in {"created", "key"}, NEW d \in {"ASC", "DESC"}, NEW n, NEW t \in BOOLEAN,
         NEW a, a # "keyset, ids ascending"
  PROVE  Shaped(Lists!Listing(<<Lists!By(c, d, n), Lists!By("id", d, "last")>>, c, a, t))
<1> DEFINE o1 == Lists!By(c, d, n)
           o2 == Lists!By("id", d, "last")
           os == <<o1, o2>>
           l == Lists!Listing(os, c, a, t)
<1>1. o1.column = c /\ o1.dir = d /\ o2.column = "id" /\ o2.dir = d
  BY DEF Lists!By
<1> HIDE DEF o1, o2
<1>2. Len(os) = 2 /\ os[2] = o2 /\ os = <<o1, o2>>
  OBVIOUS
<1> HIDE DEF os
<1>3. /\ l.orders = os /\ l.holds = c /\ l.after = a /\ l.isTime = t
      /\ Lists!Dir(l) = os[Len(os)].dir
  BY DEF Lists!Listing, Lists!Dir
<1> HIDE DEF l
<1>4. Lists!Dir(l) = d
  BY <1>1, <1>2, <1>3
<1>5. TwoColumns(l)
  BY <1>1, <1>2, <1>3, <1>4 DEF TwoColumns
<1>6. Shaped(l)
  BY <1>3, <1>4, <1>5 DEF Shaped
<1>7. QED
  BY <1>6 DEF l, os, o1, o2

LEMMA SortableAreShaped ==
  /\ Shaped(Lists!NewestFirst) /\ Shaped(Lists!OldestFirst)
  /\ \A l \in Lists!Sortable \cup Lists!PlainlySortable \cup Lists!EventsOfSite : Shaped(l)
  /\ \A l \in Lists!PublishedPosts : Shaped(l)
  /\ \A l \in Lists!AllSites : l.after = "nothing" \/ Shaped(l)
<1>1. Shaped(Lists!NewestFirst) /\ Shaped(Lists!OldestFirst)
  BY TwoColumnsAreShaped DEF Lists!NewestFirst, Lists!OldestFirst
<1>2. \A l \in Lists!Sortable \cup Lists!PlainlySortable : Shaped(l)
  BY TwoColumnsAreShaped DEF Lists!Sortable, Lists!PlainlySortable, Lists!Chosen
<1>3. \A l \in Lists!EventsOfSite : Shaped(l)
  BY TwoColumnsAreShaped DEF Lists!EventsOfSite
<1>4. \A l \in Lists!PublishedPosts : Shaped(l)
  BY <1>2, TwoColumnsAreShaped DEF Lists!PublishedPosts
<1>5. \A l \in Lists!AllSites : l.after = "nothing" \/ Shaped(l)
  <2>1. Lists!Listing(<<Lists!By("id", "ASC", "last")>>, "key", "nothing", FALSE).after = "nothing"
    BY DEF Lists!Listing
  <2>2. QED
    BY <1>2, <2>1, TwoColumnsAreShaped DEF Lists!AllSites
<1>6. QED
  BY <1>1, <1>2, <1>3, <1>4, <1>5

LEMMA OtherFirstAreShaped ==
  ASSUME NEW d, NEW m, NEW n, NEW h \in {"created", "key else created"},
         NEW a, a # "keyset, ids ascending"
  PROVE  /\ Shaped(Lists!Listing(<<Lists!By("other", d, m), Lists!By("created", "DESC", n),
                                  Lists!By("id", "DESC", "last")>>, h, a, TRUE))
         /\ Shaped(Lists!Listing(<<Lists!By("other", d, m), Lists!By("key", "DESC", n),
                                  Lists!By("created", "DESC", "first"),
                                  Lists!By("id", "DESC", "last")>>, h, a, TRUE))
<1>1. ASSUME NEW os, os[1].column = "other", os[Len(os)].dir = "DESC"
      PROVE  Shaped(Lists!Listing(os, h, a, TRUE))
  <2> DEFINE l == Lists!Listing(os, h, a, TRUE)
  <2>1. /\ l.orders = os /\ l.holds = h /\ l.after = a /\ l.isTime = TRUE
        /\ Lists!Dir(l) = os[Len(os)].dir
    BY DEF Lists!Listing, Lists!Dir
  <2> HIDE DEF l
  <2>2. Shaped(l)
    BY <1>1, <2>1 DEF Shaped, OtherFirst
  <2>3. QED
    BY <2>2 DEF l
<1> DEFINE o1 == Lists!By("other", d, m)
           o2 == Lists!By("created", "DESC", n)
           o3 == Lists!By("id", "DESC", "last")
           o4 == Lists!By("key", "DESC", n)
           o5 == Lists!By("created", "DESC", "first")
<1>2. o1.column = "other" /\ o3.dir = "DESC"
  BY DEF Lists!By
<1> HIDE DEF o1, o2, o3, o4, o5
<1>3. Shaped(Lists!Listing(<<o1, o2, o3>>, h, a, TRUE))
  <2> DEFINE os == <<o1, o2, o3>>
  <2>1. os[1].column = "other" /\ os[Len(os)].dir = "DESC"
    BY <1>2
  <2> HIDE DEF os
  <2>2. Shaped(Lists!Listing(os, h, a, TRUE))
    BY <1>1, <2>1
  <2>3. QED
    BY <2>2 DEF os
<1>4. Shaped(Lists!Listing(<<o1, o4, o5, o3>>, h, a, TRUE))
  <2> DEFINE os == <<o1, o4, o5, o3>>
  <2>1. os[1].column = "other" /\ os[Len(os)].dir = "DESC"
    BY <1>2
  <2> HIDE DEF os
  <2>2. Shaped(Lists!Listing(os, h, a, TRUE))
    BY <1>1, <2>1
  <2>3. QED
    BY <2>2 DEF os
<1>5. QED
  BY <1>3, <1>4 DEF o1, o2, o3, o4, o5

LEMMA IdAloneAreShaped ==
  ASSUME NEW c, NEW d \in {"ASC", "DESC"}, NEW n, NEW h, NEW a,
         (h = "created" /\ a = "id") \/ h = "nothing"
  PROVE  Shaped(Lists!Listing(<<Lists!By(c, d, n), Lists!By("id", d, "last")>>, h, a, TRUE))
<1> DEFINE o1 == Lists!By(c, d, n)
           o2 == Lists!By("id", d, "last")
           os == <<o1, o2>>
           l == Lists!Listing(os, h, a, TRUE)
<1>1. o2.dir = d
  BY DEF Lists!By
<1> HIDE DEF o1, o2
<1>2. Len(os) = 2 /\ os[2] = o2
  OBVIOUS
<1> HIDE DEF os
<1>3. /\ l.holds = h /\ l.after = a /\ l.isTime = TRUE
      /\ Lists!Dir(l) = os[Len(os)].dir
  BY DEF Lists!Listing, Lists!Dir
<1> HIDE DEF l
<1>4. Shaped(l)
  BY <1>1, <1>2, <1>3 DEF Shaped, IdAlone
<1>5. QED
  BY <1>4 DEF l, os, o1, o2

LEMMA AllDifferAreShaped ==
  ASSUME NEW c, NEW n, NEW m, NEW d, NEW h, NEW a, NEW t,
         \/ h = "key else created" /\ a = "keyset or null" /\ t = TRUE /\ d = "DESC"
         \/ h = "key" /\ a = "keyset, ids ascending" /\ t = FALSE /\ d = "ASC"
  PROVE  Shaped(Lists!Listing(<<Lists!By("key", "DESC", n), Lists!By(c, "DESC", m),
                                Lists!By("id", d, "last")>>, h, a, t))
<1> DEFINE o1 == Lists!By("key", "DESC", n)
           o2 == Lists!By(c, "DESC", m)
           o3 == Lists!By("id", d, "last")
           os == <<o1, o2, o3>>
           l == Lists!Listing(os, h, a, t)
<1>1. o1.column = "key" /\ o1.dir = "DESC" /\ o3.dir = d
  BY DEF Lists!By
<1> HIDE DEF o1, o2, o3
<1>2. Len(os) = 3 /\ os[3] = o3 /\ os = <<o1, o2, o3>>
  OBVIOUS
<1> HIDE DEF os
<1>3. /\ l.orders = os /\ l.holds = h /\ l.after = a /\ l.isTime = t
      /\ Lists!Dir(l) = os[Len(os)].dir
  BY DEF Lists!Listing, Lists!Dir
<1> HIDE DEF l
<1>4. AllDiffer(l)
  BY <1>1, <1>2, <1>3 DEF AllDiffer
<1>5. Shaped(l)
  BY <1>1, <1>2, <1>3, <1>4 DEF Shaped
<1>6. QED
  BY <1>5 DEF l, os, o1, o2, o3

LEMMA OthersAreShaped ==
  \A l \in Lists!AttendancesOfDays \cup Lists!CommentsOfPost \cup Lists!DeletedSites \cup
           Lists!GifticonsOnSale \cup Lists!PocaEventsOnShow \cup Lists!PocaEventsOfAdmin \cup
           Lists!StatisticsByStreak : Shaped(l)
<1>1. \A l \in Lists!AttendancesOfDays \cup Lists!PocaEventsOnShow \cup Lists!PocaEventsOfAdmin :
        Shaped(l)
  BY OtherFirstAreShaped
     DEF Lists!AttendancesOfDays, Lists!PocaEventsOnShow, Lists!PocaEventsOfAdmin
<1>2. \A l \in Lists!CommentsOfPost \cup Lists!DeletedSites : Shaped(l)
  BY IdAloneAreShaped DEF Lists!CommentsOfPost, Lists!DeletedSites
<1>3. \A l \in Lists!GifticonsOnSale \cup Lists!StatisticsByStreak : Shaped(l)
  BY AllDifferAreShaped DEF Lists!GifticonsOnSale, Lists!StatisticsByStreak
<1>4. QED
  BY <1>1, <1>2, <1>3

LEMMA ListingsAreShaped ==
  ASSUME NEW l \in Lists!Listings, l.after # "nothing"
  PROVE  Shaped(l)
<1>1. \/ l \in {Lists!NewestFirst, Lists!OldestFirst}
      \/ l \in Lists!Sortable \cup Lists!PlainlySortable \cup Lists!EventsOfSite
      \/ l \in Lists!PublishedPosts \/ l \in Lists!AllSites
      \/ l \in Lists!AttendancesOfDays \cup Lists!CommentsOfPost \cup Lists!DeletedSites \cup
               Lists!GifticonsOnSale \cup Lists!PocaEventsOnShow \cup Lists!PocaEventsOfAdmin \cup
               Lists!StatisticsByStreak
  BY DEF Lists!Listings, Lists!ScamReportsOfSite, Lists!ScamReportsOfUser, Lists!AllScamReports,
         Lists!CommentsOfScamReport, Lists!CommentsOfReview, Lists!ReviewsOfSite,
         Lists!AllReviews, Lists!ReviewsOfUser, Lists!SiteRequests, Lists!ApplicationsForSite,
         Lists!ApplicationsOfUser, Lists!AllApplications, Lists!PartnerRequests,
         Lists!PartnerUsers, Lists!RedemptionsOfUser, Lists!AllRedemptions,
         Lists!TransactionsOfUser, Lists!AllTransactions, Lists!ExchangesOfUser,
         Lists!AllExchanges, Lists!GifticonsOfAdmin, Lists!UserBadgeRequests,
         Lists!SiteBadgeRequests, Lists!AllSiteEvents, Lists!PostsOfAdmin, Lists!AllUsers,
         Lists!Inquiries, Lists!AttendancesOfDay, Lists!AttendancesOfUser
<1>2. QED
  BY <1>1, SortableAreShaped, OthersAreShaped

-----------------------------------------------------------------------------
(* What a cursor divides *)

\* A row i of value v follows a cursor of the row j and the value w.
Follows(l, v, i, w, j) ==
  IF IdAlone(l) THEN Lists!Beyond(Lists!Dir(l), i, j)
  ELSE IF l.after = "keyset, ids ascending" THEN v < w \/ (v = w /\ i > j)
  ELSE Lists!Beyond(Lists!Dir(l), v, w) \/ (v = w /\ Lists!Beyond(Lists!Dir(l), i, j))

TableOf(l, table) == table \in [Ids -> Lists!Rows(l) \cup {Lists!Absent}]

\* Milliseconds are cut off downwards, and times of different milliseconds stay apart.
LEMMA CutOff ==
  ASSUME NEW l, NEW v \in Nat, NEW w \in Nat, Null \notin Nat
  PROVE  /\ Lists!Cut(l, v) \in Nat /\ Lists!Cut(l, v) <= v
         /\ ~l.isTime \/ v % 2 = 0 => Lists!Cut(l, v) = v
         /\ l.isTime => Lists!Cut(l, Lists!Cut(l, v)) = Lists!Cut(l, v)
         /\ v < w /\ Lists!Cut(l, v) # Lists!Cut(l, w) => v < Lists!Cut(l, w)
<1>1. /\ v % 2 \in {0, 1} /\ w % 2 \in {0, 1}
      /\ v % 2 <= v /\ w % 2 <= w
      /\ (v - (v % 2)) % 2 = 0
      /\ v < w /\ v - (v % 2) # w - (w % 2) => v < w - (w % 2)
  OBVIOUS
<1>2. /\ Lists!Cut(l, v) = IF l.isTime THEN v - (v % 2) ELSE v
      /\ Lists!Cut(l, w) = IF l.isTime THEN w - (w % 2) ELSE w
  BY Zenon DEF Lists!Cut
<1>3. v - (v % 2) \in Nat
  BY <1>1
<1>4. l.isTime => Lists!Cut(l, v - (v % 2)) = v - (v % 2)
  BY <1>1, <1>3 DEF Lists!Cut
<1>5. QED
  BY <1>1, <1>2, <1>3, <1>4

LEMMA HeldIsNumber ==
  ASSUME NEW l, NEW table, TableOf(l, table), Lists!Reliable(l, table),
         NEW i \in Lists!Present(table)
  PROVE  Lists!Held(l, table, i) \in Nat /\ i \in Nat
<1>1. i \in Ids /\ table[i] \in Lists!Rows(l) /\ Lists!Held(l, table, i) # Null
  BY DEF TableOf, Lists!Present, Lists!Reliable
<1>2. Ids \subseteq Nat /\ Values \subseteq Nat
  BY Assumptions DEF Lists!Numbers
<1>3. /\ table[i].key \in Nat \cup {Null}
      /\ table[i].created \in Nat
  <2>1. \A r \in Lists!Rows(l) :
           r.key \in Values \cup {0, Null} /\ r.created \in Values \cup {0}
    BY DEF Lists!Rows
  <2>2. /\ table[i].key \in Values \cup {0, Null}
        /\ table[i].created \in Values \cup {0}
    BY Zenon, <1>1, <2>1
  <2>3. 0 \in Nat
    OBVIOUS
  <2>4. QED
    BY Zenon, <1>2, <2>2, <2>3
<1>4. Lists!Held(l, table, i) = IF l.holds = "created" THEN table[i].created ELSE table[i].key
  BY Zenon DEF Lists!Held
<1>5. Lists!Held(l, table, i) \in Nat
  BY <1>1, <1>3, <1>4
<1>6. QED
  BY <1>1, <1>2, <1>5

\* The next page is the rows that follow the cursor.
LEMMA AfterIsFollowing ==
  ASSUME NEW l, NEW table, Shaped(l), l.after # "nothing",
         TableOf(l, table), Lists!Reliable(l, table), NEW i \in Lists!Present(table),
         NEW c, c.at = "row",
         IF l.holds = "nothing" THEN c.value = Null ELSE c.value \in Nat
  PROVE  Lists!After(l, c, table, i) <=>
           Follows(l, Lists!Held(l, table, i), i, c.value, c.id)
<1> DEFINE v == Lists!Held(l, table, i)
<1>1. c # Lists!Start
  BY DEF Lists!Start
<1>2. v \in Nat /\ v # Null /\ Null \notin Nat
  BY HeldIsNumber, Assumptions DEF Lists!NullIsNoNumber
<1>3. CASE IdAlone(l)
  <2>1. l.after = "id" \/ c.value = Null
    BY <1>3 DEF IdAlone
  <2>2. Lists!After(l, c, table, i) <=> Lists!Beyond(Lists!Dir(l), i, c.id)
    BY <1>1, <2>1 DEF Lists!After
  <2>3. QED
    BY <1>3, <2>2 DEF Follows
<1>4. CASE ~IdAlone(l)
  <2>1. l.after # "id" /\ c.value # Null /\ c.value \in Nat
    BY <1>2, <1>4 DEF IdAlone
  <2>2. (IF l.holds = "created" THEN table[i].created ELSE table[i].key) = v
    BY DEF Lists!Held
  <2>3. Lists!After(l, c, table, i) <=>
          \/ /\ l.after = "keyset, ids ascending"
             /\ v <= c.value
             /\ v = c.value => i > c.id
          \/ l.after # "keyset, ids ascending" /\ Lists!Keyset(l, c, i, v, Lists!Dir(l))
    BY <1>1, <1>2, <2>1, <2>2 DEF Lists!After
  <2> HIDE DEF v
  <2>4. CASE l.after = "keyset, ids ascending"
    <3>1. Follows(l, v, i, c.value, c.id) <=> v < c.value \/ (v = c.value /\ i > c.id)
      BY <1>4, <2>4 DEF Follows
    <3>2. v <= c.value <=> v < c.value \/ v = c.value
      BY <1>2, <2>1
    <3>3. Lists!After(l, c, table, i) <=> v <= c.value /\ (v = c.value => i > c.id)
      BY <2>3, <2>4
    <3>4. v < c.value => v # c.value
      BY <1>2, <2>1
    <3>5. Lists!After(l, c, table, i) <=> Follows(l, v, i, c.value, c.id)
      BY <3>1, <3>2, <3>3, <3>4
    <3>6. QED
      BY <3>5 DEF v
  <2>5. CASE l.after # "keyset, ids ascending"
    <3>1. Follows(l, v, i, c.value, c.id) <=>
            \/ Lists!Beyond(Lists!Dir(l), v, c.value)
            \/ v = c.value /\ Lists!Beyond(Lists!Dir(l), i, c.id)
      BY <1>4, <2>5 DEF Follows
    <3>2. QED
      BY <1>2, <2>3, <2>5, <3>1 DEF Lists!Keyset, v
  <2>6. QED
    BY <2>4, <2>5
<1>5. QED
  BY <1>3, <1>4

LEMMA CursorHolds ==
  ASSUME NEW l, NEW table, Shaped(l), TableOf(l, table), Lists!Reliable(l, table),
         NEW j \in Lists!Present(table)
  PROVE  LET c == Lists!CursorOf(l, table, j) IN
           /\ c.at = "row" /\ c.id = j
           /\ IF l.holds = "nothing" THEN c.value = Null
              ELSE c.value = Lists!Cut(l, Lists!Held(l, table, j)) /\ c.value \in Nat
<1> DEFINE c == Lists!CursorOf(l, table, j)
           v == Lists!Held(l, table, j)
<1>1. c.at = "row" /\ c.id = j
  BY DEF Lists!CursorOf
<1>2. v \in Nat /\ v # Null /\ Lists!Cut(l, v) \in Nat
  BY HeldIsNumber, CutOff, Assumptions DEF Lists!NullIsNoNumber
<1>3. CASE l.holds = "nothing"
  BY <1>1, <1>3 DEF Lists!CursorOf
<1>4. CASE l.holds = "created"
  BY <1>1, <1>2, <1>4 DEF Lists!CursorOf, Lists!Held
<1>5. CASE l.holds \in {"key", "key else created"}
  <2>1. v = table[j].key
    BY <1>5 DEF Lists!Held
  <2>2. c.value = Lists!Cut(l, table[j].key)
    BY <1>2, <1>5, <2>1 DEF Lists!CursorOf
  <2>3. QED
    BY <1>1, <1>2, <1>5, <2>1, <2>2
<1>6. QED
  BY <1>3, <1>4, <1>5 DEF Shaped

\* What follows a pair of a value and an id: of greater or lesser ids, in one of three orders.
LEMMA FollowsSays ==
  ASSUME NEW l, Shaped(l)
  PROVE  \/ IdAlone(l) /\ \A v, i, w, j : Follows(l, v, i, w, j) <=> i > j
         \/ IdAlone(l) /\ \A v, i, w, j : Follows(l, v, i, w, j) <=> i < j
         \/ /\ ~IdAlone(l) /\ Lists!Dir(l) = "ASC"
            /\ \A v, i, w, j : Follows(l, v, i, w, j) <=> v > w \/ (v = w /\ i > j)
         \/ /\ ~IdAlone(l)
            /\ \A v, i, w, j : Follows(l, v, i, w, j) <=> v < w \/ (v = w /\ i < j)
         \/ /\ ~IdAlone(l)
            /\ \A v, i, w, j : Follows(l, v, i, w, j) <=> v < w \/ (v = w /\ i > j)
<1>1. \A v, w : /\ Lists!Beyond("ASC", v, w) <=> v > w
                /\ Lists!Beyond("DESC", v, w) <=> v < w
  BY DEF Lists!Beyond
<1>2. CASE IdAlone(l)
  <2>1. \A v, i, w, j : Follows(l, v, i, w, j) <=> Lists!Beyond(Lists!Dir(l), i, j)
    BY <1>2 DEF Follows
  <2>2. CASE Lists!Dir(l) = "ASC"
    <3>1. \A v, i, w, j : Follows(l, v, i, w, j) <=> i > j
      BY <1>1, <2>1, <2>2
    <3>2. QED
      BY <1>2, <3>1
  <2>3. CASE Lists!Dir(l) = "DESC"
    <3>1. \A v, i, w, j : Follows(l, v, i, w, j) <=> i < j
      BY <1>1, <2>1, <2>3
    <3>2. QED
      BY <1>2, <3>1
  <2>4. QED
    BY <2>2, <2>3 DEF Shaped
<1>3. CASE ~IdAlone(l) /\ l.after = "keyset, ids ascending"
  <2>1. \A v, i, w, j : Follows(l, v, i, w, j) <=> v < w \/ (v = w /\ i > j)
    BY <1>3 DEF Follows
  <2>2. QED
    BY <1>3, <2>1
<1>4. CASE ~IdAlone(l) /\ l.after # "keyset, ids ascending"
  <2>1. \A v, i, w, j : Follows(l, v, i, w, j) <=>
          Lists!Beyond(Lists!Dir(l), v, w) \/ (v = w /\ Lists!Beyond(Lists!Dir(l), i, j))
    BY <1>4 DEF Follows
  <2>2. CASE Lists!Dir(l) = "ASC"
    <3>1. \A v, i, w, j : Follows(l, v, i, w, j) <=> v > w \/ (v = w /\ i > j)
      BY <1>1, <2>1, <2>2
    <3>2. QED
      BY <1>4, <2>2, <3>1
  <2>3. CASE Lists!Dir(l) = "DESC"
    <3>1. \A v, i, w, j : Follows(l, v, i, w, j) <=> v < w \/ (v = w /\ i < j)
      BY <1>1, <2>1, <2>3
    <3>2. QED
      BY <1>4, <3>1
  <2>4. QED
    BY <2>2, <2>3 DEF Shaped
<1>5. QED
  BY <1>2, <1>3, <1>4

\* A row follows no cursor made of it, and what does not follow the cursor of a page
\* does not follow the cursor of the next page.
LEMMA FollowingIsAnOrder ==
  ASSUME NEW l, Shaped(l), Null \notin Nat, NEW v \in Nat, NEW i \in Nat,
         NEW u \in Nat, NEW j \in Nat,
         l.isTime /\ Lists!Dir(l) = "ASC" => u % 2 = 0
  PROVE  /\ ~Follows(l, u, j, Lists!Cut(l, u), j)
         /\ \A k \in Nat : \A w :
              /\ IdAlone(l) \/ w \in Nat
              /\ Follows(l, u, j, w, k)
              /\ ~Follows(l, v, i, w, k)
              => ~Follows(l, v, i, Lists!Cut(l, u), j)
<1>1. PICK x \in Nat : x = Lists!Cut(l, u) /\ x <= u /\ (Lists!Dir(l) = "ASC" => x = u)
  BY CutOff DEF Shaped
<1>2. ~Follows(l, u, j, x, j)
  BY <1>1, FollowsSays
<1>3. ASSUME NEW k \in Nat, NEW w, IdAlone(l) \/ w \in Nat,
             Follows(l, u, j, w, k), ~Follows(l, v, i, w, k)
      PROVE  ~Follows(l, v, i, x, j)
  BY <1>1, <1>3, FollowsSays
<1>4. QED
  BY <1>1, <1>2, <1>3

\* Two numbers in the order of a column, and in that of two columns.
LEMMA BeforeSays ==
  ASSUME NEW o, NEW v \in Nat, NEW w \in Nat, Null \notin Nat
  PROVE  Lists!Before(o, v, w) <=> Lists!Beyond(o.dir, w, v)
<1>1. v # Null /\ w # Null
  OBVIOUS
<1>2. QED
  BY <1>1 DEF Lists!Before

LEMMA FirstColumnDecides ==
  ASSUME NEW l, NEW table, NEW i, NEW j, 1 \in DOMAIN l.orders, DOMAIN l.orders \subseteq Nat \ {0},
         Lists!Column(table, i, l.orders[1].column) # Lists!Column(table, j, l.orders[1].column)
  PROVE  Lists!Precedes(l, table, i, j) <=>
           Lists!Before(l.orders[1], Lists!Column(table, i, l.orders[1].column),
                                     Lists!Column(table, j, l.orders[1].column))
<1> DEFINE Col(x, k) == Lists!Column(table, x, l.orders[k].column)
<1>1. Lists!Precedes(l, table, i, j) <=>
        \E k \in DOMAIN l.orders :
          /\ Lists!Before(l.orders[k], Col(i, k), Col(j, k))
          /\ \A m \in 1..(k - 1) : Col(i, m) = Col(j, m)
  BY DEF Lists!Precedes
<1>2. Col(i, 1) # Col(j, 1)
  OBVIOUS
<1> HIDE DEF Col
<1>3. \A k \in DOMAIN l.orders : (\A m \in 1..(k - 1) : Col(i, m) = Col(j, m)) => k = 1
  <2>1. \A k \in DOMAIN l.orders : k # 1 => 1 \in 1..(k - 1)
    OBVIOUS
  <2>2. QED
    BY <1>2, <2>1
<1>4. \A m \in 1..(1 - 1) : Col(i, m) = Col(j, m)
  OBVIOUS
<1>5. Lists!Precedes(l, table, i, j) <=> Lists!Before(l.orders[1], Col(i, 1), Col(j, 1))
  BY <1>1, <1>3, <1>4
<1>6. QED
  BY <1>5 DEF Col

LEMMA SecondColumnDecides ==
  ASSUME NEW l, NEW table, NEW i, NEW j, NEW o1, NEW o2, l.orders = <<o1, o2>>,
         Lists!Column(table, i, o1.column) = Lists!Column(table, j, o1.column),
         ~Lists!Before(o1, Lists!Column(table, i, o1.column), Lists!Column(table, j, o1.column))
  PROVE  Lists!Precedes(l, table, i, j) <=>
           Lists!Before(o2, Lists!Column(table, i, o2.column), Lists!Column(table, j, o2.column))
<1> DEFINE Col(x, k) == Lists!Column(table, x, l.orders[k].column)
<1>1. Lists!Precedes(l, table, i, j) <=>
        \E k \in DOMAIN l.orders :
          /\ Lists!Before(l.orders[k], Col(i, k), Col(j, k))
          /\ \A m \in 1..(k - 1) : Col(i, m) = Col(j, m)
  BY DEF Lists!Precedes
<1>2. DOMAIN l.orders = {1, 2} /\ l.orders[1] = o1 /\ l.orders[2] = o2
  OBVIOUS
<1>3. Col(i, 1) = Col(j, 1) /\ ~Lists!Before(l.orders[1], Col(i, 1), Col(j, 1))
  BY <1>2
<1> HIDE DEF Col
<1>4. \A m \in 1..(2 - 1) : Col(i, m) = Col(j, m)
  BY <1>3
<1>5. Lists!Precedes(l, table, i, j) <=> Lists!Before(l.orders[2], Col(i, 2), Col(j, 2))
  BY <1>1, <1>2, <1>3, <1>4
<1>6. QED
  BY <1>2, <1>5 DEF Col

LEMMA ColumnIsHeld ==
  ASSUME NEW l, NEW table, NEW i, NEW c \in {"created", "key"},
         c = l.holds \/ (c = "key" /\ l.holds # "created")
  PROVE  Lists!Column(table, i, c) = Lists!Held(l, table, i)
BY DEF Lists!Column, Lists!Held

\* Of a table that tells its rows apart, what a row precedes is what follows its cursor.
LEMMA PrecedesIsFollowing ==
  ASSUME NEW l, NEW table, Shaped(l), l.after # "nothing",
         TableOf(l, table), Lists!Reliable(l, table),
         NEW i \in Lists!Present(table), NEW j \in Lists!Present(table), i # j
  PROVE  Lists!Precedes(l, table, i, j) <=>
           Follows(l, Lists!Held(l, table, j), j, Lists!Cut(l, Lists!Held(l, table, i)), i)
<1>1. PICK v, w :
        /\ v = Lists!Held(l, table, i) /\ w = Lists!Held(l, table, j)
        /\ v \in Nat /\ w \in Nat /\ i \in Nat /\ j \in Nat
  BY HeldIsNumber
<1>2. Null \notin Nat
  BY Assumptions DEF Lists!NullIsNoNumber
<1>3. PICK x :
        /\ x = Lists!Cut(l, v) /\ x \in Nat /\ x <= v
        /\ ~l.isTime \/ v % 2 = 0 => x = v
  BY <1>1, <1>2, CutOff
\* What Reliable says of the two rows.
<1>4. /\ l.isTime /\ Lists!Dir(l) = "ASC" => v % 2 = 0
      /\ l.isTime /\ v # w => Lists!Cut(l, v) # Lists!Cut(l, w)
      /\ l.isTime /\ v = w => v % 2 = 0
      /\ IdAlone(l) => (Lists!Precedes(l, table, i, j) <=> Lists!Beyond(Lists!Dir(l), j, i))
      /\ l.orders[1].column = "other" =>
           (Lists!Precedes(l, table, i, j) <=> Lists!Beyond("DESC", w, v) \/ (v = w /\ j < i))
      /\ l.after \in {"keyset, ids ascending", "keyset or null"} => v # w
  BY <1>1 DEF Lists!Reliable, IdAlone
\* The milliseconds that are cut off change nothing.
<1>5. /\ v = w => x = v
      /\ w < x <=> w < v
      /\ w = x => v = w
      /\ Lists!Dir(l) = "ASC" => x = v
  <2>1. v = w => x = v
    BY <1>3, <1>4 DEF Shaped
  <2>2. Lists!Dir(l) = "ASC" => x = v
    BY <1>3, <1>4 DEF Shaped
  <2>3. w < v => w < x
    <3>1. CASE l.isTime
      BY <1>1, <1>2, <1>3, <1>4, <3>1, CutOff
    <3>2. CASE ~l.isTime
      BY <1>3, <3>2
    <3>3. QED
      BY <3>1, <3>2
  <2>4. w < x => w < v
    BY <1>1, <1>3
  <2>5. w = x => v = w
    BY <1>1, <1>3, <2>3
  <2>6. QED
    BY <2>1, <2>2, <2>3, <2>4, <2>5
<1>6. SUFFICES Lists!Precedes(l, table, i, j) <=> Follows(l, w, j, x, i)
  BY <1>1, <1>3
<1>7. CASE IdAlone(l)
  BY <1>4, <1>7 DEF Follows
<1>8. CASE ~IdAlone(l) /\ OtherFirst(l)
  <2>1. Lists!Precedes(l, table, i, j) <=> w < v \/ (v = w /\ j < i)
    BY <1>4, <1>8 DEF OtherFirst, Lists!Beyond
  <2>2. Follows(l, w, j, x, i) <=> w < x \/ (w = x /\ j < i)
    BY <1>8 DEF OtherFirst, Follows, Lists!Beyond
  <2>3. QED
    BY <1>5, <2>1, <2>2
<1>9. CASE ~IdAlone(l) /\ TwoColumns(l)
  <2>1. PICK o1, o2 :
          /\ l.orders = <<o1, o2>>
          /\ o1.column = l.holds /\ o2.column = "id"
          /\ o1.dir = Lists!Dir(l) /\ o2.dir = Lists!Dir(l)
    BY <1>9 DEF TwoColumns
  <2>2. /\ Lists!Column(table, i, o1.column) = v /\ Lists!Column(table, j, o1.column) = w
        /\ Lists!Column(table, i, o2.column) = i /\ Lists!Column(table, j, o2.column) = j
    <3>1. o1.column \in {"created", "key"}
      BY <1>9, <2>1 DEF TwoColumns
    <3>2. QED
      BY <1>1, <2>1, <3>1, ColumnIsHeld DEF Lists!Column
  <2>3. /\ Lists!Before(o1, v, w) <=> Lists!Beyond(Lists!Dir(l), w, v)
        /\ Lists!Before(o2, i, j) <=> Lists!Beyond(Lists!Dir(l), j, i)
    BY <1>1, <1>2, <2>1, BeforeSays
  <2>4. Follows(l, w, j, x, i) <=>
          Lists!Beyond(Lists!Dir(l), w, x) \/ (w = x /\ Lists!Beyond(Lists!Dir(l), j, i))
    BY <1>9 DEF TwoColumns, Follows
  <2>5. Lists!Beyond(Lists!Dir(l), w, x) <=> Lists!Beyond(Lists!Dir(l), w, v)
    BY <1>5 DEF Lists!Beyond
  <2>6. CASE v # w
    <3>1. l.orders[1] = o1 /\ DOMAIN l.orders = {1, 2}
      BY <2>1
    <3>2. Lists!Precedes(l, table, i, j) <=> Lists!Before(o1, v, w)
      BY <2>2, <2>6, <3>1, FirstColumnDecides
    <3>3. QED
      BY <1>5, <2>3, <2>4, <2>5, <2>6, <3>2
  <2>7. CASE v = w
    <3>1. ~Lists!Before(o1, v, w) /\ ~Lists!Beyond(Lists!Dir(l), w, v)
      BY <1>1, <2>3, <2>7 DEF Lists!Beyond
    <3>2. Lists!Precedes(l, table, i, j) <=> Lists!Before(o2, i, j)
      BY <2>1, <2>2, <2>7, <3>1, SecondColumnDecides
    <3>3. QED
      BY <1>5, <2>3, <2>4, <2>5, <2>7, <3>1, <3>2
  <2>8. QED
    BY <2>6, <2>7
<1>10. CASE ~IdAlone(l) /\ AllDiffer(l)
  <2>1. PICK o1, o2, o3 :
          l.orders = <<o1, o2, o3>> /\ o1.column = "key" /\ o1.dir = "DESC"
    BY <1>10 DEF AllDiffer
  <2>2. l.orders[1] = o1 /\ DOMAIN l.orders = {1, 2, 3}
    BY <2>1
  <2>3. Lists!Column(table, i, o1.column) = v /\ Lists!Column(table, j, o1.column) = w
    BY <1>1, <1>10, <2>1, ColumnIsHeld DEF AllDiffer
  <2>4. v # w
    BY <1>4, <1>10 DEF AllDiffer
  <2>5. Lists!Precedes(l, table, i, j) <=> Lists!Before(o1, v, w)
    BY <2>2, <2>3, <2>4, FirstColumnDecides
  <2>6. Lists!Before(o1, v, w) <=> w < v
    BY <1>1, <1>2, <2>1, BeforeSays DEF Lists!Beyond
  <2>7. w # x
    BY <1>5, <2>4
  <2>8. Follows(l, w, j, x, i) <=> w < x
    <3>1. CASE l.after = "keyset, ids ascending"
      BY <1>10, <2>7, <3>1 DEF Follows
    <3>2. CASE l.after # "keyset, ids ascending"
      BY <1>10, <2>7, <3>2 DEF AllDiffer, Follows, Lists!Beyond
    <3>3. QED
      BY <3>1, <3>2
  <2>9. QED
    BY <1>5, <2>5, <2>6, <2>8
<1>11. QED
  BY <1>7, <1>8, <1>9, <1>10 DEF Shaped

LEMMA NextCursorDivides ==
  ASSUME NEW l, NEW table, Shaped(l), TableOf(l, table), Lists!Reliable(l, table),
         NEW i \in Lists!Present(table), NEW last \in Lists!Present(table)
  PROVE  LET next == Lists!CursorOf(l, table, last) IN
           /\ i = last \/ Lists!Precedes(l, table, i, last) => ~Lists!After(l, next, table, i)
           /\ i # last /\ Lists!Precedes(l, table, last, i) => Lists!After(l, next, table, i)
           /\ \A c :
                /\ c.at = "row" /\ c.id \in Nat
                /\ IF l.holds = "nothing" THEN c.value = Null ELSE c.value \in Nat
                /\ Lists!After(l, c, table, last) /\ ~Lists!After(l, c, table, i)
                => ~Lists!After(l, next, table, i)
<1> DEFINE next == Lists!CursorOf(l, table, last)
           held(k) == Lists!Held(l, table, k)
           x(k) == Lists!Cut(l, held(k))
<1>1. l.after # "nothing" /\ Null \notin Nat
  BY Assumptions DEF Lists!Reliable, Lists!NullIsNoNumber
<1>2. held(i) \in Nat /\ held(last) \in Nat /\ i \in Nat /\ last \in Nat
  BY HeldIsNumber
<1>3. l.isTime /\ Lists!Dir(l) = "ASC" => held(i) % 2 = 0 /\ held(last) % 2 = 0
  BY DEF Lists!Reliable
<1>4. x(i) \in Nat /\ x(last) \in Nat
  BY <1>1, <1>2, CutOff
<1>5. Lists!After(l, next, table, i) <=> Follows(l, held(i), i, x(last), last)
  <2>1. /\ next.at = "row" /\ next.id = last
        /\ IF l.holds = "nothing" THEN next.value = Null
           ELSE next.value = x(last) /\ next.value \in Nat
    BY CursorHolds
  <2>2. Lists!After(l, next, table, i) <=> Follows(l, held(i), i, next.value, next.id)
    BY <1>1, <2>1, AfterIsFollowing
  <2>3. l.holds = "nothing" =>
          (Follows(l, held(i), i, next.value, last) <=> Follows(l, held(i), i, x(last), last))
    BY DEF Follows, IdAlone
  <2>4. QED
    BY <2>1, <2>2, <2>3
<1>6. ~Follows(l, held(last), last, x(last), last) /\ ~Follows(l, held(i), i, x(i), i)
  BY <1>1, <1>2, <1>3, FollowingIsAnOrder
<1>7. ASSUME NEW k \in Nat, NEW w, IdAlone(l) \/ w \in Nat,
             Follows(l, held(last), last, w, k), ~Follows(l, held(i), i, w, k)
      PROVE  ~Follows(l, held(i), i, x(last), last)
  BY <1>1, <1>2, <1>3, <1>7, FollowingIsAnOrder
<1>8. ASSUME i = last \/ Lists!Precedes(l, table, i, last)
      PROVE  ~Lists!After(l, next, table, i)
  <2>1. CASE i = last
    BY <1>5, <1>6, <2>1
  <2>2. CASE i # last
    <3>1. Follows(l, held(last), last, x(i), i)
      BY <1>1, <1>8, <2>2, PrecedesIsFollowing
    <3>2. QED
      BY <1>2, <1>4, <1>5, <1>6, <1>7, <3>1
  <2>3. QED
    BY <2>1, <2>2
<1>9. ASSUME i # last, Lists!Precedes(l, table, last, i)
      PROVE  Lists!After(l, next, table, i)
  BY <1>1, <1>5, <1>9, PrecedesIsFollowing
<1>10. ASSUME NEW c, c.at = "row", c.id \in Nat,
              IF l.holds = "nothing" THEN c.value = Null ELSE c.value \in Nat,
              Lists!After(l, c, table, last), ~Lists!After(l, c, table, i)
       PROVE  ~Lists!After(l, next, table, i)
  <2>1. /\ Follows(l, held(last), last, c.value, c.id)
        /\ ~Follows(l, held(i), i, c.value, c.id)
    BY <1>1, <1>10, AfterIsFollowing
  <2>2. IdAlone(l) \/ c.value \in Nat
    BY <1>10 DEF IdAlone
  <2>3. QED
    BY <1>5, <1>7, <1>10, <2>1, <2>2
<1>11. QED
  BY <1>8, <1>9, <1>10

-----------------------------------------------------------------------------
(* Reading and editing *)

LEMMA PageAdded ==
  ASSUME pages \in Seq(SUBSET Ids), NEW page \in SUBSET Ids, pages' = Append(pages, page),
         NEW i
  PROVE  /\ pages' \in Seq(SUBSET Ids)
         /\ i \in page /\ Lists!Unread(i) => Lists!ReadOnce(i)'
         /\ i \notin page /\ Lists!Unread(i) => Lists!Unread(i)'
         /\ i \notin page /\ Lists!ReadOnce(i) => Lists!ReadOnce(i)'
<1> DEFINE n == Len(pages)
<1>1. /\ n \in Nat /\ DOMAIN pages = 1..n /\ DOMAIN pages' = 1..(n + 1)
      /\ pages'[n + 1] = page /\ \A p \in 1..n : pages'[p] = pages[p]
      /\ pages' \in Seq(SUBSET Ids)
  OBVIOUS
<1> HIDE DEF n
<1>2. 1..(n + 1) = 1..n \cup {n + 1} /\ n + 1 \notin 1..n
  BY <1>1
<1>3. i \in page /\ Lists!Unread(i) => Lists!ReadOnce(i)'
  BY <1>1, <1>2 DEF Lists!Unread, Lists!ReadOnce
<1>4. i \notin page /\ Lists!Unread(i) => Lists!Unread(i)'
  BY <1>1, <1>2 DEF Lists!Unread
<1>5. ASSUME i \notin page, Lists!ReadOnce(i)
      PROVE  Lists!ReadOnce(i)'
  <2>1. PICK p \in 1..n : i \in pages[p] /\ \A q \in 1..n : i \in pages[q] => q = p
    BY <1>1, <1>5 DEF Lists!ReadOnce
  <2>2. QED
    BY <1>1, <1>2, <1>5, <2>1 DEF Lists!ReadOnce
<1>6. QED
  BY <1>1, <1>3, <1>4, <1>5

LEMMA PageRead ==
  ASSUME Lists!ListInv, reliable, NEW limit, Lists!ReadPage(limit)
  PROVE  Lists!ListInv'
<1> DEFINE rows == {i \in Lists!Present(row) : Lists!After(listing, cursor, row, i)}
<1>1. PICK page \in SUBSET rows :
        /\ \A i \in page, j \in rows \ page : Lists!Precedes(listing, row, i, j)
        /\ \/ page = rows /\ cursor' = Lists!End
           \/ \E last \in page :
                /\ \A i \in page \ {last} : Lists!Precedes(listing, row, i, last)
                /\ cursor' = Lists!CursorOf(listing, row, last)
        /\ pages' = Append(pages, page)
  BY DEF Lists!ReadPage
<1>2. /\ cursor # Lists!End
      /\ listing' = listing /\ row' = row /\ touched' = touched /\ reliable' = reliable
  BY DEF Lists!ReadPage
<1>3. /\ listing \in Lists!Listings /\ TableOf(listing, row) /\ pages \in Seq(SUBSET Ids)
      /\ Lists!Reliable(listing, row) /\ Lists!CursorIsReal /\ Lists!PagesStand
      /\ listing.after # "nothing"
  BY DEF Lists!ListInv, TableOf, Lists!Reliable
<1>4. Shaped(listing)
  BY <1>3, ListingsAreShaped
<1>5. page \in SUBSET Ids
  BY DEF Lists!Present
<1> DEFINE Left == Lists!Present(row) \ touched
<1>6. \A i \in Left : IF i \in rows THEN Lists!Unread(i) ELSE Lists!ReadOnce(i)
  BY <1>2, <1>3 DEF Lists!PagesStand
<1> SUFFICES Lists!CursorIsReal' /\ Lists!PagesStand'
  BY <1>1, <1>2, <1>3, <1>5, PageAdded DEF Lists!ListInv, TableOf
<1>7. CASE page = rows /\ cursor' = Lists!End
  <2>1. \A i \in Left : Lists!ReadOnce(i)'
    BY <1>1, <1>3, <1>5, <1>6, <1>7, PageAdded
  <2>2. Lists!PagesStand'
    BY <1>2, <1>7, <2>1 DEF Lists!PagesStand
  <2>3. QED
    BY <1>7, <2>2 DEF Lists!CursorIsReal
<1>8. ASSUME NEW last \in page,
             \A i \in page \ {last} : Lists!Precedes(listing, row, i, last),
             cursor' = Lists!CursorOf(listing, row, last)
      PROVE  Lists!CursorIsReal' /\ Lists!PagesStand'
  <2>1. last \in Lists!Present(row) /\ Lists!After(listing, cursor, row, last)
    OBVIOUS
  <2>2. /\ cursor'.at = "row" /\ cursor'.id = last
        /\ IF listing.holds = "nothing" THEN cursor'.value = Null ELSE cursor'.value \in Nat
    BY <1>3, <1>4, <1>8, <2>1, CursorHolds
  <2>3. cursor' # Lists!End
    BY <2>2 DEF Lists!End
  <2>4. Lists!CursorIsReal'
    BY <1>2, <2>1, <2>2 DEF Lists!CursorIsReal, Lists!Present
  <2>5. ASSUME NEW i \in Left
        PROVE  IF Lists!After(listing, cursor', row, i) THEN Lists!Unread(i)'
               ELSE Lists!ReadOnce(i)'
    <3>1. CASE i \in page
      <4>1. ~Lists!After(listing, cursor', row, i)
        BY <1>3, <1>4, <1>8, <2>1, <3>1, NextCursorDivides
      <4>2. Lists!ReadOnce(i)'
        BY <1>1, <1>3, <1>5, <1>6, <3>1, PageAdded
      <4>3. QED
        BY <4>1, <4>2
    <3>2. CASE i \in rows \ page
      <4>1. Lists!After(listing, cursor', row, i)
        BY <1>1, <1>3, <1>4, <1>8, <2>1, <3>2, NextCursorDivides
      <4>2. Lists!Unread(i)'
        BY <1>1, <1>3, <1>5, <1>6, <3>2, PageAdded
      <4>3. QED
        BY <4>1, <4>2
    <3>3. CASE i \notin rows
      <4>1. ~Lists!After(listing, cursor, row, i)
        BY <3>3
      <4>2. cursor # Lists!Start
        BY <4>1 DEF Lists!After
      <4>3. /\ cursor.at = "row" /\ cursor.id \in Nat
            /\ IF listing.holds = "nothing" THEN cursor.value = Null ELSE cursor.value \in Nat
        BY <1>2, <1>3, <4>2, Assumptions DEF Lists!CursorIsReal, Lists!Numbers
      <4>4. ~Lists!After(listing, cursor', row, i)
        BY <1>3, <1>4, <1>8, <2>1, <4>1, <4>3, NextCursorDivides
      <4>5. Lists!ReadOnce(i)'
        BY <1>1, <1>3, <1>5, <1>6, <3>3, PageAdded
      <4>6. QED
        BY <4>4, <4>5
    <3>4. QED
      BY <3>1, <3>2, <3>3
  <2>6. Lists!PagesStand'
    BY <1>2, <2>3, <2>5 DEF Lists!PagesStand
  <2>7. QED
    BY <2>4, <2>6
<1>9. QED
  BY <1>1, <1>7, <1>8

\* A change of another row moves no row that is left as it is, nor the cursor.
LEMMA RowEdited ==
  ASSUME Lists!ListInv, reliable, NEW e \in Ids, Lists!Edit(e)
  PROVE  Lists!ListInv'
<1>1. PICK r \in Lists!Rows(listing) \cup {Lists!Absent} : row' = [row EXCEPT ![e] = r]
  BY DEF Lists!Edit
<1>2. /\ listing' = listing /\ cursor' = cursor /\ pages' = pages
      /\ touched' = touched \cup {e}
  BY DEF Lists!Edit
<1>3. reliable' => Lists!Reliable(listing, row')
  BY Zenon DEF Lists!Edit
<1>4. /\ listing \in Lists!Listings /\ row \in [Ids -> Lists!Rows(listing) \cup {Lists!Absent}]
      /\ pages \in Seq(SUBSET Ids) /\ Lists!CursorIsReal /\ Lists!PagesStand
  BY DEF Lists!ListInv
<1>5. row' \in [Ids -> Lists!Rows(listing) \cup {Lists!Absent}]
  BY <1>1, <1>4
<1>6. Lists!CursorIsReal'
  BY <1>2, <1>4 DEF Lists!CursorIsReal
<1>7. Lists!PagesStand'
  <2>1. SUFFICES ASSUME NEW i \in Lists!Present(row') \ touched'
                 PROVE  IF cursor # Lists!End /\ Lists!After(listing, cursor, row', i)
                        THEN Lists!Unread(i)' ELSE Lists!ReadOnce(i)'
    BY <1>2 DEF Lists!PagesStand
  <2>2. i \in Ids /\ i # e /\ row'[i] = row[i]
    BY <1>1, <1>2, <1>4, <2>1 DEF Lists!Present
  <2>3. i \in Lists!Present(row) \ touched
    BY <1>2, <2>1, <2>2 DEF Lists!Present
  <2>4. Lists!After(listing, cursor, row', i) <=> Lists!After(listing, cursor, row, i)
    BY <2>2 DEF Lists!After
  <2>5. (Lists!Unread(i)' <=> Lists!Unread(i)) /\ (Lists!ReadOnce(i)' <=> Lists!ReadOnce(i))
    BY <1>2 DEF Lists!Unread, Lists!ReadOnce
  <2>6. QED
    BY <1>4, <2>3, <2>4, <2>5 DEF Lists!PagesStand
<1>8. QED
  BY <1>2, <1>3, <1>4, <1>5, <1>6, <1>7 DEF Lists!ListInv

LEMMA ListsBegin ==
  ASSUME Lists!Init, reliable
  PROVE  Lists!ListInv
<1>1. /\ listing \in Lists!Listings /\ row \in [Ids -> Lists!Rows(listing) \cup {Lists!Absent}]
      /\ cursor = Lists!Start /\ pages = <<>>
  BY DEF Lists!Init
<1>2. Lists!Reliable(listing, row)
  BY Zenon DEF Lists!Init
<1>3. cursor # Lists!End
  BY <1>1 DEF Lists!Start, Lists!End
<1>4. ASSUME NEW i
      PROVE  Lists!After(listing, cursor, row, i) /\ Lists!Unread(i)
  <2>1. Lists!After(listing, Lists!Start, row, i)
    BY DEF Lists!After
  <2>2. DOMAIN pages = {}
    BY <1>1
  <2>3. QED
    BY <1>1, <2>1, <2>2 DEF Lists!Unread
<1>5. QED
  BY <1>1, <1>2, <1>3, <1>4 DEF Lists!ListInv, Lists!CursorIsReal, Lists!PagesStand

\* What a row's share of the pages comes to.
LEMMA TimesRead ==
  ASSUME NEW i
  PROVE  /\ Lists!Unread(i) => Lists!Times(i) = 0
         /\ Lists!ReadOnce(i) => Lists!Times(i) = 1
<1> DEFINE read == {p \in DOMAIN pages : i \in pages[p]}
<1>1. Lists!Times(i) = Cardinality(read)
  <2>1. \A S : Lists!Cardinality(S) = Cardinality(S)
    BY DEF Lists!Cardinality, Cardinality
  <2>2. QED
    BY <2>1 DEF Lists!Times
<1>2. Lists!Unread(i) => read = {}
  BY DEF Lists!Unread
<1>3. Lists!ReadOnce(i) => \E p : read = {p}
  BY DEF Lists!ReadOnce
<1> HIDE DEF read
<1>4. QED
  BY <1>1, <1>2, <1>3, FS_EmptySet, FS_Singleton

-----------------------------------------------------------------------------
(* The types of what is kept of addresses                                   *)

LEMMA AddressTypesInit == ASSUME Addresses!Init PROVE Addresses!TypeOK
<1>1. /\ seen \in [Users -> SUBSET Ips] /\ tracked \in [Users -> SUBSET Ips]
      /\ calm \in BOOLEAN
      /\ \A u \in Users : blocked[u] = {}
  BY DEF Addresses!Init, Addresses!NoJobs, Addresses!Scopes
<1>2. QED
  BY <1>1, AddressInit DEF AddressInv, Addresses!TypeOK

\* Where no administrator changes a list: addresses are only added to those seen.
LEMMA MoreIsSeen ==
  ASSUME Addresses!TypeOK, AddressInv',
         UNCHANGED blocked, calm' \in BOOLEAN,
         seen' \in [Users -> SUBSET Ips], tracked' \in [Users -> SUBSET Ips],
         \A u \in Users : seen[u] \subseteq seen'[u]
  PROVE  Addresses!TypeOK'
<1>1. \A u \in Users : blocked'[u] \subseteq seen'[u]
  BY DEF Addresses!TypeOK
<1>2. QED
  BY <1>1 DEF AddressInv, Addresses!TypeOK

LEMMA RefreshTypes ==
  ASSUME Addresses!TypeOK, NEW h \in Handlers, NEW c, Addresses!Refresh(h, c)
  PROVE  calm' \in BOOLEAN
<1>1. calm \in BOOLEAN
  BY DEF Addresses!TypeOK
<1>2. QED
  BY <1>1, Zenon DEF Addresses!Refresh, Addresses!Begin

LEMMA AddressTypesStep ==
  ASSUME Addresses!EverybodyIsNoUser, Addresses!TypeOK, AddressInv, AddressInv',
         [Addresses!Next]_(Addresses!vars)
  PROVE  Addresses!TypeOK'
<1>1. /\ seen \in [Users -> SUBSET Ips] /\ tracked \in [Users -> SUBSET Ips]
      /\ calm \in BOOLEAN
      /\ \A u \in Users : blocked[u] \subseteq seen[u]
  BY DEF Addresses!TypeOK
<1>2. ASSUME NEW u \in Users, NEW ip \in Ips, Addresses!Request(u, ip)
      PROVE  Addresses!TypeOK'
  <2>1. /\ tracked' = [tracked EXCEPT ![u] = @ \cup {ip}]
        /\ UNCHANGED <<seen, blocked, calm>>
    BY <1>2 DEF Addresses!Request, Addresses!SameTables
  <2>2. QED
    BY <1>1, <2>1, MoreIsSeen
<1>3. CASE Addresses!SyncUserIps
  <2>1. seen' = [u \in Users |-> seen[u] \cup tracked[u]] /\ UNCHANGED <<blocked, tracked, calm>>
    BY <1>3 DEF Addresses!SyncUserIps
  <2>2. QED
    BY <1>1, <2>1, MoreIsSeen
<1>4. ASSUME NEW h \in Handlers, NEW c \in Addresses!Scopes, NEW ip \in Ips,
             Addresses!BlockIp(h, c, ip) \/ Addresses!UnblockIp(h, c, ip)
      PROVE  Addresses!TypeOK'
  <2>1. /\ c # Everybody => ip \in seen[c]
        /\ \/ blocked' = [blocked EXCEPT ![c] = @ \cup {ip}]
           \/ blocked' = [blocked EXCEPT ![c] = @ \ {ip}]
        /\ UNCHANGED <<seen, tracked>> /\ calm' \in BOOLEAN
    BY <1>4, RefreshTypes DEF Addresses!BlockIp, Addresses!UnblockIp, Addresses!MayBlock
  <2>2. blocked \in [Addresses!Scopes -> SUBSET Ips]
    BY DEF AddressInv
  <2>3. \A u \in Users : blocked'[u] \subseteq seen'[u]
    <3>1. ASSUME NEW u \in Users PROVE blocked'[u] \subseteq seen[u]
      <4>1. u \in Addresses!Scopes /\ u # Everybody
        BY DEF Addresses!Scopes, Addresses!EverybodyIsNoUser
      <4>2. blocked'[u] = blocked[u] \/ (c = u /\ blocked'[u] \subseteq blocked[u] \cup {ip})
        BY <2>1, <2>2, <4>1
      <4>3. QED
        BY <1>1, <2>1, <4>1, <4>2
    <3>2. QED
      BY <2>1, <3>1
  <2>4. QED
    BY <1>1, <2>1, <2>3 DEF AddressInv, Addresses!TypeOK
<1>5. ASSUME NEW h \in Handlers, NEW u \in Users, Addresses!TriggerIpSync(h, u)
      PROVE  Addresses!TypeOK'
  <2>1. /\ seen' = [seen EXCEPT ![u] = @ \cup tracked[u]]
        /\ UNCHANGED <<blocked, tracked>> /\ calm' \in BOOLEAN
    BY <1>5, RefreshTypes DEF Addresses!TriggerIpSync
  <2>2. QED
    BY <1>1, <2>1, MoreIsSeen
<1>6. ASSUME NEW h \in Handlers, Addresses!CacheIps(h) PROVE Addresses!TypeOK'
  <2>1. UNCHANGED <<seen, blocked, tracked, calm>>
    BY <1>6 DEF Addresses!CacheIps, Addresses!FindBlockedIps, Addresses!ClearSet,
       Addresses!AddIps, Addresses!SetExpiry, Addresses!Fail, Addresses!SameTables,
       Addresses!Continue, Addresses!End
  <2>2. QED
    BY <1>1, <2>1, MoreIsSeen
<1>7. CASE Addresses!Expire
  <2>1. UNCHANGED <<seen, blocked, calm>> /\ tracked' \in [Users -> SUBSET Ips]
    BY <1>1, <1>7 DEF Addresses!Expire, Addresses!SameTables
  <2>2. QED
    BY <1>1, <2>1, MoreIsSeen
<1>8. CASE UNCHANGED Addresses!vars
  <2>1. UNCHANGED <<seen, blocked, tracked, calm>>
    BY <1>8 DEF Addresses!vars
  <2>2. QED
    BY <1>1, <2>1, MoreIsSeen
<1>9. QED
  BY <1>2, <1>3, <1>4, <1>5, <1>6, <1>7, <1>8 DEF Addresses!Next, Addresses!UserController

LEMMA AddressesAreTyped ==
  ASSUME Addresses!EverybodyIsNoUser PROVE Addresses!Spec => []Addresses!TypeOK
<1>1. AddressInv /\ Addresses!TypeOK /\ [Addresses!Next]_(Addresses!vars) /\ AddressInv'
        => Addresses!TypeOK'
  BY AddressTypesStep
<1>2. QED
  BY <1>1, AddressTypesInit, AddressInvHolds, PTL DEF Addresses!Spec

-----------------------------------------------------------------------------
(* The types of what is kept of texts                                       *)

TextMarks == staleMarks \subseteq Writs /\ tidy \subseteq Texts!AllTables /\ calm \in BOOLEAN

LEMMA TextBegun ==
  ASSUME calm \in BOOLEAN, NEW h \in Handlers, NEW j, Texts!Begin(h, j)
  PROVE  calm' \in BOOLEAN
BY Zenon DEF Texts!Begin

\* What is begun leaves the marks as they are.
LEMMA RequestTypes ==
  ASSUME TextMarks, NEW h \in Handlers,
         \/ Texts!PostController(h) \/ Texts!SiteReviewController(h)
         \/ Texts!ScamReportController(h) \/ Texts!CommandLine(h)
  PROVE  TextMarks'
<1>1. calm \in BOOLEAN
  BY DEF TextMarks
<1>2. Texts!AtOnce => calm' \in BOOLEAN
  BY <1>1, Zenon DEF Texts!AtOnce
<1>3. ASSUME NEW u \in Authors,
             \/ Texts!CreatePost(u)
             \/ \E kind \in Texts!CommentKinds : Texts!AddComment(u, kind)
      PROVE  TextMarks'
  BY <1>2, <1>3 DEF Texts!CreatePost, Texts!AddComment, Texts!Insert, TextMarks
<1>4. ASSUME NEW u \in Authors, NEW kind, NEW w, Texts!AddReply(h, u, kind, w)
      PROVE  TextMarks'
  BY <1>1, <1>4, TextBegun DEF Texts!AddReply, Texts!Insert, TextMarks
<1>5. ASSUME NEW u \in Authors, NEW w, Texts!CheckParent(h, u, w) PROVE TextMarks'
  BY <1>1, <1>5, TextBegun DEF Texts!CheckParent, TextMarks
<1>6. ASSUME NEW w, Texts!Find(h, w) PROVE TextMarks'
  BY <1>1, <1>6, TextBegun DEF Texts!Find, TextMarks
<1>7. ASSUME NEW u \in Authors, NEW table, Texts!Sync(h, u, table) PROVE TextMarks'
  BY <1>1, <1>7, TextBegun DEF Texts!Sync, TextMarks
<1>8. QED
  BY <1>3, <1>4, <1>5, <1>6, <1>7
  DEF Texts!PostController, Texts!SiteReviewController, Texts!ScamReportController,
      Texts!CommandLine, Texts!DeleteOf, Texts!CommentKinds

LEMMA FinishTypes ==
  ASSUME NEW h \in Handlers, NEW parent, Texts!Finish(h, parent) PROVE calm' = calm
BY DEF Texts!Finish, Texts!End, Texts!Continue

LEMMA ContinuationTypes ==
  ASSUME TextInv, TextMarks, NEW h \in Handlers, Texts!Continuations(h)
  PROVE  TextMarks'
<1>1. /\ staleMarks \subseteq Writs /\ tidy \subseteq Texts!AllTables /\ calm \in BOOLEAN
      /\ Texts!JobIsReal(job[h])
      /\ Texts!Written \subseteq Writs
  BY DEF TextMarks, TextInv, Texts!JobsAreReal, Texts!Written
<1>2. CASE \/ Texts!AddCheckedReply(h) \/ Texts!DeleteTree(h) \/ Texts!Delete(h)
           \/ Texts!DeleteRecord(h) \/ Texts!LookForChild(h) \/ Texts!ListRows(h)
           \/ Texts!SyncRow(h)
  <2>1. UNCHANGED <<staleMarks, tidy, calm>>
    BY <1>2, FinishTypes
    DEF Texts!AddCheckedReply, Texts!DeleteTree, Texts!Delete, Texts!DeleteRecord,
        Texts!LookForChild, Texts!ListRows, Texts!SyncRow, Texts!Insert, Texts!Continue
  <2>2. QED
    BY <2>1 DEF TextMarks, Texts!AllTables
<1>3. CASE Texts!UpdateHasChild(h)
  <2>1. UNCHANGED <<tidy, calm>> /\ staleMarks' \subseteq staleMarks
    BY <1>3 DEF Texts!UpdateHasChild, Texts!End
  <2>2. QED
    BY <1>1, <2>1 DEF TextMarks
<1>4. Texts!At(h, "sync") => <<job[h].author, job[h].table>> \in Texts!AllTables
  <2>1. SUFFICES ASSUME Texts!At(h, "sync")
                 PROVE  <<job[h].author, job[h].table>> \in Texts!AllTables
    OBVIOUS
  <2>2. PICK j \in Texts!SyncCommand : j = job[h]
    BY <1>1, <2>1 DEF Texts!At, Texts!JobIsReal
  <2>3. j.author \in Authors /\ j.table \in {"user_posts", "user_comments"}
    BY DEF Texts!SyncCommand
  <2>4. QED
    BY <2>2, <2>3 DEF Texts!AllTables
<1>5. CASE Texts!DeleteOrphans(h)
  <2>1. /\ UNCHANGED <<staleMarks, calm>>
        /\ tidy' \subseteq tidy \cup {<<job[h].author, job[h].table>>}
    BY <1>5 DEF Texts!DeleteOrphans, Texts!End
  <2>2. Texts!At(h, "sync")
    BY <1>5 DEF Texts!DeleteOrphans
  <2>3. QED
    BY <1>1, <1>4, <2>1, <2>2 DEF TextMarks
<1>6. CASE Texts!Fail(h)
  <2>1. /\ calm' = calm /\ tidy' \subseteq tidy
        /\ \/ staleMarks' = staleMarks
           \/ /\ job[h].op \in {"record", "refresh", "flag"}
              /\ staleMarks' = staleMarks \cup ({job[h].parent} \ {None})
    BY <1>6 DEF Texts!Fail, Texts!End
  <2>2. job[h].op \in {"record", "refresh", "flag"} => {job[h].parent} \ {None} \subseteq Writs
    BY <1>1 DEF Texts!JobIsReal
  <2>3. QED
    BY <1>1, <2>1, <2>2 DEF TextMarks
<1>7. QED
  BY <1>2, <1>3, <1>5, <1>6 DEF Texts!Continuations

LEMMA TextsAreTyped ==
  ASSUME Texts!NoneIsNoKind PROVE Texts!Spec => []Texts!TypeOK
<1>1. Texts!Init => TextMarks
  BY DEF Texts!Init, Texts!NoJobs, TextMarks
<1>2. TextInv /\ TextMarks /\ [Texts!Next]_(Texts!vars) => TextMarks'
  <2>1. SUFFICES ASSUME TextInv, TextMarks, [Texts!Next]_(Texts!vars) PROVE TextMarks'
    OBVIOUS
  <2>2. CASE UNCHANGED Texts!vars
    BY <2>1, <2>2 DEF Texts!vars, TextMarks
  <2>3. QED
    BY <2>1, <2>2, RequestTypes, ContinuationTypes DEF Texts!Next
<1>3. TextInv /\ TextMarks => Texts!TypeOK
  BY DEF TextInv, TextMarks, Texts!RowsAreTyped, Texts!TypeOK
<1>4. QED
  BY <1>1, <1>2, <1>3, TextInvHolds, PTL DEF Texts!Spec

-----------------------------------------------------------------------------
(* The types of the statistics of sites                                     *)

Statistic == [count: Nat, total: Nat]

\* A use case that writes a review or its site's statistics knows the site.
JobNamesSite(j) ==
  /\ j.op \in {"insert", "update", "delete", "approve", "reject", "count", "store"} =>
       j.site \in OneSite
  /\ j.op = "store" => j.stat \in Statistic

WrittenReviews == {r \in Reviews : review[r] # Reviewed!NoReview}

StatisticsTyped ==
  /\ stat \in [OneSite -> Statistic]
  /\ staleStats \subseteq OneSite
  /\ calm \in BOOLEAN
  /\ IsFiniteSet(WrittenReviews)
  /\ \A h \in Handlers : JobNamesSite(job[h])

LEMMA SameCardinality ==
  /\ \A S : Reviewed!Cardinality(S) = Cardinality(S)
BY DEF Reviewed!Cardinality, Cardinality

\* Finitely many reviews have finitely many stars.
LEMMA StatisticsAreNumbers ==
  ASSUME Reviewed!RatingsArePositive, ModerationInv, IsFiniteSet(WrittenReviews), NEW s
  PROVE  Reviewed!Statistics(s) \in Statistic
<1> DEFINE C == Reviewed!Counted(s)
           starsOf == [r \in C |-> {r} \X (1..review[r].rating)]
           families == {{r} \X (1..review[r].rating) : r \in C}
<1>1. IsFiniteSet(C)
  <2>1. C \subseteq WrittenReviews
    BY NoRowIsNone DEF Reviewed!Counted, Reviewed!Shown, WrittenReviews
  <2>2. QED
    BY <2>1, FS_Subset
<1>2. IsFiniteSet(families)
  <2>1. starsOf \in Surjection(C, families)
    BY DEF Surjection
  <2>2. QED
    BY <1>1, <2>1, FS_Surjection
<1>3. \A T \in families : IsFiniteSet(T)
  <2>1. ASSUME NEW r \in C PROVE IsFiniteSet({r} \X (1..review[r].rating))
    <3>1. review[r].rating \in Int
      <4>1. r \in Reviews /\ review[r] # Reviewed!NoReview
        BY NoRowIsNone DEF Reviewed!Counted, Reviewed!Shown
      <4>2. review[r] \in Reviewed!Review
        BY <4>1 DEF ModerationInv, Reviewed!RowsAreTyped
      <4>3. review[r].rating \in Ratings
        BY <4>2 DEF Reviewed!Review
      <4>4. \A x \in Ratings : x \in Int
        BY DEF Reviewed!RatingsArePositive
      <4>5. QED
        BY <4>3, <4>4, Zenon
    <3>2. IsFiniteSet(1..review[r].rating)
      BY <3>1, FS_Interval
    <3>3. IsFiniteSet({r})
      BY FS_Singleton
    <3>4. QED
      BY <3>2, <3>3, FS_Product
  <2>2. QED
    BY <2>1
<1>4. IsFiniteSet(Reviewed!Stars(s))
  <2>1. IsFiniteSet(UNION families)
    BY <1>2, <1>3, FS_UNION
  <2>2. QED
    BY <2>1 DEF Reviewed!Stars
<1>5. /\ Reviewed!Cardinality(Reviewed!Counted(s)) \in Nat
      /\ Reviewed!Cardinality(Reviewed!Stars(s)) \in Nat
  BY <1>1, <1>4, FS_CardinalityType, SameCardinality
<1>6. QED
  BY <1>5 DEF Reviewed!Statistics, Statistic

\* A step of one use case, to the job j.
LEMMA StatisticsStep ==
  ASSUME ModerationInv, StatisticsTyped, NEW h \in Handlers, NEW j, JobNamesSite(j),
         job' = [job EXCEPT ![h] = j],
         stat' \in [OneSite -> Statistic], staleStats' \subseteq OneSite, calm' \in BOOLEAN,
         IsFiniteSet(WrittenReviews)'
  PROVE  StatisticsTyped'
<1>1. DOMAIN job = Handlers
  BY DEF ModerationInv, Reviewed!JobsAreReal
<1>2. \A g \in Handlers : JobNamesSite(job'[g])
  <2>1. ASSUME NEW g \in Handlers PROVE JobNamesSite(job'[g])
    <3>1. CASE g = h
      BY <1>1, <3>1
    <3>2. CASE g # h
      <4>1. job'[g] = job[g]
        BY <1>1, <3>2
      <4>2. QED
        BY <4>1 DEF StatisticsTyped
    <3>3. QED
      BY <3>1, <3>2
  <2>2. QED
    BY <2>1
<1>3. QED
  BY <1>2 DEF StatisticsTyped, JobNamesSite

LEMMA RestNamesNoSite == JobNamesSite(Reviewed!Resting)
BY DEF Reviewed!Resting, JobNamesSite

\* A use case that has been entered knows the site of its review.
LEMMA StatisticsBegin ==
  ASSUME ModerationInv, StatisticsTyped, NEW h \in Handlers, Checks(h)
  PROVE  StatisticsTyped'
<1>1. PICK j : Reviewed!Begin(h, j) /\ MayBegin(j)
  BY ChecksBegin
<1>2. UNCHANGED <<review, stat, staleStats>>
  BY DEF Checks, Reviewed!SiteReviewController, Reviewed!ScamReportController,
     Reviewed!CheckCreate, Reviewed!CheckUpdate, Reviewed!CheckDelete, Reviewed!CheckDecide,
     Reviewed!FindReport, Reviewed!FindForAdmin, Reviewed!Reading
<1>3. JobNamesSite(j)
  <2>1. \A r \in Reviews : review[r] # Reviewed!NoReview => review[r] \in Reviewed!Review
    BY DEF ModerationInv, Reviewed!RowsAreTyped
  <2>2. \A e \in Reviewed!Review : e.site \in OneSite
    BY DEF Reviewed!Review
  <2>3. QED
    BY <1>1, <2>1, <2>2 DEF MayBegin, JobNamesSite
<1>4. calm' \in BOOLEAN
  <2>1. calm \in BOOLEAN
    BY DEF StatisticsTyped
  <2>2. QED
    BY <1>1, <2>1, Zenon DEF Reviewed!Begin
<1>5. job' = [job EXCEPT ![h] = j] /\ WrittenReviews' = WrittenReviews
  BY <1>1, <1>2 DEF Reviewed!Begin, WrittenReviews
<1>6. QED
  BY <1>2, <1>3, <1>4, <1>5, StatisticsStep DEF StatisticsTyped

\* After a write it goes on to the statistics of that site, or is done.
LEMMA GoesOnToSite ==
  ASSUME NEW h \in Handlers, JobNamesSite(job[h]),
         job[h].op \in {"insert", "update", "delete", "approve", "reject", "count", "store"},
         Reviewed!Recalculate(h, job[h].site) \/ Reviewed!End(h)
  PROVE  \E j : JobNamesSite(j) /\ job' = [job EXCEPT ![h] = j] /\ calm' = calm
<1> DEFINE j == [op |-> "count", site |-> job[h].site]
<1>1. JobNamesSite(j)
  BY DEF JobNamesSite
<1>2. Reviewed!Recalculate(h, job[h].site) => job' = [job EXCEPT ![h] = j] /\ calm' = calm
  BY DEF Reviewed!Recalculate, Reviewed!Continue
<1>3. Reviewed!End(h) => job' = [job EXCEPT ![h] = Reviewed!Resting] /\ calm' = calm
  BY DEF Reviewed!End
<1> HIDE DEF j
<1>4. QED
  BY <1>1, <1>2, <1>3, RestNamesNoSite

LEMMA StatisticsFinish ==
  ASSUME Reviewed!RatingsArePositive, ModerationInv, ModerationInv', StatisticsTyped,
         NEW h \in Handlers, Reviewed!Finish(h)
  PROVE  StatisticsTyped'
<1>1. /\ stat \in [OneSite -> Statistic] /\ staleStats \subseteq OneSite /\ calm \in BOOLEAN
      /\ IsFiniteSet(WrittenReviews) /\ JobNamesSite(job[h])
  BY DEF StatisticsTyped
<1>2. CASE Reviewed!CreateSiteReview(h)
  <2>1. /\ job[h].op = "insert"
        /\ Reviewed!Recalculate(h, job[h].site) \/ Reviewed!End(h)
        /\ UNCHANGED <<stat, staleStats>>
        /\ \/ review' = review
           \/ \E r \in Reviews : \E e : review' = [review EXCEPT ![r] = e]
    BY <1>2 DEF Reviewed!CreateSiteReview, Reviewed!At
  <2>2. PICK j : JobNamesSite(j) /\ job' = [job EXCEPT ![h] = j] /\ calm' = calm
    BY <1>1, <2>1, GoesOnToSite
  <2>3. IsFiniteSet(WrittenReviews)'
    <3>1. CASE review' = review
      <4>1. WrittenReviews' = WrittenReviews
        BY <3>1 DEF WrittenReviews
      <4>2. QED
        BY <1>1, <4>1
    <3>2. ASSUME NEW r \in Reviews, NEW e, review' = [review EXCEPT ![r] = e]
          PROVE  IsFiniteSet(WrittenReviews)'
      <4>1. WrittenReviews' \subseteq WrittenReviews \cup {r}
        BY <3>2 DEF WrittenReviews
      <4>2. IsFiniteSet(WrittenReviews \cup {r})
        BY <1>1, FS_AddElement
      <4>3. QED
        BY <4>1, <4>2, FS_Subset
    <3>3. QED
      BY <2>1, <3>1, <3>2
  <2>4. QED
    BY <1>1, <2>1, <2>2, <2>3, StatisticsStep
<1>3. CASE \/ Reviewed!UpdateSiteReview(h) \/ Reviewed!DeleteSiteReview(h)
           \/ Reviewed!ApproveSiteReview(h) \/ Reviewed!RejectSiteReview(h)
  <2>1. /\ job[h].op \in {"update", "delete", "approve", "reject"}
        /\ Reviewed!Recalculate(h, job[h].site) \/ Reviewed!End(h)
        /\ UNCHANGED <<stat, staleStats>>
        /\ \/ review' = review
           \/ \E e : review' = [review EXCEPT ![job[h].review] = e]
    BY <1>3 DEF Reviewed!UpdateSiteReview, Reviewed!DeleteSiteReview, Reviewed!ApproveSiteReview,
       Reviewed!RejectSiteReview, Reviewed!Publish, Reviewed!At
  <2>2. PICK j : JobNamesSite(j) /\ job' = [job EXCEPT ![h] = j] /\ calm' = calm
    BY <1>1, <2>1, GoesOnToSite
  <2>3. job[h].review \in WrittenReviews
    BY <2>1 DEF ModerationInv, Reviewed!JobsAreReal, Reviewed!JobIsReal, WrittenReviews
  <2>4. WrittenReviews' \subseteq WrittenReviews
    BY <2>1, <2>3 DEF WrittenReviews, ModerationInv, Reviewed!RowsAreTyped
  <2>5. IsFiniteSet(WrittenReviews)'
    BY <1>1, <2>4, FS_Subset
  <2>6. QED
    BY <1>1, <2>1, <2>2, <2>5, StatisticsStep
<1>4. CASE Reviewed!CountReviews(h)
  <2> DEFINE j == [op |-> "store", site |-> job[h].site, stat |-> Reviewed!Statistics(job[h].site)]
  <2>1. /\ job[h].op = "count" /\ job' = [job EXCEPT ![h] = j]
        /\ UNCHANGED <<review, stat, staleStats, calm>>
    BY <1>4 DEF Reviewed!CountReviews, Reviewed!At, Reviewed!Continue
  <2>2. Reviewed!Statistics(job[h].site) \in Statistic
    BY <1>1, StatisticsAreNumbers
  <2>3. JobNamesSite(j)
    BY <1>1, <2>1, <2>2 DEF JobNamesSite
  <2>4. WrittenReviews' = WrittenReviews
    BY <2>1 DEF WrittenReviews
  <2> HIDE DEF j
  <2>5. QED
    BY <1>1, <2>1, <2>3, <2>4, StatisticsStep
<1>5. CASE Reviewed!StoreStatistics(h)
  <2>1. /\ job[h].op = "store" /\ Reviewed!End(h) /\ UNCHANGED review
        /\ stat' = [stat EXCEPT ![job[h].site] = job[h].stat]
        /\ staleStats' \subseteq staleStats
    BY <1>5 DEF Reviewed!StoreStatistics, Reviewed!At
  <2>2. stat' \in [OneSite -> Statistic]
    BY <1>1, <2>1 DEF JobNamesSite
  <2>3. WrittenReviews' = WrittenReviews
    BY <2>1 DEF WrittenReviews
  <2>4. job' = [job EXCEPT ![h] = Reviewed!Resting] /\ calm' = calm
    BY <2>1 DEF Reviewed!End
  <2>5. QED
    BY <1>1, <2>1, <2>2, <2>3, <2>4, RestNamesNoSite, StatisticsStep
<1>6. CASE \/ Reviewed!UpdateScamReport(h) \/ Reviewed!DeleteScamReport(h)
           \/ Reviewed!ApproveScamReport(h) \/ Reviewed!RejectScamReport(h)
           \/ Reviewed!AdminUpdateScamReport(h) \/ Reviewed!Fail(h)
  <2>1. /\ Reviewed!End(h) /\ UNCHANGED <<review, stat>>
        /\ \/ staleStats' = staleStats
           \/ /\ job[h].op \in {"count", "store"}
              /\ staleStats' = staleStats \cup {job[h].site}
    BY <1>6 DEF Reviewed!UpdateScamReport, Reviewed!DeleteScamReport, Reviewed!ApproveScamReport,
       Reviewed!RejectScamReport, Reviewed!AdminUpdateScamReport, Reviewed!Fail
  <2>2. staleStats' \subseteq OneSite
    BY <1>1, <2>1 DEF JobNamesSite
  <2>3. WrittenReviews' = WrittenReviews
    BY <2>1 DEF WrittenReviews
  <2>4. job' = [job EXCEPT ![h] = Reviewed!Resting] /\ calm' = calm
    BY <2>1 DEF Reviewed!End
  <2>5. QED
    BY <1>1, <2>1, <2>2, <2>3, <2>4, RestNamesNoSite, StatisticsStep
<1>7. QED
  BY <1>2, <1>3, <1>4, <1>5, <1>6 DEF Reviewed!Finish

LEMMA StatisticsStay ==
  ASSUME Reviewed!RatingsArePositive, ModerationInv, ModerationInv', StatisticsTyped,
         [Reviewed!Next]_(Reviewed!vars)
  PROVE  StatisticsTyped'
<1>1. ASSUME UNCHANGED <<review, stat, staleStats, job>>, calm' \in BOOLEAN
      PROVE  StatisticsTyped'
  BY <1>1 DEF StatisticsTyped, WrittenReviews, JobNamesSite
<1>2. CASE Reviewed!AtOnceReports
  <2>1. UNCHANGED <<review, stat, staleStats, job>> /\ Reviewed!AtOnce
    BY <1>2 DEF Reviewed!AtOnceReports, Reviewed!AdminDeleteScamReport,
       Reviewed!CreateScamReport, Reviewed!AdminCreateScamReport, Reviewed!AtOnce
  <2>2. calm' \in BOOLEAN
    BY <2>1, Zenon DEF Reviewed!AtOnce, StatisticsTyped
  <2>3. QED
    BY <1>1, <2>1, <2>2
<1>3. CASE UNCHANGED Reviewed!vars
  BY <1>1, <1>3 DEF Reviewed!vars, StatisticsTyped
<1>4. QED
  BY <1>2, <1>3, StatisticsBegin, StatisticsFinish DEF Reviewed!Next, Checks

LEMMA StatisticsInit == ASSUME Reviewed!Init PROVE StatisticsTyped
<1>1. stat \in [OneSite -> Statistic] /\ staleStats = {} /\ calm = TRUE
  BY DEF Reviewed!Init, Reviewed!NoJobs, Statistic
<1>2. WrittenReviews = {}
  BY DEF Reviewed!Init, WrittenReviews
<1>3. \A h \in Handlers : JobNamesSite(job[h])
  BY RestNamesNoSite DEF Reviewed!Init, Reviewed!NoJobs
<1>4. QED
  BY <1>1, <1>2, <1>3, FS_EmptySet DEF StatisticsTyped

LEMMA ReviewedAreTyped ==
  ASSUME Reviewed!RatingsArePositive PROVE Reviewed!Spec => []Reviewed!TypeOK
<1>1. /\ Reviewed!Init => StatisticsTyped
      /\ ModerationInv /\ ModerationInv' /\ StatisticsTyped /\ [Reviewed!Next]_(Reviewed!vars)
           => StatisticsTyped'
      /\ ModerationInv /\ StatisticsTyped => Reviewed!TypeOK
  BY StatisticsInit, StatisticsStay
  DEF ModerationInv, StatisticsTyped, Statistic, Reviewed!RowsAreTyped, Reviewed!TypeOK
<1>2. QED
  BY <1>1, ModerationInvHolds, PTL DEF Reviewed!Spec

-----------------------------------------------------------------------------
(* What MCContent checks                                                    *)

\* The part that was chosen at first is the one that runs.
LEMMA ReviewedRuns == Spec /\ part = "reviewed" => [](part = "reviewed") /\ Reviewed!Spec
<1>1. Init /\ part = "reviewed" => Reviewed!Init
  BY DEF Init
<1>2. part = "reviewed" /\ [Next]_vars =>
        (part = "reviewed")' /\ [Reviewed!Next]_(Reviewed!vars)
  BY DEF Next, vars, reviewVars, Reviewed!vars
<1>3. QED
  BY <1>1, <1>2, PTL DEF Spec, Reviewed!Spec

LEMMA OthersRun == ~(part = "reviewed") /\ [Next]_vars => (~(part = "reviewed"))'
BY DEF Next, vars

LEMMA RequestsRun == Spec /\ part = "requests" => [](part = "requests") /\ RequestTheorems!Spec
<1>1. Init /\ part = "requests" => RequestTheorems!Init
  BY SameRequests DEF Init
<1>2. part = "requests" /\ [Next]_vars =>
        (part = "requests")' /\ [RequestTheorems!Next]_(RequestTheorems!vars)
  BY SameRequests DEF Next, vars, catalogueVars, RequestTheorems!vars
<1>3. QED
  BY <1>1, <1>2, PTL DEF Spec, RequestTheorems!Spec

LEMMA TiersRun == Spec /\ part = "tiers" => [](part = "tiers") /\ TierTheorems!Spec
<1>1. Init /\ part = "tiers" => TierTheorems!Init
  BY SameTiers DEF Init
<1>2. part = "tiers" /\ [Next]_vars =>
        (part = "tiers")' /\ [TierTheorems!Next]_(TierTheorems!vars)
  BY SameTiers DEF Next, vars, catalogueVars, TierTheorems!vars
<1>3. QED
  BY <1>1, <1>2, PTL DEF Spec, TierTheorems!Spec

LEMMA TextsRun == Spec /\ part = "texts" => [](part = "texts") /\ Texts!Spec
<1>1. Init /\ part = "texts" => Texts!Init
  BY DEF Init
<1>2. part = "texts" /\ [Next]_vars => (part = "texts")' /\ [Texts!Next]_(Texts!vars)
  BY DEF Next, vars, writVars, Texts!vars
<1>3. QED
  BY <1>1, <1>2, PTL DEF Spec, Texts!Spec

LEMMA ImagesRun == Spec /\ part = "images" => [](part = "images") /\ Images!Spec
<1>1. Init /\ part = "images" => Images!Init
  BY DEF Init
<1>2. part = "images" /\ [Next]_vars => (part = "images")' /\ [Images!Next]_(Images!vars)
  BY DEF Next, vars, mediaVars, Images!vars
<1>3. QED
  BY <1>1, <1>2, PTL DEF Spec, Images!Spec

LEMMA AddressesRun == Spec /\ part = "addresses" => [](part = "addresses") /\ Addresses!Spec
<1>1. Init /\ part = "addresses" => Addresses!Init
  BY DEF Init
<1>2. part = "addresses" /\ [Next]_vars =>
        (part = "addresses")' /\ [Addresses!Next]_(Addresses!vars)
  BY DEF Next, vars, ipVars, Addresses!vars
<1>3. QED
  BY <1>1, <1>2, PTL DEF Spec, Addresses!Spec

LEMMA ListsRun == Spec => [](part = "lists" => Lists!ListInv)
<1>1. Init => (part = "lists" => Lists!ListInv)
  BY ListsBegin DEF Init
<1>2. (part = "lists" => Lists!ListInv) /\ [Next]_vars => (part = "lists" => Lists!ListInv)'
  <2>1. SUFFICES ASSUME part = "lists", Lists!ListInv, [Next]_vars
                 PROVE  Lists!ListInv'
    BY DEF Next, vars
  <2>2. CASE UNCHANGED vars
    <3>1. UNCHANGED <<listing, row, cursor, pages, touched, reliable>>
      BY <2>2 DEF vars, listVars
    <3>2. QED
      BY <2>1, <3>1 DEF Lists!ListInv, Lists!CursorIsReal, Lists!PagesStand, Lists!Unread,
                        Lists!ReadOnce
  <2>3. CASE Next
    <3>1. reliable /\ Lists!Next
      BY <2>1, <2>3 DEF Next
    <3>2. QED
      BY <2>1, <3>1, PageRead, RowEdited DEF Lists!Next
  <2>4. QED
    BY <2>1, <2>2, <2>3
<1>3. QED
  BY <1>1, <1>2, PTL DEF Spec

\* A user has one review of a site, whatever overlaps: the index decides what
\* the check before it may have missed (create-site-review).
THEOREM OneReviewPerSite == Spec => []OneReviewEach
<1>1. ~(part = "reviewed") \/ ModerationInv => OneReviewEach
  BY DEF ModerationInv, OneReviewEach
<1>2. QED
  BY <1>1, ModerationInvHolds, ReviewedRuns, OthersRun, PTL DEF Spec

\* As long as use cases do not overlap, what is published is what was published
\* first or what an administrator saw (update-site-review, approve-site-review,
\* update-scam-report, approve-scam-report).
THEOREM PublishedAsAgreed == Spec => []CalmPublished
<1>1. Reviewed!Spec => []AgreementInv
  BY Assumptions, AgreementInvHolds, PTL
<1>2. ~(part = "reviewed") \/ AgreementInv => CalmPublished
  BY DEF AgreementInv, CalmPublished, Reviewed!CalmPublished, ReviewsAgreed, ReportsAgreed
<1>3. QED
  BY <1>1, <1>2, ReviewedRuns, OthersRun, PTL DEF Spec

\* As long as use cases do not overlap, has_child of a comment and the
\* statistics of a site are what the rows say, once they are written
\* (comment-has-child.service, recalculateSiteStatistics).
THEOREM DerivedWhileCalm == Spec => []CalmDerived
<1>1. Reviewed!Spec => []Reviewed!CountsStand
  BY Assumptions, CountsHold, PTL
<1>2. Texts!Spec => []Texts!MarksStand
  BY Assumptions, MarksHold, PTL
<1>3. /\ (~(part = "reviewed") \/ Reviewed!CountsStand)
      /\ (~(part = "texts") \/ Texts!MarksStand)
      => CalmDerived
  BY CountsAreRight, MarksAreOfReplies DEF CalmDerived
<1>4. ~(part = "texts") /\ [Next]_vars => (~(part = "texts"))'
  BY DEF Next, vars
<1>5. QED
  BY <1>1, <1>2, <1>3, <1>4, ReviewedRuns, OthersRun, TextsRun, PTL DEF Spec

\* Whatever overlaps: one site per slug, and one per request with images
\* (the slug's index, and the move of the images in approve-site-request).
THEOREM SitesMadeOnce == Spec => []MadeOnce
<1>1. RequestTheorems!NoneIsNoRow
  BY Assumptions DEF SitesAndRequests!NoneIsNoRow, RequestTheorems!NoneIsNoRow
<1>2. RequestTheorems!Spec => []RequestTheorems!MadeOnce
  BY <1>1, NoneIsNoHandler, RequestTheorems!SitesAreMadeOnce, PTL
<1>3. ~(part = "requests") \/ RequestTheorems!MadeOnce => MadeOnce
  BY SameRequests DEF MadeOnce
<1>4. ~(part = "requests") /\ [Next]_vars => (~(part = "requests"))'
  BY DEF Next, vars
<1>5. QED
  BY <1>2, <1>3, <1>4, RequestsRun, PTL DEF Spec

\* As long as use cases do not overlap: sites are filed under what is not deleted
\* and have names of their own, and an approved request has its one site
\* (create-site, update-site, delete-category, delete-tier, approve-site-request).
THEOREM CatalogueWhileCalm == Spec => []CalmCatalogue
<1>1. RequestTheorems!NoneIsNoRow /\ TierTheorems!NoneIsNoRow
  BY Assumptions DEF SitesAndRequests!NoneIsNoRow, RequestTheorems!NoneIsNoRow,
                     SitesAndTiers!NoneIsNoRow, TierTheorems!NoneIsNoRow
<1>2. RequestTheorems!Spec => []RequestTheorems!CalmCatalogue
  BY <1>1, NoneIsNoHandler, RequestTheorems!CatalogueIsCalm, PTL
<1>3. TierTheorems!Spec => []TierTheorems!CalmCatalogue
  BY <1>1, NoneIsNoHandler, TierTheorems!CatalogueIsCalm, PTL
<1>4. /\ ~(part = "requests") \/ RequestTheorems!CalmCatalogue
      /\ ~(part = "tiers") \/ TierTheorems!CalmCatalogue
      => CalmCatalogue
  BY SameRequests, SameTiers DEF CalmCatalogue
<1>5. /\ ~(part = "requests") /\ [Next]_vars => (~(part = "requests"))'
      /\ ~(part = "tiers") /\ [Next]_vars => (~(part = "tiers"))'
  BY DEF Next, vars
<1>6. QED
  BY <1>2, <1>3, <1>4, <1>5, RequestsRun, TiersRun, PTL DEF Spec

\* The copy of a block list in Redis expires, whatever overlaps, and is the list
\* when no change of it is under way (redis.service, user.controller).
THEOREM CopiesFollowLists == Spec => []CopiesFollow
<1>1. AddressInv => Addresses!CopiesFollow
  BY DEF AddressInv, Addresses!CopiesFollow, Addresses!CopiesExpire, Addresses!CopiesStand
<1>2. ~(part = "addresses") \/ AddressInv => CopiesFollow
  BY <1>1 DEF CopiesFollow
<1>3. ~(part = "addresses") /\ [Next]_vars => (~(part = "addresses"))'
  BY DEF Next, vars
<1>4. QED
  BY <1>2, <1>3, AddressInvHolds, AddressesRun, PTL DEF Spec

\* Whatever overlaps, a post or a comment is recorded exactly as long as it is not
\* deleted, until a deletion breaks off half-way or a command is overtaken, and
\* again when the command that mends the records has run alone (delete-post,
\* delete-comment, sync-user-posts, sync-user-comments).
THEOREM RecordedWhileLive == Spec => []OnRecord
<1>1. Texts!Spec => []TextInv
  BY Assumptions, TextInvHolds, PTL
<1>2. ~(part = "texts") \/ TextInv => OnRecord
  BY DEF OnRecord, TextInv
<1>3. ~(part = "texts") /\ [Next]_vars => (~(part = "texts"))'
  BY DEF Next, vars
<1>4. QED
  BY <1>1, <1>2, <1>3, TextsRun, PTL DEF Spec

\* Rows name files that exist, and files are named: banners whatever overlaps,
\* images and what is left behind as long as requests do not overlap, but for the
\* two ways in which a failed request deletes files of committed rows (the use
\* cases that create and update sites, site events, POCA events and gifticons).
THEOREM FilesStayWithRows == Spec => []FilesOfRows
<1>1. Images!Spec => []ImageInv
  BY Assumptions, ImageInvHolds, PTL
<1>2. ImageInv => Images!FilesOfRows
  BY DEF ImageInv, Images!FilesOfRows, Images!FilesOwned, Images!NothingLost
<1>3. ~(part = "images") \/ ImageInv => FilesOfRows
  BY <1>2 DEF FilesOfRows
<1>4. ~(part = "images") /\ [Next]_vars => (~(part = "images"))'
  BY DEF Next, vars
<1>5. QED
  BY <1>1, <1>3, <1>4, ImagesRun, PTL DEF Spec

\* A row that stays as it is is read once by a client that reads all pages, of
\* however many rows, pages and changes of other rows (the cursor listings of
\* the repositories, for the tables whose rows they tell apart).
THEOREM RowsAreReadOnce == Spec => []ReadsEachOnce
<1>1. (part = "lists" => Lists!ListInv) => ReadsEachOnce
  <2>1. SUFFICES ASSUME part = "lists", Lists!ListInv, reliable,
                        NEW i \in Lists!Present(row) \ touched
                 PROVE  Lists!Times(i) <= 1 /\ (cursor = Lists!End => Lists!Times(i) = 1)
    BY DEF ReadsEachOnce, Lists!ReadsEachOnce
  <2>2. \/ Lists!ReadOnce(i)
        \/ Lists!Unread(i) /\ cursor # Lists!End
    BY <2>1 DEF Lists!ListInv, Lists!PagesStand
  <2>3. QED
    BY <2>2, TimesRead
<1>2. QED
  BY <1>1, ListsRun, PTL

\* Seven parts, one of which runs.
PartIsOne ==
  part \in {"requests", "tiers", "addresses", "images", "texts", "reviewed", "lists"}

LEMMA OnePartRuns == Spec => []PartIsOne
<1>1. Init => PartIsOne
  BY DEF Init, PartIsOne
<1>2. PartIsOne /\ [Next]_vars => PartIsOne'
  BY DEF PartIsOne, Next, vars
<1>3. QED
  BY <1>1, <1>2, PTL DEF Spec

\* Whatever has been called in whatever order, and however far each use case has
\* come, every variable of the part that runs has its type: the rows are rows, a
\* slug or a name is one of those sent, the statistics of a site are numbers.
THEOREM ContentIsTyped == Spec => []TypeOK
<1>1. RequestTheorems!NoneIsNoRow /\ TierTheorems!NoneIsNoRow
  BY Assumptions DEF SitesAndRequests!NoneIsNoRow, RequestTheorems!NoneIsNoRow,
                     SitesAndTiers!NoneIsNoRow, TierTheorems!NoneIsNoRow
<1>2. RequestTheorems!Spec => []RequestTheorems!TypeOK
  BY <1>1, NoneIsNoHandler, RequestTheorems!Typing, PTL
<1>3. TierTheorems!Spec => []TierTheorems!TypeOK
  BY <1>1, NoneIsNoHandler, TierTheorems!Typing, PTL
<1>4. Addresses!Spec => []Addresses!TypeOK
  BY Assumptions, AddressesAreTyped, PTL
<1>5. Images!Spec => []ImageInv
  BY Assumptions, ImageInvHolds, PTL
<1>6. Texts!Spec => []Texts!TypeOK
  BY Assumptions, TextsAreTyped, PTL
<1>7. Reviewed!Spec => []Reviewed!TypeOK
  BY Assumptions, ReviewedAreTyped, PTL
<1>8. Lists!ListInv => Lists!TypeOK
  <2>1. SUFFICES ASSUME Lists!ListInv PROVE Lists!TypeOK
    OBVIOUS
  <2>2. \A p \in DOMAIN pages : pages[p] \subseteq Ids
    BY <2>1 DEF Lists!ListInv
  <2>3. QED
    BY <2>1, <2>2 DEF Lists!ListInv, Lists!TypeOK
<1>9. /\ PartIsOne
      /\ ~(part = "requests") \/ RequestTheorems!TypeOK
      /\ ~(part = "tiers") \/ TierTheorems!TypeOK
      /\ ~(part = "addresses") \/ Addresses!TypeOK
      /\ ~(part = "images") \/ ImageInv
      /\ ~(part = "texts") \/ Texts!TypeOK
      /\ ~(part = "reviewed") \/ Reviewed!TypeOK
      /\ (part = "lists" => Lists!ListInv)
      => TypeOK
  BY <1>8, SameRequestTypes, SameTierTypes DEF PartIsOne, TypeOK, ImageInv
<1>10. /\ ~(part = "requests") /\ [Next]_vars => (~(part = "requests"))'
       /\ ~(part = "tiers") /\ [Next]_vars => (~(part = "tiers"))'
       /\ ~(part = "addresses") /\ [Next]_vars => (~(part = "addresses"))'
       /\ ~(part = "images") /\ [Next]_vars => (~(part = "images"))'
       /\ ~(part = "texts") /\ [Next]_vars => (~(part = "texts"))'
  BY DEF Next, vars
<1>11. QED
  BY <1>2, <1>3, <1>4, <1>5, <1>6, <1>7, <1>9, <1>10, OnePartRuns, RequestsRun, TiersRun,
     AddressesRun, ImagesRun, TextsRun, ReviewedRuns, OthersRun, ListsRun, PTL DEF Spec
=============================================================================
