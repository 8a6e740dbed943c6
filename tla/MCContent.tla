------------------------------- MODULE MCContent -------------------------------
(***************************************************************************)
(* What the site shows and to whom: the catalogue of sites, the images of   *)
(* sites, events and gifticons, what users write and what of it is          *)
(* published, the lists that are read page by page, and the addresses that  *)
(* are kept out.                                                            *)
(*                                                                          *)
(* One part runs at a time.  The catalogue is two parts: with two sites and *)
(* a request, and with one site that has a tier.                            *)
(***************************************************************************)
EXTENDS UseCases, FiniteSets, TLC

CONSTANTS Categories, Tiers, Sites, OneSite, Requests, Names, Slugs, Contains,
          Users, Everybody, Ips,
          Gifticons, PocaEvents, SiteEvents, Files, MaxBanners, Keep,
          Authors, Writs, Reviews, Reports, Ratings,
          Ids, Values, Limits, MaxEdits, MaxPages, Null

VARIABLES part,
          label, site, request,
          seen, blocked, cache, expires, tracked, broken,
          image, disk, left, spoilt,
          writ, record, staleMarks, tidy,
          review, stat, report, staleStats, agreed,
          listing, row, cursor, pages, edits, touched, reliable

catalogueVars == <<label, site, request>>
ipVars == <<seen, blocked, cache, expires, tracked, broken>>
mediaVars == <<image, disk, left, spoilt>>
writVars == <<writ, record, staleMarks, tidy>>
reviewVars == <<review, stat, report, staleStats, agreed>>
listVars == <<listing, row, cursor, pages, edits, touched, reliable>>

vars ==
  <<part, catalogueVars, ipVars, mediaVars, writVars, reviewVars, listVars, job, calm>>

\* One name contains the other.
ContainsDef == {<<"ab", "a">>}

OneName == {CHOOSE n \in Names : TRUE}

FirstAuthor == CHOOSE u \in Authors : TRUE

FirstSlug == CHOOSE x \in Slugs : TRUE

SitesAndRequests == INSTANCE Catalogue WITH Tiers <- {}
SitesAndTiers ==
  INSTANCE Catalogue WITH Names <- OneName, Sites <- OneSite, Requests <- {}
Addresses == INSTANCE BlockedIps
Images == INSTANCE Media WITH row <- image, Sites <- OneSite
Texts == INSTANCE Writings WITH stale <- staleMarks
Reviewed == INSTANCE Moderation WITH stale <- staleStats, Sites <- OneSite
Lists == INSTANCE Listings

ASSUME Assumptions ==
  /\ SitesAndRequests!NoneIsNoRow /\ SitesAndTiers!NoneIsNoRow
  /\ Addresses!EverybodyIsNoUser
  /\ Images!KeepIsNoFile /\ Images!FilesAreFinite
  /\ Lists!Numbers /\ Lists!NullIsNoNumber
  /\ Texts!WritsAreNumbers /\ Texts!NoneIsNoKind /\ Texts!NoneIsNoWrit
  /\ Reviewed!RatingsArePositive /\ Reviewed!IdsDiffer

\* A list is read of a table that tells its rows apart, see Listings!Reliable;
\* the other parts do not read it.
Init ==
  /\ part \in {"requests", "tiers", "addresses", "images", "texts", "reviewed", "lists"}
  /\ IF part = "tiers" THEN SitesAndTiers!Init ELSE SitesAndRequests!Init
  /\ Addresses!Init
  /\ Images!Init
  /\ Texts!Init
  /\ Reviewed!Init
  /\ IF part = "lists"
     THEN Lists!Init /\ reliable
     ELSE /\ listing = Null /\ row = Null /\ cursor = Null /\ pages = Null
          /\ edits = 0 /\ touched = {} /\ reliable = TRUE

Next ==
  \/ /\ part = "requests" /\ SitesAndRequests!Next
     /\ UNCHANGED <<part, ipVars, mediaVars, writVars, reviewVars, listVars>>
  \/ /\ part = "tiers" /\ SitesAndTiers!Next
     /\ UNCHANGED <<part, ipVars, mediaVars, writVars, reviewVars, listVars>>
  \/ /\ part = "addresses" /\ Addresses!Next
     /\ UNCHANGED <<part, catalogueVars, mediaVars, writVars, reviewVars, listVars>>
  \/ /\ part = "images" /\ Images!Next
     /\ UNCHANGED <<part, catalogueVars, ipVars, writVars, reviewVars, listVars>>
  \/ /\ part = "texts" /\ Texts!Next
     /\ UNCHANGED <<part, catalogueVars, ipVars, mediaVars, reviewVars, listVars>>
  \/ /\ part = "reviewed" /\ Reviewed!Next
     /\ UNCHANGED <<part, catalogueVars, ipVars, mediaVars, writVars, listVars>>
  \/ /\ part = "lists" /\ reliable /\ Lists!Next
     /\ UNCHANGED <<part, catalogueVars, ipVars, mediaVars, writVars, reviewVars, job, calm>>

Spec == Init /\ [][Next]_vars

Symmetry == Permutations(Handlers)

\* Every part runs until use cases overlap; those that overlap are brought to an
\* end, and nothing else happens.
UntilOverlap ==
  \/ part = "lists"
  \/ calm
  \/ /\ job' # job
     /\ \A h \in Handlers : Idle(h) => job'[h] = Resting

\* Images of different items have nothing to do with each other, nor have the
\* lists of different scopes, the tables of comments, reviews and reports: one
\* of them each time.  Only comments on posts are deleted with those of others,
\* and there the third is of the first author.  A category is deleted in the part
\* with tiers, where it is one label of two.
OneItem ==
  /\ part = "requests" => \A l \in Categories : label'[l] # "deleted"
  /\ part = "images" =>
       Cardinality({i \in Images!Items :
         \/ image'[i] # Images!NoRow
         \/ \E h \in Handlers : job'[h].op = "insert" /\ job'[h].item = i}) <= 1
  /\ part = "addresses" =>
       Cardinality({c \in Addresses!Scopes :
         \/ blocked'[c] # {} \/ cache'[c] # {}
         \/ \E h \in Handlers : job'[h] # Resting /\ job'[h].scope = c}) <= 1
  /\ part = "texts" =>
       \A v, w \in Texts!Written' :
         /\ writ'[v].kind = writ'[w].kind
         /\ v > 2 \/ writ'[v].author # writ'[w].author => writ'[v].kind = "post_comment"
         /\ v > 2 => writ'[v].author = FirstAuthor
  /\ part = "reviewed" =>
       \/ \A r \in Reports : report'[r] = Reviewed!NoReport
       \/ \A r \in Reviews : review'[r] = Reviewed!NoReview

\* Sites, slugs, files, reviews and authors are alike: the first of those that are
\* not there yet is the next.
NextOfAlike ==
  /\ part = "requests" =>
       /\ site'[1] = SitesAndRequests!NoRow => site'[2] = SitesAndRequests!NoRow
       /\ site[1] = SitesAndRequests!NoRow /\ site'[1] # SitesAndRequests!NoRow =>
            site'[1].slug = FirstSlug
  /\ part = "images" =>
       \A f \in disk' \ disk, g \in Images!NewFiles \ disk' : f < g
  /\ part = "texts" => writ'[1].author \in {FirstAuthor, None}
  /\ part = "reviewed" =>
       /\ review'[1].author \in {FirstAuthor, None}
       /\ review'[1] = Reviewed!NoReview => review'[2] = Reviewed!NoReview

\* Of the things that are to follow a deletion or a reply, one is lost; of files,
\* one is left behind.
OneLoss ==
  /\ part = "images" => Cardinality(left') <= 1
  /\ part = "texts" =>
       Cardinality(staleMarks') + Cardinality(Texts!AllTables \ tidy') <= 1

-----------------------------------------------------------------------------

\* Every variable of the part that runs has its type.
TypeOK ==
  CASE part = "requests" -> SitesAndRequests!TypeOK
    [] part = "tiers" -> SitesAndTiers!TypeOK
    [] part = "addresses" -> Addresses!TypeOK
    [] part = "images" -> Images!TypeOK
    [] part = "texts" -> Texts!TypeOK
    [] part = "reviewed" -> Reviewed!TypeOK
    [] part = "lists" -> Lists!TypeOK

\* As long as use cases do not overlap: sites are filed under what is not deleted
\* and have names of their own, and an approved request has its one site
\* (create-site, update-site, delete-category, delete-tier, approve-site-request).
CalmCatalogue ==
  /\ part = "requests" => SitesAndRequests!CalmCatalogue
  /\ part = "tiers" => SitesAndTiers!CalmCatalogue

\* Whatever overlaps: one site per slug, and one per request with images
\* (the slug's index, and the move of the images in approve-site-request).
MadeOnce == part = "requests" => SitesAndRequests!MadeOnce

\* The copy of a block list in Redis expires, and is the list when no change
\* of it is under way (redis.service, user.controller).
CopiesFollow == part = "addresses" => Addresses!CopiesFollow

\* Rows name files that exist, and files are named (the use cases that create
\* and update sites, site events, POCA events and gifticons).
FilesOfRows == part = "images" => Images!FilesOfRows

\* A row that stays as it is is read once by a client that reads all pages
\* (the cursor listings of the repositories).
ReadsEachOnce == part = "lists" => Lists!ReadsEachOnce

\* A post or a comment is recorded exactly as long as it is not deleted, until
\* a deletion breaks off half-way, and again when the command that mends the
\* records has run alone (delete-post, delete-comment, sync-user-comments).
OnRecord == part = "texts" => Texts!OnRecord

\* Whatever overlaps, a user has one review of a site (create-site-review).
OneReviewEach == part = "reviewed" => Reviewed!OneReviewEach

\* As long as use cases do not overlap, what is published is what was published
\* first or what an administrator saw (update-site-review, approve-site-review,
\* update-scam-report, approve-scam-report).
CalmPublished == part = "reviewed" => Reviewed!CalmPublished

\* As long as use cases do not overlap, has_child of a comment and the
\* statistics of a site are what the rows say, once they are written
\* (comment-has-child.service, recalculateSiteStatistics).
CalmDerived ==
  /\ part = "texts" => Texts!CalmHasChild
  /\ part = "reviewed" => Reviewed!CalmStatistics
=============================================================================
