--------------------------- MODULE CatalogueProofs ---------------------------
(* Theorems about Catalogue, for every value of its constants.              *)
EXTENDS Catalogue, FiniteSetTheorems, TLAPS

SlugsDiffer == \A s, t \in Known : s # t => site[s].slug # site[t].slug

CatalogueInv == TypeOK /\ JobsAreReal /\ SlugsDiffer /\ ImagesMoveOnce

-----------------------------------------------------------------------------
(* Rows and jobs *)

LEMMA NoRowIsNone == NoRow.status = "none" /\ NoRow \notin Site /\ NoRow \notin SiteRequest
<1>1. NoRow.status = "none"
  BY DEF NoRow
<1>2. \A row \in Site : row.status # "none"
  BY DEF Site
<1>3. \A row \in SiteRequest : row.status # "none"
  BY DEF SiteRequest
<1>4. QED
  BY <1>1, <1>2, <1>3

LEMMA RowsAreTyped ==
  ASSUME TypeOK
  PROVE  /\ Known \subseteq Sites
         /\ \A s \in Sites : s \in Known <=> site[s] \in Site
         /\ \A s \in Sites : Live(s) => s \in Known
         /\ \A s \in Sites : site[s].status = "deleted" => s \in Known
         /\ \A r \in Requests : request[r] # NoRow <=> request[r] \in SiteRequest
         /\ \A r \in Requests : request[r].status # "none" => request[r] # NoRow
BY NoRowIsNone DEF TypeOK, Known, Live

LEMMA BeginJob ==
  ASSUME DOMAIN job = Handlers, NEW h \in Handlers, NEW j, Begin(h, j)
  PROVE  /\ DOMAIN job' = Handlers
         /\ job[h].op = "none" /\ Idle(h)
         /\ job'[h] = j
         /\ \A g \in Handlers \ {h} : job'[g] = job[g]
         /\ calm' \in BOOLEAN
         /\ calm' => calm /\ \A g \in Handlers : Idle(g)
<1>1. job[h] = Resting /\ job[h].op = "none" /\ Idle(h)
  BY DEF Begin, Idle, Resting
<1>2. calm' => calm /\ \A g \in Handlers \ {h} : Idle(g)
  BY Zenon DEF Begin
<1>3. job' = [job EXCEPT ![h] = j] /\ calm' \in BOOLEAN
  BY DEF Begin
<1>4. QED
  BY <1>1, <1>2, <1>3

LEMMA EndJob ==
  ASSUME DOMAIN job = Handlers, NEW h \in Handlers, End(h)
  PROVE  /\ DOMAIN job' = Handlers
         /\ job'[h] = Resting /\ job'[h].op = "none"
         /\ \A g \in Handlers \ {h} : job'[g] = job[g]
         /\ calm' = calm
BY DEF End, Resting

\* Rows are never erased, so what is in progress still names them.
LEMMA JobsStayReal ==
  ASSUME JobsAreReal, DOMAIN job' = Handlers, Known \subseteq Known',
         \A r \in Requests : request[r] # NoRow => request'[r] # NoRow,
         \A g \in Handlers : \/ job'[g] = job[g]
                             \/ job'[g].op = "none"
                             \/ JobIsReal(job[g])'
  PROVE  JobsAreReal'
BY DEF JobsAreReal, JobIsReal

\* Images of requests are safe where no site of a request, and no approval of
\* one, is new.
LEMMA ImagesStay ==
  ASSUME ImagesMoveOnce,
         \A r \in Requests : /\ SitesOf(r)' \subseteq SitesOf(r)
                             /\ Approving(r)' \subseteq Approving(r),
         \A r \in Requests : request[r] # NoRow =>
           request'[r] # NoRow /\ request'[r].images = request[r].images
  PROVE  ImagesMoveOnce'
BY DEF ImagesMoveOnce

\* A handler that begins or ends something that is not an approval.
LEMMA ApprovalsStay ==
  ASSUME DOMAIN job = Handlers, DOMAIN job' = Handlers,
         \A g \in Handlers : job'[g] = job[g] \/ job'[g].op # "approve"
  PROVE  \A r \in Requests : Approving(r)' \subseteq Approving(r)
BY DEF Approving, Busy

-----------------------------------------------------------------------------
(* Checks: what begins a use case *)

LEMMA BeginStep ==
  ASSUME CatalogueInv, NEW h \in Handlers, NEW j, Begin(h, j),
         UNCHANGED <<label, site, request>>, JobIsReal(j), j.op # "approve"
  PROVE  CatalogueInv'
<1>0. /\ TypeOK /\ JobsAreReal /\ SlugsDiffer /\ ImagesMoveOnce
      /\ DOMAIN job = Handlers
  BY DEF CatalogueInv, JobsAreReal
<1>1. /\ DOMAIN job' = Handlers /\ job'[h] = j /\ calm' \in BOOLEAN
      /\ \A g \in Handlers \ {h} : job'[g] = job[g]
  BY <1>0, BeginJob
<1>2. TypeOK' /\ SlugsDiffer'
  BY <1>0, <1>1 DEF TypeOK, SlugsDiffer, Known
<1>3. JobsAreReal'
  <2>1. JobIsReal(job[h])'
    BY <1>1 DEF JobIsReal, Known
  <2>2. Known \subseteq Known'
    BY DEF Known
  <2>3. QED
    BY <1>0, <1>1, <2>1, <2>2, JobsStayReal
<1>4. ImagesMoveOnce'
  <2>1. \A r \in Requests : Approving(r)' \subseteq Approving(r)
    BY <1>0, <1>1, ApprovalsStay
  <2>2. \A r \in Requests : SitesOf(r)' = SitesOf(r)
    BY DEF SitesOf, Known
  <2>3. QED
    BY <1>0, <2>1, <2>2, ImagesStay
<1>5. QED
  BY <1>2, <1>3, <1>4 DEF CatalogueInv

\* The approval that moves the images is the first one of its request.
LEMMA ApprovalBegins ==
  ASSUME CatalogueInv, NEW h \in Handlers, NEW r \in Requests, NEW x \in Slugs,
         NEW L \in Filing, CheckApproveRequest(h, r, x, L)
  PROVE  CatalogueInv'
<1> DEFINE j == [op |-> "approve", name |-> request[r].name, slug |-> x, filing |-> L, of |-> r]
<1>0. /\ TypeOK /\ JobsAreReal /\ SlugsDiffer /\ ImagesMoveOnce
      /\ DOMAIN job = Handlers
      /\ request[r] # NoRow /\ request[r] \in SiteRequest
      /\ UNCHANGED <<label, site>>
  BY RowsAreTyped DEF CatalogueInv, JobsAreReal, CheckApproveRequest
<1>1. /\ DOMAIN job' = Handlers /\ job'[h] = j /\ calm' \in BOOLEAN /\ job[h].op = "none"
      /\ \A g \in Handlers \ {h} : job'[g] = job[g]
  BY <1>0, BeginJob DEF CheckApproveRequest
<1>2. /\ request[r].images \in {"none", "there"}
      /\ request'[r] \in SiteRequest /\ request'[r] # NoRow
      /\ request[r].images = "none" => request'[r].images = "none"
      /\ request[r].images = "there" => request'[r].images = "moved"
      /\ \A q \in Requests \ {r} : request'[q] = request[q]
      /\ request' \in [Requests -> SiteRequest \cup {NoRow}]
  <2>1. /\ request[r].images \in {"none", "there"}
        /\ request' = [request EXCEPT ![r].images =
                         IF request[r].images = "there" THEN "moved" ELSE request[r].images]
    BY <1>0 DEF CheckApproveRequest, MoveImages, SiteRequest
  <2>2. CASE request[r].images = "there"
    <3> DEFINE row == [request[r] EXCEPT !.images = "moved"]
    <3>1. row \in SiteRequest /\ row.images = "moved" /\ request' = [request EXCEPT ![r] = row]
      BY <1>0, <2>1, <2>2 DEF SiteRequest, TypeOK
    <3>2. QED
      BY <1>0, <2>2, <3>1, NoRowIsNone DEF TypeOK
  <2>3. CASE request[r].images = "none"
    <3>1. request' = request
      BY <1>0, <2>1, <2>3 DEF TypeOK, SiteRequest
    <3>2. QED
      BY <1>0, <2>3, <3>1 DEF TypeOK
  <2>4. QED
    BY <2>1, <2>2, <2>3
<1>3. TypeOK' /\ SlugsDiffer'
  BY <1>0, <1>1, <1>2 DEF TypeOK, SlugsDiffer, Known
<1>4. JobsAreReal'
  <2>1. request[r].name \in Names
    BY <1>0 DEF SiteRequest
  <2>2. JobIsReal(job[h])'
    BY <1>1, <1>2, <2>1 DEF JobIsReal
  <2>3. Known \subseteq Known'
    BY <1>0 DEF Known
  <2>4. QED
    BY <1>0, <1>1, <1>2, <2>2, <2>3, JobsStayReal
<1>5. ImagesMoveOnce'
  <2>1. \A q \in Requests : SitesOf(q)' = SitesOf(q)
    BY <1>0 DEF SitesOf, Known
  <2>2. /\ \A q \in Requests \ {r} : Approving(q)' = Approving(q)
        /\ Approving(r)' = Approving(r) \cup {h}
    BY <1>0, <1>1 DEF Approving, Busy
  <2>3. SUFFICES ASSUME NEW q \in Requests
                 PROVE  /\ SitesOf(q)' # {} \/ Approving(q)' # {} =>
                             request'[q] # NoRow /\ request'[q].images # "there"
                        /\ request'[q] # NoRow /\ request'[q].images = "moved" =>
                             /\ \A g, k \in Approving(q)' : g = k
                             /\ \A s, t \in SitesOf(q)' : s = t
                             /\ SitesOf(q)' = {} \/ Approving(q)' = {}
    BY DEF ImagesMoveOnce
  <2>4. CASE q # r
    BY <1>0, <1>2, <2>1, <2>2, <2>4 DEF ImagesMoveOnce
  <2>5. CASE q = r /\ request[r].images = "none"
    BY <1>2, <2>5
  <2>6. CASE q = r /\ request[r].images = "there"
    <3>1. SitesOf(r) = {} /\ Approving(r) = {}
      BY <1>0, <2>6 DEF ImagesMoveOnce
    <3>2. QED
      BY <1>2, <2>1, <2>2, <2>6, <3>1
  <2>7. QED
    BY <1>2, <2>4, <2>5, <2>6
<1>6. QED
  BY <1>3, <1>4, <1>5 DEF CatalogueInv

\* Every check, and what is begun after it.
Checks(h) ==
  \/ \E l \in Labels : CheckDeleteLabel(h, l)
  \/ \E n \in Names, x \in Slugs, L \in Filing : CheckCreateSite(h, n, x, L)
  \/ \E s \in Sites, n \in Names, x \in Slugs, L \in Filing : CheckUpdateSite(h, s, n, x, L)
  \/ \E n \in Names, L \in Filing : CheckCreateRequest(h, n, L)
  \/ \E r \in Requests, x \in Slugs, L \in Filing : CheckApproveRequest(h, r, x, L)
  \/ \E r \in Requests : CheckDecide(h, r, "cancelled") \/ CheckDecide(h, r, "rejected")

LEMMA CheckStep ==
  ASSUME CatalogueInv, NEW h \in Handlers, Checks(h) PROVE CatalogueInv'
<1>0. TypeOK
  BY DEF CatalogueInv
<1>1. ASSUME NEW l \in Labels, CheckDeleteLabel(h, l) PROVE CatalogueInv'
  <2> DEFINE j == [op |-> "delete", label |-> l]
  <2>1. Begin(h, j) /\ UNCHANGED <<label, site, request>>
    BY <1>1 DEF CheckDeleteLabel, Same
  <2>2. JobIsReal(j)
    BY DEF JobIsReal
  <2>3. QED
    BY <2>1, <2>2, BeginStep
<1>2. ASSUME NEW n \in Names, NEW x \in Slugs, NEW L \in Filing, CheckCreateSite(h, n, x, L)
      PROVE  CatalogueInv'
  <2> DEFINE j == [op |-> "create", name |-> n, slug |-> x, filing |-> L, of |-> None]
  <2>1. Begin(h, j) /\ UNCHANGED <<label, site, request>>
    BY <1>2 DEF CheckCreateSite, Same
  <2>2. JobIsReal(j)
    BY DEF JobIsReal
  <2>3. QED
    BY <2>1, <2>2, BeginStep
<1>3. ASSUME NEW s \in Sites, NEW n \in Names, NEW x \in Slugs, NEW L \in Filing,
             CheckUpdateSite(h, s, n, x, L)
      PROVE  CatalogueInv'
  <2> DEFINE j == [op |-> "update", site |-> s, name |-> n, slug |-> x, filing |-> L]
  <2>1. Begin(h, j) /\ UNCHANGED <<label, site, request>> /\ s \in Known
    BY <1>0, <1>3, RowsAreTyped DEF CheckUpdateSite, Same
  <2>2. JobIsReal(j)
    BY <2>1 DEF JobIsReal
  <2>3. QED
    BY <2>1, <2>2, BeginStep
<1>4. ASSUME NEW n \in Names, NEW L \in Filing, CheckCreateRequest(h, n, L)
      PROVE  CatalogueInv'
  <2>1. PICK images \in {"none", "there"} :
          /\ Begin(h, [op |-> "ask", name |-> n, filing |-> L, images |-> images])
          /\ UNCHANGED <<label, site, request>>
    BY <1>4 DEF CheckCreateRequest, Same
  <2> DEFINE j == [op |-> "ask", name |-> n, filing |-> L, images |-> images]
  <2>2. JobIsReal(j)
    BY DEF JobIsReal
  <2>3. QED
    BY <2>1, <2>2, BeginStep
<1>5. ASSUME NEW r \in Requests, NEW op \in {"cancelled", "rejected"}, CheckDecide(h, r, op)
      PROVE  CatalogueInv'
  <2> DEFINE j == [op |-> op, of |-> r]
  <2>1. Begin(h, j) /\ UNCHANGED <<label, site, request>> /\ request[r] # NoRow
    BY <1>0, <1>5, RowsAreTyped DEF CheckDecide, Same
  <2>2. JobIsReal(j)
    BY <2>1 DEF JobIsReal
  <2>3. QED
    BY <2>1, <2>2, BeginStep
<1>6. QED
  BY <1>1, <1>2, <1>3, <1>4, <1>5, ApprovalBegins DEF Checks

-----------------------------------------------------------------------------
(* Writes: statements, and what ends a use case *)

\* What a write has to leave alone, besides what it writes to one row.
LEMMA WriteStep ==
  ASSUME CatalogueInv, DOMAIN job' = Handlers,
         \A g \in Handlers : job'[g] = job[g] \/ job'[g].op = "none",
         TypeOK', SlugsDiffer', Known \subseteq Known',
         \A r \in Requests : SitesOf(r)' \subseteq SitesOf(r),
         \A r \in Requests : request[r] # NoRow =>
           request'[r] # NoRow /\ request'[r].images = request[r].images
  PROVE  CatalogueInv'
<1>0. JobsAreReal /\ ImagesMoveOnce /\ DOMAIN job = Handlers
  BY DEF CatalogueInv, JobsAreReal
<1>1. JobsAreReal'
  BY <1>0, JobsStayReal
<1>2. \A r \in Requests : Approving(r)' \subseteq Approving(r)
  BY <1>0, ApprovalsStay
<1>3. ImagesMoveOnce'
  BY <1>0, <1>2, ImagesStay
<1>4. QED
  BY <1>1, <1>3 DEF CatalogueInv

LEMMA LabelWritten ==
  ASSUME CatalogueInv, DOMAIN job' = Handlers, calm' \in BOOLEAN,
         \A g \in Handlers : job'[g] = job[g] \/ job'[g].op = "none",
         label' \in [Labels -> {"none", "live", "deleted"}], UNCHANGED <<site, request>>
  PROVE  CatalogueInv'
<1>1. TypeOK' /\ SlugsDiffer'
  BY DEF CatalogueInv, TypeOK, SlugsDiffer, Known
<1>2. Known' = Known /\ \A r \in Requests : SitesOf(r)' = SitesOf(r)
  BY DEF Known, SitesOf
<1>3. QED
  BY <1>1, <1>2, WriteStep

\* A row of sites is inserted that is of no request, or one is updated.
LEMMA SiteWritten ==
  ASSUME CatalogueInv, DOMAIN job' = Handlers, calm' \in BOOLEAN,
         \A g \in Handlers : job'[g] = job[g] \/ job'[g].op = "none",
         UNCHANGED <<label, request>>,
         NEW s \in Sites, NEW row \in Site, site' = [site EXCEPT ![s] = row],
         IF s \in Known THEN row.of = site[s].of ELSE row.of \notin Requests,
         (s \in Known /\ row.slug = site[s].slug) \/ ~SlugInTable(row.slug, s)
  PROVE  CatalogueInv'
<1>0. TypeOK /\ SlugsDiffer
  BY DEF CatalogueInv
<1>1. /\ site'[s] = row /\ row # NoRow
      /\ \A t \in Sites \ {s} : site'[t] = site[t]
      /\ site' \in [Sites -> Site \cup {NoRow}]
  BY <1>0, NoRowIsNone DEF TypeOK
<1>2. TypeOK'
  BY <1>0, <1>1 DEF TypeOK
<1>3. Known' = Known \cup {s}
  BY <1>1 DEF Known
<1>4. \A t \in Known \ {s} : site[t].slug # row.slug
  BY <1>0 DEF SlugInTable, SlugsDiffer
<1>5. SlugsDiffer'
  <2>1. SUFFICES ASSUME NEW t \in Known', NEW u \in Known', t # u
                 PROVE  site'[t].slug # site'[u].slug
    BY DEF SlugsDiffer
  <2>2. t \in Sites /\ u \in Sites
    BY DEF Known
  <2>3. QED
    BY <1>0, <1>1, <1>3, <1>4, <2>1, <2>2 DEF SlugsDiffer
<1>6. \A r \in Requests : SitesOf(r)' \subseteq SitesOf(r)
  <2>1. SUFFICES ASSUME NEW r \in Requests, NEW t \in Known', site'[t].of = r
                 PROVE  t \in Known /\ site[t].of = r
    BY DEF SitesOf
  <2>2. CASE t = s
    BY <1>1, <2>1, <2>2
  <2>3. CASE t # s
    <3>1. t \in Sites
      BY DEF Known
    <3>2. QED
      BY <1>1, <1>3, <2>1, <2>3, <3>1
  <2>4. QED
    BY <2>2, <2>3
<1>7. QED
  BY <1>2, <1>3, <1>5, <1>6, WriteStep

LEMMA RequestWritten ==
  ASSUME CatalogueInv, DOMAIN job' = Handlers, calm' \in BOOLEAN,
         \A g \in Handlers : job'[g] = job[g] \/ job'[g].op = "none",
         UNCHANGED <<label, site>>,
         NEW r \in Requests, NEW row \in SiteRequest, request' = [request EXCEPT ![r] = row],
         request[r] # NoRow => row.images = request[r].images
  PROVE  CatalogueInv'
<1>0. TypeOK /\ SlugsDiffer
  BY DEF CatalogueInv
<1>1. /\ request'[r] = row /\ row # NoRow
      /\ \A q \in Requests \ {r} : request'[q] = request[q]
  BY <1>0, NoRowIsNone DEF TypeOK
<1>2. TypeOK' /\ SlugsDiffer'
  BY <1>0 DEF TypeOK, SlugsDiffer, Known
<1>3. Known' = Known /\ \A q \in Requests : SitesOf(q)' = SitesOf(q)
  BY DEF Known, SitesOf
<1>4. QED
  BY <1>1, <1>2, <1>3, WriteStep

LEMMA CreateStep ==
  ASSUME NoneIsNoRow, CatalogueInv, NEW h \in Handlers, NEW s \in Sites, CreateSite(h, s)
  PROVE  CatalogueInv'
<1> DEFINE j == job[h]
<1> DEFINE row == [status |-> "live", name |-> j.name, slug |-> j.slug,
                   filing |-> j.filing, of |-> j.of, checked |-> TRUE]
<1>0. /\ JobsAreReal /\ DOMAIN job = Handlers /\ TypeOK
      /\ calm \in BOOLEAN
  BY DEF CatalogueInv, JobsAreReal, TypeOK
<1>1. /\ DOMAIN job' = Handlers /\ calm' \in BOOLEAN
      /\ \A g \in Handlers : job'[g] = job[g] \/ job'[g].op = "none"
  BY <1>0, EndJob DEF CreateSite
<1>2. /\ j.name \in Names /\ j.slug \in Slugs /\ j.filing \in Filing /\ j.of = None
      /\ s \notin Known /\ ~SlugInTable(j.slug, s)
      /\ UNCHANGED <<label, request>> /\ site' = [site EXCEPT ![s] = row]
  BY <1>0 DEF CreateSite, At, JobsAreReal, JobIsReal, Known, Inserted
<1>3. row \in Site /\ row.of \notin Requests /\ row.slug = j.slug
  BY <1>2 DEF Site, NoneIsNoRow
<1> HIDE DEF row
<1>4. QED
  BY <1>1, <1>2, <1>3, SiteWritten

LEMMA UpdateStep ==
  ASSUME CatalogueInv, NEW h \in Handlers, UpdateSite(h) PROVE CatalogueInv'
<1> DEFINE j == job[h]
<1> DEFINE row == [site[j.site] EXCEPT !.name = j.name, !.slug = j.slug, !.filing = j.filing]
<1>0. /\ JobsAreReal /\ DOMAIN job = Handlers /\ TypeOK
      /\ calm \in BOOLEAN
  BY DEF CatalogueInv, JobsAreReal, TypeOK
<1>1. /\ DOMAIN job' = Handlers /\ calm' \in BOOLEAN
      /\ \A g \in Handlers : job'[g] = job[g] \/ job'[g].op = "none"
  BY <1>0, EndJob DEF UpdateSite
<1>2. /\ j.name \in Names /\ j.slug \in Slugs /\ j.filing \in Filing /\ j.site \in Known
      /\ j.site \in Sites /\ site[j.site] \in Site
      /\ ~SlugInTable(j.slug, j.site) /\ UNCHANGED <<label, request>>
  BY <1>0, RowsAreTyped DEF UpdateSite, At, JobsAreReal, JobIsReal
<1>3. row \in Site /\ row.of = site[j.site].of /\ row.slug = j.slug
  BY <1>2 DEF Site
<1>4. site' = [site EXCEPT ![j.site] = row]
  BY <1>0, <1>2 DEF UpdateSite, TypeOK
<1> HIDE DEF row
<1>5. QED
  BY <1>1, <1>2, <1>3, <1>4, SiteWritten

\* The approval that made the images move makes the site, and is over.
LEMMA ApproveStep ==
  ASSUME CatalogueInv, NEW h \in Handlers, NEW s \in Sites, ApproveSiteRequest(h, s)
  PROVE  CatalogueInv'
<1> DEFINE j == job[h]
<1> DEFINE r == job[h].of
<1> DEFINE row == [status |-> "live", name |-> j.name, slug |-> j.slug,
                   filing |-> j.filing, of |-> j.of, checked |-> FALSE]
<1> DEFINE entry == [request[r] EXCEPT !.status = "approved", !.slug = j.slug]
<1>0. /\ JobsAreReal /\ DOMAIN job = Handlers /\ TypeOK /\ SlugsDiffer /\ ImagesMoveOnce
      /\ calm \in BOOLEAN
  BY DEF CatalogueInv, JobsAreReal, TypeOK
<1>1. /\ DOMAIN job' = Handlers /\ calm' \in BOOLEAN
      /\ job'[h].op = "none" /\ \A g \in Handlers \ {h} : job'[g] = job[g]
  BY <1>0, EndJob DEF ApproveSiteRequest
<1>2. /\ j.name \in Names /\ j.slug \in Slugs /\ j.filing \in Filing
      /\ r \in Requests /\ request[r] # NoRow /\ request[r] \in SiteRequest
      /\ s \notin Known /\ ~SlugInTable(j.slug, s) /\ h \in Approving(r)
      /\ UNCHANGED label /\ site' = [site EXCEPT ![s] = row]
  BY <1>0, RowsAreTyped
  DEF ApproveSiteRequest, At, JobsAreReal, JobIsReal, Known, Inserted, Approving, Busy
<1>3. /\ row \in Site /\ row.of = r /\ row.slug = j.slug /\ row # NoRow
      /\ entry \in SiteRequest /\ entry # NoRow /\ entry.images = request[r].images
  <2>1. row \in Site /\ row.of = r /\ row.slug = j.slug
    BY <1>2 DEF Site
  <2>2. entry \in SiteRequest /\ entry.images = request[r].images
    BY <1>2 DEF SiteRequest
  <2>3. QED
    BY <2>1, <2>2, NoRowIsNone
<1>4. request' = [request EXCEPT ![r] = entry]
  BY <1>0, <1>2 DEF ApproveSiteRequest, TypeOK
<1> HIDE DEF row, entry
<1>5. /\ site'[s] = row /\ \A t \in Sites \ {s} : site'[t] = site[t]
      /\ request'[r] = entry /\ \A q \in Requests \ {r} : request'[q] = request[q]
      /\ Known' = Known \cup {s}
  BY <1>0, <1>2, <1>3, <1>4 DEF TypeOK, Known
<1>6. TypeOK'
  BY <1>0, <1>1, <1>2, <1>3, <1>4 DEF TypeOK
<1>7. SlugsDiffer'
  <2>1. \A t \in Known : site[t].slug # j.slug /\ t \in Sites /\ t # s
    BY <1>2 DEF SlugInTable, Known
  <2>2. QED
    BY <1>0, <1>3, <1>5, <2>1 DEF SlugsDiffer
<1>8. JobsAreReal'
  <2>1. Known \subseteq Known'
    BY <1>5
  <2>2. QED
    BY <1>0, <1>1, <1>3, <1>5, <2>1, JobsStayReal
<1>9. ImagesMoveOnce'
  <2>1. \A q : SitesOf(q)' = SitesOf(q) \cup {t \in {s} : r = q}
    <3>1. /\ \A t \in Known : site'[t].of = site[t].of
          /\ s \in Known' /\ site'[s].of = r
      BY <1>2, <1>3, <1>5 DEF Known
    <3>2. QED
      BY <1>5, <3>1 DEF SitesOf
  <2>2. \A q : Approving(q)' \subseteq Approving(q) \ {h}
    BY <1>0, <1>1 DEF Approving, Busy
  <2>3. request[r].images = "moved" => Approving(r) = {h} /\ SitesOf(r) = {}
    BY <1>0, <1>2 DEF ImagesMoveOnce
  <2>4. request[r].images # "there"
    BY <1>0, <1>2 DEF ImagesMoveOnce
  <2>5. SUFFICES ASSUME NEW q \in Requests
                 PROVE  /\ SitesOf(q)' # {} \/ Approving(q)' # {} =>
                             request'[q] # NoRow /\ request'[q].images # "there"
                        /\ request'[q] # NoRow /\ request'[q].images = "moved" =>
                             /\ \A g, k \in Approving(q)' : g = k
                             /\ \A t, u \in SitesOf(q)' : t = u
                             /\ SitesOf(q)' = {} \/ Approving(q)' = {}
    BY DEF ImagesMoveOnce
  <2>6. CASE q # r
    BY <1>0, <1>5, <2>1, <2>2, <2>6 DEF ImagesMoveOnce
  <2>7. CASE q = r
    <3>1. request'[q].images = request[r].images /\ request'[q] # NoRow
      BY <1>3, <1>5, <2>7
    <3>2. request[r].images = "moved" => Approving(q)' = {} /\ SitesOf(q)' = {s}
      BY <1>1, <2>1, <2>2, <2>3, <2>7
    <3>3. QED
      BY <2>4, <3>1, <3>2
  <2>8. QED
    BY <2>6, <2>7
<1>10. QED
  BY <1>6, <1>7, <1>8, <1>9 DEF CatalogueInv

LEMMA FinishStep ==
  ASSUME NoneIsNoRow, CatalogueInv, NEW h \in Handlers, Finish(h) PROVE CatalogueInv'
<1>0. JobsAreReal /\ DOMAIN job = Handlers /\ TypeOK /\ calm \in BOOLEAN
  BY DEF CatalogueInv, JobsAreReal, TypeOK
<1>1. ASSUME End(h)
      PROVE  /\ DOMAIN job' = Handlers /\ calm' \in BOOLEAN
             /\ \A g \in Handlers : job'[g] = job[g] \/ job'[g].op = "none"
  BY <1>0, <1>1, EndJob
<1>2. CASE DeleteLabel(h)
  <2>1. /\ label' \in [Labels -> {"none", "live", "deleted"}]
        /\ UNCHANGED <<site, request>> /\ End(h)
    BY <1>0, <1>2 DEF DeleteLabel, TypeOK
  <2>2. QED
    BY <1>1, <2>1, LabelWritten
<1>3. CASE Fail(h)
  <2>1. /\ label' \in [Labels -> {"none", "live", "deleted"}]
        /\ UNCHANGED <<site, request>> /\ End(h)
    BY <1>0, <1>3 DEF Fail, Same, TypeOK
  <2>2. QED
    BY <1>1, <2>1, LabelWritten
<1>4. ASSUME NEW r \in Requests, CreateSiteRequest(h, r) PROVE CatalogueInv'
  <2> DEFINE row == [status |-> "pending", name |-> job[h].name, slug |-> None,
                     filing |-> job[h].filing, images |-> job[h].images]
  <2>1. row \in SiteRequest
    BY <1>0, <1>4 DEF CreateSiteRequest, At, JobsAreReal, JobIsReal, SiteRequest
  <2>2. request[r] = NoRow /\ request' = [request EXCEPT ![r] = row]
        /\ UNCHANGED <<label, site>> /\ End(h)
    BY <1>4 DEF CreateSiteRequest
  <2> HIDE DEF row
  <2>3. QED
    BY <1>1, <2>1, <2>2, RequestWritten
<1>5. ASSUME NEW op \in {"rejected", "cancelled"}, Decide(h, op) PROVE CatalogueInv'
  <2> DEFINE r == job[h].of
  <2> DEFINE row == [request[r] EXCEPT !.status = op]
  <2>1. r \in Requests /\ request[r] \in SiteRequest
    BY <1>0, <1>5, RowsAreTyped DEF Decide, At, JobsAreReal, JobIsReal
  <2>2. row \in SiteRequest /\ row.images = request[r].images
    BY <2>1 DEF SiteRequest
  <2>3. request' = [request EXCEPT ![r] = row] /\ UNCHANGED <<label, site>> /\ End(h)
    BY <1>0, <1>5, <2>1 DEF Decide, TypeOK
  <2> HIDE DEF row
  <2>4. QED
    BY <1>1, <2>1, <2>2, <2>3, RequestWritten
<1>6. QED
  BY <1>2, <1>3, <1>4, <1>5, CreateStep, UpdateStep, ApproveStep
  DEF Finish, RejectSiteRequest, CancelSiteRequest

\* A statement that is a use case of its own.
Statements ==
  \/ \E l \in Labels : CreateLabel(l) \/ RestoreLabel(l)
  \/ \E s \in Sites : DeleteSite(s) \/ RestoreSite(s)

LEMMA StatementStep == ASSUME CatalogueInv, Statements PROVE CatalogueInv'
<1>0. /\ TypeOK /\ DOMAIN job = Handlers
      /\ UNCHANGED job /\ calm' \in BOOLEAN
  BY DEF CatalogueInv, JobsAreReal, Statements, CreateLabel, RestoreLabel, DeleteSite,
         RestoreSite, AtOnce
<1>1. ASSUME NEW l \in Labels, CreateLabel(l) \/ RestoreLabel(l) PROVE CatalogueInv'
  <2>1. /\ label' \in [Labels -> {"none", "live", "deleted"}]
        /\ UNCHANGED <<site, request>>
    BY <1>0, <1>1 DEF CreateLabel, RestoreLabel, TypeOK
  <2>2. QED
    BY <1>0, <2>1, LabelWritten
<1>2. ASSUME NEW s \in Sites, DeleteSite(s) PROVE CatalogueInv'
  <2> DEFINE row == [site[s] EXCEPT !.status = "deleted"]
  <2>1. s \in Known /\ site[s] \in Site
    BY <1>0, <1>2, RowsAreTyped DEF DeleteSite
  <2>2. row \in Site /\ row.of = site[s].of /\ row.slug = site[s].slug
    BY <2>1 DEF Site
  <2>3. site' = [site EXCEPT ![s] = row] /\ UNCHANGED <<label, request>>
    BY <1>0, <1>2 DEF DeleteSite, TypeOK
  <2> HIDE DEF row
  <2>4. QED
    BY <1>0, <2>1, <2>2, <2>3, SiteWritten
<1>3. ASSUME NEW s \in Sites, RestoreSite(s) PROVE CatalogueInv'
  <2> DEFINE row == [site[s] EXCEPT !.status = "live", !.checked = FALSE]
  <2>1. s \in Known /\ site[s] \in Site
    BY <1>0, <1>3, RowsAreTyped DEF RestoreSite
  <2>2. row \in Site /\ row.of = site[s].of /\ row.slug = site[s].slug
    BY <2>1 DEF Site
  <2>3. site' = [site EXCEPT ![s] = row] /\ UNCHANGED <<label, request>>
    BY <1>0, <1>3 DEF RestoreSite, TypeOK
  <2> HIDE DEF row
  <2>4. QED
    BY <1>0, <2>1, <2>2, <2>3, SiteWritten
<1>4. QED
  BY <1>1, <1>2, <1>3 DEF Statements

LEMMA NextCases ==
  ASSUME Next PROVE Statements \/ \E h \in Handlers : Checks(h) \/ Finish(h)
BY DEF Next, Statements, Checks, CategoryController, TierController, CreateRoutes,
       SiteController, SiteRequestController, AdminSiteRequestController,
       DeleteCategory, DeleteTier, Labels

LEMMA CatalogueInit == ASSUME Init PROVE CatalogueInv
<1>1. \A h \in Handlers : job[h].op = "none"
  BY DEF Init, NoJobs, Resting
<1>2. Known = {} /\ \A r \in Requests : request[r] = NoRow
  BY DEF Init, Known
<1>3. TypeOK
  BY DEF Init, TypeOK, NoJobs
<1>4. JobsAreReal
  BY <1>1 DEF JobsAreReal, JobIsReal, Init, NoJobs
<1>5. SlugsDiffer /\ ImagesMoveOnce
  BY <1>1, <1>2 DEF SlugsDiffer, ImagesMoveOnce, SitesOf, Approving, Busy
<1>6. QED
  BY <1>3, <1>4, <1>5 DEF CatalogueInv

LEMMA CatalogueInvHolds == ASSUME NoneIsNoRow PROVE Spec => []CatalogueInv
<1>1. CatalogueInv /\ [Next]_vars => CatalogueInv'
  <2>1. CASE Next
    BY <2>1, NextCases, CheckStep, FinishStep, StatementStep
  <2>2. ASSUME CatalogueInv, UNCHANGED vars PROVE CatalogueInv'
    <3>1. /\ DOMAIN job' = Handlers /\ calm' \in BOOLEAN /\ UNCHANGED <<site, request, job>>
          /\ label' \in [Labels -> {"none", "live", "deleted"}]
      BY <2>2 DEF CatalogueInv, JobsAreReal, TypeOK, vars
    <3>2. QED
      BY <2>2, <3>1, LabelWritten
  <2>3. QED
    BY <2>1, <2>2
<1>2. QED
  BY <1>1, CatalogueInit, PTL DEF Spec

\* Every variable has its type.
THEOREM Typing == ASSUME NoneIsNoRow PROVE Spec => []TypeOK
BY CatalogueInvHolds, PTL DEF CatalogueInv

\* Whatever overlaps: no two sites have one slug, the deleted ones counted, and no
\* two were made of one request with images (create-site, update-site,
\* approve-site-request).
THEOREM SitesAreMadeOnce == ASSUME NoneIsNoRow PROVE Spec => []MadeOnce
<1>1. ASSUME CatalogueInv PROVE MadeOnce
  <2>1. SUFFICES ASSUME NEW s \in Known, NEW t \in Known, s # t,
                        site[s].of \in Requests, site[s].of = site[t].of
                 PROVE  request[site[s].of].images = "none"
    BY <1>1 DEF MadeOnce, CatalogueInv, SlugsDiffer
  <2> DEFINE r == site[s].of
  <2>2. {s, t} \subseteq SitesOf(r)
    BY <2>1 DEF SitesOf
  <2>3. request[r] # NoRow /\ request[r].images \notin {"there", "moved"}
    BY <1>1, <2>1, <2>2 DEF CatalogueInv, ImagesMoveOnce
  <2>4. request[r] \in SiteRequest
    BY <1>1, <2>1, <2>3, RowsAreTyped DEF CatalogueInv
  <2>5. QED
    BY <2>3, <2>4 DEF SiteRequest
<1>2. QED
  BY <1>1, CatalogueInvHolds, PTL

-----------------------------------------------------------------------------
(* As long as use cases do not overlap                                      *)

FiledUnderLive ==
  \A s \in Sites : Live(s) /\ site[s].checked => site[s].filing \subseteq LiveLabels

NamesDiffer ==
  \A s, t \in Sites :
    Live(s) /\ Live(t) /\ s # t /\ site[s].checked /\ site[t].checked
    => site[s].name # site[t].name

ApprovedHaveOne ==
  \A r \in Requests : IF request[r].status = "approved" THEN \E s : SitesOf(r) = {s}
                                                         ELSE SitesOf(r) = {}

CalmInv == ChecksStand /\ (calm => FiledUnderLive /\ NamesDiffer /\ ApprovedHaveOne)

\* When nothing is in progress there is no check to stand.
LEMMA RestStands ==
  ASSUME \A g \in Handlers : job'[g] = Resting PROVE ChecksStand'
<1>1. \A g \in Handlers : job'[g].op = "none"
  BY DEF Resting
<1>2. QED
  BY <1>1 DEF ChecksStand, CheckStands, Idle

\* What ends was alone, and what it had checked is so.
LEMMA EndedAlone ==
  ASSUME CatalogueInv, CalmInv, NEW h \in Handlers, ~Idle(h), End(h)
  PROVE  /\ ChecksStand' /\ calm' = calm
         /\ calm => CheckStands(job[h]) /\ FiledUnderLive /\ NamesDiffer /\ ApprovedHaveOne
<1>1. DOMAIN job = Handlers
  BY DEF CatalogueInv, JobsAreReal
<1>2. /\ job'[h] = Resting /\ \A g \in Handlers \ {h} : job'[g] = job[g]
      /\ calm' = calm
  BY <1>1, EndJob
<1>3. CASE calm
  <2>1. \A g \in Handlers : job'[g] = Resting
    BY <1>2, <1>3 DEF CalmInv, ChecksStand, Idle
  <2>2. QED
    BY <1>2, <1>3, <2>1, RestStands DEF CalmInv, ChecksStand
<1>4. CASE ~calm
  BY <1>2, <1>4 DEF ChecksStand
<1>5. QED
  BY <1>3, <1>4

\* A statement is alone too.
LEMMA AtOnceAlone ==
  ASSUME CalmInv, AtOnce
  PROVE  /\ ChecksStand'
         /\ calm' => calm /\ FiledUnderLive /\ NamesDiffer /\ ApprovedHaveOne
<1>1. job' = job /\ (calm' => calm /\ \A g \in Handlers : Idle(g))
  BY DEF AtOnce
<1>2. CASE calm'
  <2>1. \A g \in Handlers : job'[g] = Resting
    BY <1>1, <1>2 DEF Idle
  <2>2. QED
    BY <1>1, <1>2, <2>1, RestStands DEF CalmInv
<1>3. CASE ~calm'
  BY <1>3 DEF ChecksStand
<1>4. QED
  BY <1>2, <1>3

\* A check begins a use case for which it stands.
LEMMA BeginsAlone ==
  ASSUME CatalogueInv, CalmInv, NEW h \in Handlers, NEW j, Begin(h, j),
         UNCHANGED <<label, site>>, CheckStands(j),
         \A r \in Requests : request'[r].status = request[r].status,
         j.op \in {"delete", "create", "update", "ask", "approve", "rejected", "cancelled"},
         j.op \in {"approve", "rejected", "cancelled"} => j.of \in Requests
  PROVE  CalmInv'
<1>1. DOMAIN job = Handlers
  BY DEF CatalogueInv, JobsAreReal
<1>2. /\ job'[h] = j /\ \A g \in Handlers \ {h} : job'[g] = job[g]
      /\ calm' => calm /\ \A g \in Handlers : Idle(g)
  BY <1>1, BeginJob
<1>3. SUFFICES ASSUME calm' PROVE CalmInv'
  BY DEF CalmInv, ChecksStand
<1>4. calm /\ \A g \in Handlers \ {h} : job'[g] = Resting
  BY <1>2, <1>3 DEF Idle
<1>5. FiledUnderLive' /\ NamesDiffer' /\ ApprovedHaveOne'
  <2>1. FiledUnderLive /\ NamesDiffer /\ ApprovedHaveOne
    BY <1>4 DEF CalmInv
  <2>2. \A r : SitesOf(r)' = SitesOf(r)
    BY DEF SitesOf, Known
  <2>3. FiledUnderLive' /\ NamesDiffer'
    BY <2>1 DEF FiledUnderLive, NamesDiffer, Live, LiveLabels
  <2>4. ApprovedHaveOne'
    BY <2>1, <2>2 DEF ApprovedHaveOne
  <2>5. QED
    BY <2>3, <2>4
<1>6. ChecksStand'
  <2>1. CheckStands(job[h])'
    BY <1>2 DEF CheckStands, InUse, NameTaken, Live, LiveLabels
  <2>2. \A g \in Handlers \ {h} : CheckStands(job[g])'
    BY <1>4 DEF CheckStands, Resting
  <2>3. QED
    BY <1>4, <2>1, <2>2 DEF ChecksStand, Idle
<1>7. QED
  BY <1>5, <1>6 DEF CalmInv

LEMMA CalmCheck ==
  ASSUME CatalogueInv, CalmInv, NEW h \in Handlers, Checks(h) PROVE CalmInv'
<1>0. TypeOK
  BY DEF CatalogueInv
<1>1. ASSUME NEW l \in Labels, CheckDeleteLabel(h, l) PROVE CalmInv'
  <2> DEFINE j == [op |-> "delete", label |-> l]
  <2>1. Begin(h, j) /\ UNCHANGED <<label, site, request>>
    BY <1>1 DEF CheckDeleteLabel, Same
  <2>2. CheckStands(j)
    BY <1>1 DEF CheckDeleteLabel, CheckStands
  <2>3. QED
    BY <2>1, <2>2, BeginsAlone
<1>2. ASSUME NEW n \in Names, NEW x \in Slugs, NEW L \in Filing, CheckCreateSite(h, n, x, L)
      PROVE  CalmInv'
  <2> DEFINE j == [op |-> "create", name |-> n, slug |-> x, filing |-> L, of |-> None]
  <2>1. Begin(h, j) /\ UNCHANGED <<label, site, request>>
    BY <1>2 DEF CheckCreateSite, Same
  <2>2. CheckStands(j)
    BY <1>2 DEF CheckCreateSite, CheckStands
  <2>3. QED
    BY <2>1, <2>2, BeginsAlone
<1>3. ASSUME NEW s \in Sites, NEW n \in Names, NEW x \in Slugs, NEW L \in Filing,
             CheckUpdateSite(h, s, n, x, L)
      PROVE  CalmInv'
  <2> DEFINE j == [op |-> "update", site |-> s, name |-> n, slug |-> x, filing |-> L]
  <2>1. Begin(h, j) /\ UNCHANGED <<label, site, request>>
    BY <1>3 DEF CheckUpdateSite, Same
  <2>2. CheckStands(j)
    BY <1>3 DEF CheckUpdateSite, CheckStands
  <2>3. QED
    BY <2>1, <2>2, BeginsAlone
<1>4. ASSUME NEW n \in Names, NEW L \in Filing, CheckCreateRequest(h, n, L)
      PROVE  CalmInv'
  <2>1. PICK images \in {"none", "there"} :
          /\ Begin(h, [op |-> "ask", name |-> n, filing |-> L, images |-> images])
          /\ UNCHANGED <<label, site, request>>
    BY <1>4 DEF CheckCreateRequest, Same
  <2> DEFINE j == [op |-> "ask", name |-> n, filing |-> L, images |-> images]
  <2>2. CheckStands(j)
    BY DEF CheckStands
  <2>3. QED
    BY <2>1, <2>2, BeginsAlone
<1>5. ASSUME NEW r \in Requests, NEW op \in {"cancelled", "rejected"}, CheckDecide(h, r, op)
      PROVE  CalmInv'
  <2> DEFINE j == [op |-> op, of |-> r]
  <2>1. Begin(h, j) /\ UNCHANGED <<label, site, request>>
    BY <1>5 DEF CheckDecide, Same
  <2>2. CheckStands(j)
    BY <1>5 DEF CheckDecide, CheckStands
  <2>3. QED
    BY <2>1, <2>2, BeginsAlone
<1>6. ASSUME NEW r \in Requests, NEW x \in Slugs, NEW L \in Filing,
             CheckApproveRequest(h, r, x, L)
      PROVE  CalmInv'
  <2> DEFINE j == [op |-> "approve", name |-> request[r].name, slug |-> x, filing |-> L,
                   of |-> r]
  <2>1. Begin(h, j) /\ UNCHANGED <<label, site>> /\ CheckStands(j)
    BY <1>6 DEF CheckApproveRequest, CheckStands
  <2>2. \A q \in Requests : request'[q].status = request[q].status
    <3>1. request[r] \in SiteRequest
      BY <1>0, <1>6, RowsAreTyped DEF CheckApproveRequest
    <3>2. PICK images : request' = [request EXCEPT ![r].images = images]
      BY <1>6 DEF CheckApproveRequest, MoveImages
    <3>3. QED
      BY <1>0, <3>1, <3>2 DEF TypeOK, SiteRequest
  <2>3. QED
    BY <2>1, <2>2, BeginsAlone
<1>7. QED
  BY <1>1, <1>2, <1>3, <1>4, <1>5, <1>6 DEF Checks

\* A site is written whose filing and name agree with what is there, unless it is
\* deleted or came from a request or from the trash.
LEMMA FiledAndNamed ==
  ASSUME CatalogueInv, FiledUnderLive, NamesDiffer, UNCHANGED label,
         NEW s \in Sites, NEW row \in Site, site' = [site EXCEPT ![s] = row],
         row.status = "live" /\ row.checked =>
           /\ row.filing \subseteq LiveLabels
           /\ \A t \in Sites \ {s} : Live(t) /\ site[t].checked => site[t].name # row.name
  PROVE  FiledUnderLive' /\ NamesDiffer'
<1>1. site'[s] = row /\ \A t \in Sites \ {s} : site'[t] = site[t]
  BY DEF CatalogueInv, TypeOK
<1>2. FiledUnderLive'
  BY <1>1 DEF FiledUnderLive, Live, LiveLabels
<1>3. NamesDiffer'
  BY <1>1 DEF NamesDiffer, Live
<1>4. QED
  BY <1>2, <1>3

\* Where no site of a request is new, and none is approved or no longer approved.
LEMMA ApprovedStay ==
  ASSUME ApprovedHaveOne, \A r \in Requests : SitesOf(r)' = SitesOf(r),
         \A r \in Requests : request'[r].status = "approved" <=> request[r].status = "approved"
  PROVE  ApprovedHaveOne'
BY DEF ApprovedHaveOne

LEMMA SitesOfStay ==
  ASSUME TypeOK, NEW s \in Sites, NEW row \in Site, site' = [site EXCEPT ![s] = row],
         IF s \in Known THEN row.of = site[s].of ELSE row.of \notin Requests
  PROVE  \A r \in Requests : SitesOf(r)' = SitesOf(r)
<1>1. site'[s] = row /\ row # NoRow /\ \A t \in Sites \ {s} : site'[t] = site[t]
  BY NoRowIsNone DEF TypeOK
<1>2. \A t : t \in Known' <=> t \in Known \/ t = s
  BY <1>1 DEF Known
<1>3. \A t \in Known : t \in Sites
  BY DEF Known
<1>4. SUFFICES ASSUME NEW r \in Requests
               PROVE  \A t : t \in Known' /\ site'[t].of = r <=> t \in Known /\ site[t].of = r
  BY DEF SitesOf
<1>5. QED
  BY <1>1, <1>2, <1>3

\* What a write has to show, once what ends is known to have been alone.
Agrees == FiledUnderLive' /\ NamesDiffer' /\ ApprovedHaveOne'

LEMMA CalmLabels ==
  ASSUME CatalogueInv, CalmInv, NEW h \in Handlers, calm, DeleteLabel(h) PROVE Agrees
<1> DEFINE l == job[h].label
<1>1. ~Idle(h) /\ End(h) /\ UNCHANGED <<site, request>>
  BY DEF DeleteLabel, At, Idle, Resting
<1>2. FiledUnderLive /\ NamesDiffer /\ ApprovedHaveOne /\ ~InUse(l)
  BY <1>1, EndedAlone DEF DeleteLabel, At, CheckStands
<1>3. \A m \in LiveLabels \ {l} : m \in LiveLabels'
  BY DEF DeleteLabel, LiveLabels, CatalogueInv, TypeOK
<1>4. FiledUnderLive'
  BY <1>1, <1>2, <1>3 DEF FiledUnderLive, InUse, Live
<1>5. NamesDiffer' /\ ApprovedHaveOne'
  BY <1>1, <1>2 DEF NamesDiffer, ApprovedHaveOne, Live, SitesOf, Known
<1>6. QED
  BY <1>4, <1>5 DEF Agrees

LEMMA CalmCreate ==
  ASSUME NoneIsNoRow, CatalogueInv, CalmInv, NEW h \in Handlers, calm,
         NEW s \in Sites, CreateSite(h, s)
  PROVE  Agrees
<1> DEFINE j == job[h]
<1> DEFINE row == [status |-> "live", name |-> j.name, slug |-> j.slug,
                   filing |-> j.filing, of |-> j.of, checked |-> TRUE]
<1>1. ~Idle(h) /\ End(h) /\ UNCHANGED <<label, request>> /\ j.op = "create"
  BY DEF CreateSite, At, Idle, Resting
<1>2. /\ FiledUnderLive /\ NamesDiffer /\ ApprovedHaveOne
      /\ j.filing \subseteq LiveLabels /\ ~NameTaken(j.name, None)
  BY <1>1, EndedAlone DEF CheckStands
<1>3. /\ j.name \in Names /\ j.slug \in Slugs /\ j.filing \in Filing /\ j.of = None
      /\ s \notin Known /\ TypeOK /\ site' = [site EXCEPT ![s] = row]
  BY <1>1 DEF CreateSite, CatalogueInv, JobsAreReal, JobIsReal, Known, Inserted
<1>4. /\ row \in Site /\ row.of \notin Requests
      /\ row.filing = j.filing /\ row.name = j.name
  BY <1>3 DEF Site, NoneIsNoRow
<1> HIDE DEF row
<1>5. FiledUnderLive' /\ NamesDiffer'
  <2>1. \A t \in Sites \ {s} : Live(t) => site[t].name # row.name
    BY <1>2, <1>4 DEF NameTaken, NoneIsNoRow
  <2>2. QED
    BY <1>1, <1>2, <1>3, <1>4, <2>1, FiledAndNamed
<1>6. ApprovedHaveOne'
  BY <1>1, <1>2, <1>3, <1>4, SitesOfStay, ApprovedStay
<1>7. QED
  BY <1>5, <1>6 DEF Agrees

LEMMA CalmUpdate ==
  ASSUME CatalogueInv, CalmInv, NEW h \in Handlers, calm, UpdateSite(h) PROVE Agrees
<1> DEFINE j == job[h]
<1> DEFINE s == job[h].site
<1> DEFINE row == [site[s] EXCEPT !.name = j.name, !.slug = j.slug, !.filing = j.filing]
<1>1. ~Idle(h) /\ End(h) /\ UNCHANGED <<label, request>> /\ j.op = "update"
  BY DEF UpdateSite, At, Idle, Resting
<1>2. /\ FiledUnderLive /\ NamesDiffer /\ ApprovedHaveOne
      /\ Live(s) /\ j.filing \ site[s].filing \subseteq LiveLabels
      /\ j.name # site[s].name => ~NameTaken(j.name, s)
  BY <1>1, EndedAlone DEF CheckStands
<1>3. /\ j.name \in Names /\ j.slug \in Slugs /\ j.filing \in Filing
      /\ s \in Known /\ TypeOK
  BY <1>1 DEF CatalogueInv, JobsAreReal, JobIsReal
<1>4. s \in Sites /\ site[s] \in Site
  BY <1>3, RowsAreTyped
<1>5. /\ row \in Site /\ row.of = site[s].of /\ row.checked = site[s].checked
      /\ row.filing = j.filing /\ row.name = j.name
  BY <1>3, <1>4 DEF Site
<1>6. site' = [site EXCEPT ![s] = row]
  BY <1>3, <1>4 DEF UpdateSite, TypeOK
<1> HIDE DEF row
<1>7. FiledUnderLive' /\ NamesDiffer'
  <2>1. ASSUME row.checked
        PROVE  /\ row.filing \subseteq LiveLabels
               /\ \A t \in Sites \ {s} : Live(t) /\ site[t].checked => site[t].name # row.name
    BY <1>2, <1>4, <1>5, <2>1 DEF FiledUnderLive, NamesDiffer, NameTaken
  <2>2. QED
    BY <1>1, <1>2, <1>4, <1>5, <1>6, <2>1, FiledAndNamed
<1>8. ApprovedHaveOne'
  BY <1>1, <1>2, <1>3, <1>4, <1>5, <1>6, SitesOfStay, ApprovedStay
<1>9. QED
  BY <1>7, <1>8 DEF Agrees

LEMMA CalmApprove ==
  ASSUME CatalogueInv, CalmInv, NEW h \in Handlers, calm, NEW s \in Sites,
         ApproveSiteRequest(h, s)
  PROVE  Agrees
<1> DEFINE j == job[h]
<1> DEFINE row == [status |-> "live", name |-> j.name, slug |-> j.slug,
                   filing |-> j.filing, of |-> j.of, checked |-> FALSE]
<1>1. ~Idle(h) /\ End(h) /\ UNCHANGED label /\ j.op = "approve"
  BY DEF ApproveSiteRequest, At, Idle, Resting
<1>2. PICK r : r = j.of
  OBVIOUS
<1>3. /\ FiledUnderLive /\ NamesDiffer /\ ApprovedHaveOne
      /\ request[r].status = "pending"
  BY <1>1, <1>2, EndedAlone DEF CheckStands
<1>4. /\ j.name \in Names /\ j.slug \in Slugs /\ j.filing \in Filing /\ r \in Requests
      /\ s \notin Known /\ TypeOK /\ site' = [site EXCEPT ![s] = row]
  BY <1>1, <1>2
  DEF ApproveSiteRequest, CatalogueInv, JobsAreReal, JobIsReal, Known, Inserted
<1>5. row \in Site /\ row.of = r /\ ~row.checked /\ row # NoRow
  BY <1>2, <1>4, NoRowIsNone DEF Site
<1>6. /\ request'[r].status = "approved"
      /\ \A q \in Requests \ {r} : request'[q] = request[q]
  <2>1. request[r] \in SiteRequest
    BY <1>3, <1>4, RowsAreTyped
  <2>2. QED
    BY <1>2, <1>4, <2>1 DEF ApproveSiteRequest, TypeOK, SiteRequest
<1> HIDE DEF row
<1>7. FiledUnderLive' /\ NamesDiffer'
  BY <1>1, <1>3, <1>4, <1>5, FiledAndNamed
<1>8. ApprovedHaveOne'
  <2>1. site'[s] = row /\ \A t \in Sites \ {s} : site'[t] = site[t]
    BY <1>4 DEF TypeOK
  <2>2. \A q : SitesOf(q)' = SitesOf(q) \cup {t \in {s} : r = q}
    BY <1>4, <1>5, <2>1 DEF SitesOf, Known
  <2>3. SitesOf(r) = {}
    BY <1>3, <1>4 DEF ApprovedHaveOne
  <2>4. SitesOf(r)' = {s}
    BY <2>2, <2>3
  <2>5. \A q \in Requests \ {r} : SitesOf(q)' = SitesOf(q)
    BY <2>2
  <2>6. QED
    BY <1>3, <1>6, <2>4, <2>5 DEF ApprovedHaveOne
<1>9. QED
  BY <1>7, <1>8 DEF Agrees

\* A request is written, or nothing.
LEMMA CalmRequests ==
  ASSUME FiledUnderLive, NamesDiffer, ApprovedHaveOne, UNCHANGED <<label, site>>,
         \A r \in Requests : request'[r].status = "approved" <=> request[r].status = "approved"
  PROVE  Agrees
BY DEF Agrees, FiledUnderLive, NamesDiffer, ApprovedHaveOne, Live, LiveLabels, SitesOf, Known

LEMMA CalmFinish ==
  ASSUME NoneIsNoRow, CatalogueInv, CalmInv, NEW h \in Handlers, Finish(h) PROVE CalmInv'
<1>0. TypeOK /\ JobsAreReal
  BY DEF CatalogueInv
<1>1. ~Idle(h) /\ End(h)
  <2>1. Idle(h) => job[h].op = "none"
    BY DEF Idle, Resting
  <2>2. /\ End(h)
        /\ \/ ~Idle(h)
           \/ job[h].op \in {"delete", "create", "update", "ask", "approve", "rejected",
                             "cancelled"}
    BY DEF Finish, DeleteLabel, CreateSite, ApproveSiteRequest, UpdateSite, CreateSiteRequest,
           RejectSiteRequest, CancelSiteRequest, Decide, Fail, At
  <2>3. QED
    BY <2>1, <2>2
<1>2. /\ ChecksStand' /\ calm' = calm
      /\ calm => CheckStands(job[h]) /\ FiledUnderLive /\ NamesDiffer /\ ApprovedHaveOne
  BY <1>1, EndedAlone
<1>3. SUFFICES ASSUME calm PROVE Agrees
  BY <1>2 DEF CalmInv, Agrees
<1>4. CASE Fail(h)
  BY <1>2, <1>3, <1>4, CalmRequests DEF Fail, Same
<1>5. ASSUME NEW r \in Requests, CreateSiteRequest(h, r) PROVE Agrees
  <2>1. /\ request[r].status # "approved" /\ request'[r].status # "approved"
        /\ \A q \in Requests \ {r} : request'[q] = request[q]
        /\ UNCHANGED <<label, site>>
    BY <1>0, <1>5 DEF CreateSiteRequest, NoRow, TypeOK
  <2>2. QED
    BY <1>2, <1>3, <2>1, CalmRequests
<1>6. ASSUME NEW op \in {"rejected", "cancelled"}, Decide(h, op) PROVE Agrees
  <2>1. PICK r \in Requests : r = job[h].of /\ request[r] \in SiteRequest
    BY <1>0, <1>6, RowsAreTyped DEF Decide, At, JobsAreReal, JobIsReal
  <2>2. request[r].status = "pending"
    BY <1>2, <1>3, <1>6, <2>1 DEF Decide, At, CheckStands
  <2>3. request' = [request EXCEPT ![r] = [request[r] EXCEPT !.status = op]]
    BY <1>0, <1>6, <2>1 DEF Decide, TypeOK
  <2>4. /\ request'[r].status = op
        /\ \A q \in Requests \ {r} : request'[q] = request[q]
        /\ UNCHANGED <<label, site>>
    BY <1>0, <1>6, <2>1, <2>3 DEF Decide, TypeOK, SiteRequest
  <2>5. QED
    BY <1>2, <1>3, <2>2, <2>4, CalmRequests
<1>7. QED
  BY <1>3, <1>4, <1>5, <1>6, CalmLabels, CalmCreate, CalmUpdate, CalmApprove
  DEF Finish, RejectSiteRequest, CancelSiteRequest

LEMMA CalmStatement == ASSUME CatalogueInv, CalmInv, Statements PROVE CalmInv'
<1>0. TypeOK /\ AtOnce /\ UNCHANGED request
  BY DEF CatalogueInv, Statements, CreateLabel, RestoreLabel, DeleteSite, RestoreSite
<1>1. /\ ChecksStand'
      /\ calm' => calm /\ FiledUnderLive /\ NamesDiffer /\ ApprovedHaveOne
  BY <1>0, AtOnceAlone
<1>2. SUFFICES ASSUME calm' PROVE Agrees
  BY <1>1 DEF CalmInv, Agrees
<1>3. ASSUME NEW l \in Labels, CreateLabel(l) \/ RestoreLabel(l) PROVE Agrees
  <2>1. LiveLabels \subseteq LiveLabels' /\ UNCHANGED site
    BY <1>0, <1>3 DEF CreateLabel, RestoreLabel, LiveLabels, TypeOK
  <2>2. FiledUnderLive'
    BY <1>1, <1>2, <2>1 DEF FiledUnderLive, Live
  <2>3. NamesDiffer' /\ ApprovedHaveOne'
    BY <1>0, <1>1, <1>2, <2>1 DEF NamesDiffer, ApprovedHaveOne, Live, SitesOf, Known
  <2>4. QED
    BY <2>2, <2>3 DEF Agrees
<1>4. ASSUME NEW s \in Sites, DeleteSite(s) \/ RestoreSite(s) PROVE Agrees
  <2>1. s \in Known /\ site[s] \in Site
    BY <1>0, <1>4, RowsAreTyped DEF DeleteSite, RestoreSite
  <2>2. PICK row \in Site : /\ site' = [site EXCEPT ![s] = row] /\ row.of = site[s].of
                            /\ row.status = "deleted" \/ ~row.checked
    <3>1. CASE DeleteSite(s)
      <4> DEFINE row == [site[s] EXCEPT !.status = "deleted"]
      <4>1. row \in Site /\ row.of = site[s].of /\ row.status = "deleted"
        BY <2>1 DEF Site
      <4>2. site' = [site EXCEPT ![s] = row]
        BY <1>0, <2>1, <3>1 DEF DeleteSite, TypeOK
      <4>3. QED
        BY <4>1, <4>2
    <3>2. CASE RestoreSite(s)
      <4> DEFINE row == [site[s] EXCEPT !.status = "live", !.checked = FALSE]
      <4>1. row \in Site /\ row.of = site[s].of /\ ~row.checked
        BY <2>1 DEF Site
      <4>2. site' = [site EXCEPT ![s] = row]
        BY <1>0, <2>1, <3>2 DEF RestoreSite, TypeOK
      <4>3. QED
        BY <4>1, <4>2
    <3>3. QED
      BY <1>4, <3>1, <3>2
  <2>3. UNCHANGED label
    BY <1>4 DEF DeleteSite, RestoreSite
  <2>4. FiledUnderLive' /\ NamesDiffer'
    BY <1>1, <1>2, <2>2, <2>3, FiledAndNamed
  <2>5. ApprovedHaveOne'
    BY <1>0, <1>1, <1>2, <2>1, <2>2, SitesOfStay, ApprovedStay
  <2>6. QED
    BY <2>4, <2>5 DEF Agrees
<1>5. QED
  BY <1>3, <1>4 DEF Statements

LEMMA CalmInit == ASSUME Init PROVE CalmInv
<1>1. \A h \in Handlers : job[h] = Resting /\ job[h].op = "none"
  BY DEF Init, NoJobs, Resting
<1>2. Known = {} /\ (\A s \in Sites : ~Live(s)) /\ \A r \in Requests : request[r] = NoRow
  BY DEF Init, Known, Live, NoRow
<1>3. ChecksStand
  BY <1>1 DEF ChecksStand, CheckStands, Idle
<1>4. FiledUnderLive /\ NamesDiffer
  BY <1>2 DEF FiledUnderLive, NamesDiffer
<1>5. ApprovedHaveOne
  BY <1>2 DEF ApprovedHaveOne, SitesOf, NoRow
<1>6. QED
  BY <1>3, <1>4, <1>5 DEF CalmInv

LEMMA CalmInvHolds == ASSUME NoneIsNoRow PROVE Spec => []CalmInv
<1>1. CatalogueInv /\ CalmInv /\ [Next]_vars => CalmInv'
  <2>1. ASSUME CatalogueInv, CalmInv, Next PROVE CalmInv'
    BY <2>1, NextCases, CalmCheck, CalmFinish, CalmStatement
  <2>2. ASSUME CalmInv, UNCHANGED vars PROVE CalmInv'
    <3>1. UNCHANGED <<label, site, request, job, calm>>
      BY <2>2 DEF vars
    <3>2. \A j : CheckStands(j) => CheckStands(j)'
      BY <3>1 DEF CheckStands, InUse, NameTaken, Live, LiveLabels
    <3>3. ChecksStand'
      BY <2>2, <3>1, <3>2 DEF CalmInv, ChecksStand, Idle
    <3>4. FiledUnderLive /\ NamesDiffer /\ ApprovedHaveOne => Agrees
      BY <3>1, CalmRequests
    <3>5. QED
      BY <2>2, <3>1, <3>3, <3>4 DEF CalmInv, Agrees
  <2>3. QED
    BY <2>1, <2>2
<1>2. QED
  BY <1>1, CalmInit, CatalogueInvHolds, PTL DEF Spec

\* As long as use cases do not overlap: a site that came neither from a request
\* nor from the trash is filed under what is not deleted, no two of them have one
\* name, and an approved request has its one site (create-site, update-site,
\* delete-category, delete-tier, approve-site-request).
THEOREM CatalogueIsCalm == ASSUME NoneIsNoRow PROVE Spec => []CalmCatalogue
<1>1. ASSUME CalmInv PROVE CalmCatalogue
  <2>1. SUFFICES ASSUME calm PROVE CalmCatalogue
    BY DEF CalmCatalogue
  <2>2. FiledUnderLive /\ NamesDiffer /\ ApprovedHaveOne
    BY <1>1, <2>1 DEF CalmInv
  <2>3. Cardinality({}) = 0 /\ \A s : Cardinality({s}) = 1
    BY FS_EmptySet, FS_Singleton
  <2>4. \A r \in Requests :
          Cardinality(SitesOf(r)) = IF request[r].status = "approved" THEN 1 ELSE 0
    BY <2>2, <2>3 DEF ApprovedHaveOne
  <2>5. QED
    BY <2>2, <2>4 DEF CalmCatalogue, FiledUnderLive, NamesDiffer, SitesOf
<1>2. QED
  BY <1>1, CalmInvHolds, PTL
=============================================================================
