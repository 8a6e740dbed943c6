------------------------------ MODULE Catalogue ------------------------------
(***************************************************************************)
(* The catalogue of sites: categories and tiers, the sites, and the         *)
(* requests to list a site, which an admin makes into one.                  *)
(*                                                                          *)
(* Deletions are soft.  Names are compared with the rows that are not       *)
(* deleted; the unique columns (slug of a site, name of a category and of a *)
(* tier) count the deleted ones too.  Every use case looks first and writes *)
(* in a later statement, without a lock.                                    *)
(***************************************************************************)
EXTENDS UseCases, FiniteSets

CONSTANTS
  Categories,
  Tiers,
  Sites,      \* ids
  Requests,   \* ids
  Names,
  Slugs,
  Contains    \* pairs of names: the first contains the second

\* Assumed of the constants: no row is the absent one.
NoneIsNoRow == None \notin Sites \cup Requests

Labels == Categories \cup Tiers

\* What a site is filed under: a category, and a tier or none.
Filing == {L \in SUBSET Labels : Cardinality(L \cap Categories) = 1
                                 /\ Cardinality(L \cap Tiers) <= 1}

VARIABLES
  label,    \* site_categories and tiers
  site,     \* sites
  request   \* site_requests

vars == <<label, site, request, job, calm>>

NoRow == [status |-> "none"]

\* checked is history: name and filing were compared with the other rows when
\* the site was created or changed, and it was not deleted and restored since.
Site == [status: {"live", "deleted"}, name: Names, slug: Slugs, filing: Filing,
         of: Requests \cup {None}, checked: BOOLEAN]

SiteRequest == [status: {"pending", "approved", "rejected", "cancelled"},
                name: Names, slug: Slugs \cup {None}, filing: Filing,
                images: {"none", "there", "moved"}]

Live(s) == site[s].status = "live"

Known == {s \in Sites : site[s] # NoRow}

LiveLabels == {l \in Labels : label[l] = "live"}

Init ==
  /\ label = [l \in Labels |-> "none"]
  /\ site = [s \in Sites |-> NoRow]
  /\ request = [r \in Requests |-> NoRow]
  /\ NoJobs

Same == UNCHANGED <<label, site, request>>

-----------------------------------------------------------------------------
(* Categories and tiers *)

\* A category or tier is its name here: one that is deleted keeps the name.
CreateLabel(l) ==
  /\ label[l] = "none"
  /\ label' = [label EXCEPT ![l] = "live"]
  /\ AtOnce /\ UNCHANGED <<site, request>>

InUse(l) == \E s \in Sites : Live(s) /\ l \in site[s].filing

\* Mutant: sites are not counted.
CheckDeleteUsedLabel(h, l) ==
  /\ label[l] = "live"
  /\ Begin(h, [op |-> "delete", label |-> l]) /\ Same

CheckDeleteLabel(h, l) ==
  /\ label[l] = "live"
  /\ ~InUse(l)
  /\ Begin(h, [op |-> "delete", label |-> l]) /\ Same

DeleteLabel(h) ==
  /\ At(h, "delete")
  /\ label' = [label EXCEPT ![job[h].label] = "deleted"]
  /\ End(h) /\ UNCHANGED <<site, request>>

RestoreLabel(l) ==
  /\ label[l] = "deleted"
  /\ label' = [label EXCEPT ![l] = "live"]
  /\ AtOnce /\ UNCHANGED <<site, request>>

DeleteCategory(h) == \E l \in Categories : CheckDeleteLabel(h, l)

DeleteTier(h) == \E l \in Tiers : CheckDeleteLabel(h, l)

-----------------------------------------------------------------------------
(* Sites *)

\* "Check duplicate name, excluding soft-deleted", "Check duplicate slug".
NameTaken(n, except) == \E s \in Sites \ {except} : Live(s) /\ site[s].name = n

SlugTaken(x, except) == \E s \in Sites \ {except} : Live(s) /\ site[s].slug = x

\* The unique column.
SlugInTable(x, except) == \E s \in Known \ {except} : site[s].slug = x

CheckCreateSite(h, n, x, L) ==
  /\ L \subseteq LiveLabels
  /\ ~NameTaken(n, None) /\ ~SlugTaken(x, None)
  /\ Begin(h, [op |-> "create", name |-> n, slug |-> x, filing |-> L, of |-> None]) /\ Same

Inserted(s, j, checked) ==
  [site EXCEPT ![s] = [status |-> "live", name |-> j.name, slug |-> j.slug,
                       filing |-> j.filing, of |-> j.of, checked |-> checked]]

CreateSite(h, s) ==
  /\ At(h, "create")
  /\ site[s] = NoRow
  /\ ~SlugInTable(job[h].slug, s)
  /\ site' = Inserted(s, job[h], TRUE)
  /\ End(h) /\ UNCHANGED <<label, request>>

\* Name, slug and filing are optional, and checked if they are given and new.
CheckUpdateSite(h, s, n, x, L) ==
  /\ Live(s)
  /\ L \ site[s].filing \subseteq LiveLabels
  /\ n # site[s].name => ~NameTaken(n, s)
  /\ x # site[s].slug => ~SlugTaken(x, s)
  /\ Begin(h, [op |-> "update", site |-> s, name |-> n, slug |-> x, filing |-> L]) /\ Same

\* An UPDATE by id, of a site that may be deleted by now.
UpdateSite(h) ==
  /\ At(h, "update")
  /\ LET j == job[h]
     IN  /\ ~SlugInTable(j.slug, j.site)
         /\ site' = [site EXCEPT ![j.site].name = j.name, ![j.site].slug = j.slug,
                                 ![j.site].filing = j.filing]
  /\ End(h) /\ UNCHANGED <<label, request>>

DeleteSite(s) ==
  /\ Live(s)
  /\ site' = [site EXCEPT ![s].status = "deleted"]
  /\ AtOnce /\ UNCHANGED <<label, request>>

\* Nothing is compared: category and tier may be deleted, the name in use.
RestoreSite(s) ==
  /\ site[s].status = "deleted"
  /\ site' = [site EXCEPT ![s].status = "live", ![s].checked = FALSE]
  /\ AtOnce /\ UNCHANGED <<label, request>>

-----------------------------------------------------------------------------
(* Requests to list a site *)

\* One site is looked up whose name contains the requested one.
NameFound(n) ==
  /\ NameTaken(n, None)
  /\ \A s \in Sites : Live(s) => <<site[s].name, n>> \notin Contains

CheckCreateRequest(h, n, L) ==
  /\ L \subseteq LiveLabels
  /\ ~NameFound(n)
  /\ \A r \in Requests : request[r].status = "pending" => request[r].name # n
  /\ \E images \in {"none", "there"} :
       Begin(h, [op |-> "ask", name |-> n, filing |-> L, images |-> images])
  /\ Same

CreateSiteRequest(h, r) ==
  /\ At(h, "ask")
  /\ request[r] = NoRow
  /\ request' = [request EXCEPT ![r] =
       [status |-> "pending", name |-> job[h].name, slug |-> None,
        filing |-> job[h].filing, images |-> job[h].images]]
  /\ End(h) /\ UNCHANGED <<label, site>>

\* findByIdOrSlug, and the approved requests: the slug given by the admin, and
\* each that makeSlugUnique tries.
SlugFree(x, r) ==
  /\ ~SlugTaken(x, None)
  /\ \A q \in Requests \ {r} : request[q].status = "approved" => request[q].slug # x

\* Mutant: the images are copied.
CopyImages(r) == UNCHANGED request

\* A rename, which fails if the file is not there (any more).
MoveImages(r) ==
  /\ request[r].images # "moved"
  /\ request' = [request EXCEPT ![r].images = IF @ = "there" THEN "moved" ELSE @]

\* Category and tier are looked up only where the admin overrides them.
CheckApproveRequest(h, r, x, L) ==
  /\ request[r].status = "pending"
  /\ L \ request[r].filing \subseteq LiveLabels
  /\ SlugFree(x, r)
  /\ MoveImages(r)
  /\ Begin(h, [op |-> "approve", name |-> request[r].name, slug |-> x, filing |-> L, of |-> r])
  /\ UNCHANGED <<label, site>>

\* The request's status is not asked again.  If the insert fails the moved
\* images are deleted: see Fail.
ApproveSiteRequest(h, s) ==
  /\ At(h, "approve")
  /\ site[s] = NoRow
  /\ ~SlugInTable(job[h].slug, s)
  /\ site' = Inserted(s, job[h], FALSE)
  /\ request' = [request EXCEPT ![job[h].of].status = "approved",
                                ![job[h].of].slug = job[h].slug]
  /\ End(h) /\ UNCHANGED label

CheckDecide(h, r, op) ==
  /\ request[r].status = "pending"
  /\ Begin(h, [op |-> op, of |-> r]) /\ Same

\* By the admin, and by the user whose request it is.
Decide(h, op) ==
  /\ At(h, op)
  /\ request' = [request EXCEPT ![job[h].of].status = op]
  /\ End(h) /\ UNCHANGED <<label, site>>

RejectSiteRequest(h) == Decide(h, "rejected")

CancelSiteRequest(h) == Decide(h, "cancelled")

-----------------------------------------------------------------------------

\* An error, or a unique column that is violated: the transaction rolls back.
\* Images that were moved stay away.
Fail(h) == ~Idle(h) /\ End(h) /\ Same

\* The routes of each controller, and what is left of the use cases they begin.
CategoryController(h) ==
  DeleteCategory(h) \/ \E l \in Categories : CreateLabel(l) \/ RestoreLabel(l)

TierController(h) ==
  DeleteTier(h) \/ \E l \in Tiers : CreateLabel(l) \/ RestoreLabel(l)

CreateRoutes(h) ==
  \E n \in Names, x \in Slugs, L \in Filing : CheckCreateSite(h, n, x, L)

SiteController(h) ==
  \E s \in Sites :
    \/ \E n \in Names, x \in Slugs, L \in Filing : CheckUpdateSite(h, s, n, x, L)
    \/ DeleteSite(s) \/ RestoreSite(s)

SiteRequestController(h) ==
  \/ \E n \in Names, L \in Filing : CheckCreateRequest(h, n, L)
  \/ \E r \in Requests : CheckDecide(h, r, "cancelled")

AdminSiteRequestController(h) ==
  \E r \in Requests :
    \/ \E x \in Slugs, L \in Filing : CheckApproveRequest(h, r, x, L)
    \/ CheckDecide(h, r, "rejected")

Finish(h) ==
  \/ DeleteLabel(h)
  \/ \E s \in Sites : CreateSite(h, s) \/ ApproveSiteRequest(h, s)
  \/ UpdateSite(h)
  \/ \E r \in Requests : CreateSiteRequest(h, r)
  \/ RejectSiteRequest(h) \/ CancelSiteRequest(h)
  \/ Fail(h)

Next ==
  \E h \in Handlers :
    \/ CategoryController(h) \/ TierController(h)
    \/ CreateRoutes(h) \/ SiteController(h)
    \/ SiteRequestController(h) \/ AdminSiteRequestController(h)
    \/ Finish(h)

Spec == Init /\ [][Next]_vars

-----------------------------------------------------------------------------
(* Properties *)

\* Every variable has its type.
TypeOK ==
  /\ label \in [Labels -> {"none", "live", "deleted"}]
  /\ site \in [Sites -> Site \cup {NoRow}]
  /\ request \in [Requests -> SiteRequest \cup {NoRow}]
  /\ calm \in BOOLEAN

\* As long as use cases do not overlap: a site that came neither from a request
\* nor from the trash is filed under a category and a tier that are not deleted,
\* and no two of them have one name; a request is approved exactly if there is a
\* site made of it, and there is one.
CalmCatalogue ==
  calm =>
    /\ \A s \in Sites : Live(s) /\ site[s].checked => site[s].filing \subseteq LiveLabels
    /\ \A s, t \in Sites :
         /\ Live(s) /\ Live(t) /\ s # t
         /\ site[s].checked /\ site[t].checked
         => site[s].name # site[t].name
    /\ \A r \in Requests :
         Cardinality({s \in Known : site[s].of = r})
           = IF request[r].status = "approved" THEN 1 ELSE 0

\* Whatever overlaps: no two sites were made of one request with images, though
\* nobody locks the request: the second approval finds no file to move.  Nor do
\* two sites have one slug, the deleted ones counted.
MadeOnce ==
  \A s, t \in Known :
    s # t => /\ site[s].slug # site[t].slug
             /\ site[s].of \in Requests /\ site[s].of = site[t].of
                  => request[site[s].of].images = "none"

-----------------------------------------------------------------------------
(* What makes them inductive; the proofs are in CatalogueProofs.            *)

\* A use case in progress names labels, rows and values that exist.
JobIsReal(j) ==
  /\ j.op = "delete" => j.label \in Labels
  /\ j.op \in {"create", "update", "approve"} =>
       j.name \in Names /\ j.slug \in Slugs /\ j.filing \in Filing
  /\ j.op = "create" => j.of = None
  /\ j.op = "update" => j.site \in Known
  /\ j.op = "ask" => /\ j.name \in Names /\ j.filing \in Filing
                     /\ j.images \in {"none", "there"}
  /\ j.op \in {"approve", "rejected", "cancelled"} =>
       j.of \in Requests /\ request[j.of] # NoRow

JobsAreReal == DOMAIN job = Handlers /\ \A h \in Handlers : JobIsReal(job[h])

SitesOf(r) == {s \in Known : site[s].of = r}

Approving(r) == {h \in Busy({"approve"}) : job[h].of = r}

\* A request has its images moved by the one approval that makes its site.
ImagesMoveOnce ==
  \A r \in Requests :
    /\ SitesOf(r) # {} \/ Approving(r) # {} =>
         request[r] # NoRow /\ request[r].images # "there"
    /\ request[r] # NoRow /\ request[r].images = "moved" =>
         /\ \A g, h \in Approving(r) : g = h
         /\ \A s, t \in SitesOf(r) : s = t
         /\ SitesOf(r) = {} \/ Approving(r) = {}

\* While use cases do not overlap, what one has checked is still so.
CheckStands(j) ==
  /\ j.op = "delete" => ~InUse(j.label)
  /\ j.op = "create" => j.filing \subseteq LiveLabels /\ ~NameTaken(j.name, None)
  /\ j.op = "update" =>
       /\ Live(j.site)
       /\ j.filing \ site[j.site].filing \subseteq LiveLabels
       /\ j.name # site[j.site].name => ~NameTaken(j.name, j.site)
  /\ j.op \in {"approve", "rejected", "cancelled"} => request[j.of].status = "pending"

ChecksStand ==
  calm => /\ \A g, h \in Handlers : ~Idle(g) /\ ~Idle(h) => g = h
          /\ \A h \in Handlers : CheckStands(job[h])
=============================================================================
