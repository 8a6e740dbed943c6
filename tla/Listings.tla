------------------------------ MODULE Listings ------------------------------
(***************************************************************************)
(* The lists of the API, read page by page with a cursor.                   *)
(*                                                                          *)
(* The cursor holds the id of the last row of a page and the value that row *)
(* was sorted by; the next page is the rows "after" it.  What "after" means *)
(* is written by hand in every repository, beside an ORDER BY that is       *)
(* written by hand too: a definition below says what each one does.  Rows   *)
(* come, go and change while a client reads.                                *)
(*                                                                          *)
(* Times are stored in microseconds; JavaScript, and so a cursor, has       *)
(* milliseconds.  Sessions are taken to run in UTC.  The caps on the size   *)
(* of a page, and the filters, are left out: a table is the rows a filter   *)
(* selects.                                                                 *)
(***************************************************************************)
EXTENDS Integers, Sequences, FiniteSets

CONSTANTS
  Ids,      \* of rows, as PostgreSQL orders them; of no other meaning
  Values,   \* of what rows are sorted by; an even one is a whole millisecond
  Limits,   \* sizes of a page
  MaxEdits, \* bound of the model: changes to the table while one client reads
  MaxPages, \* bound of the model: pages a client reads
  Null

\* Assumed of the constants.
Numbers == (Ids \cup Values) \subseteq Nat /\ Limits \subseteq Nat \ {0}
NullIsNoNumber == Null \notin Nat

VARIABLES
  listing,   \* the one that is read
  row,       \* its table: id -> key (what the client sorts by), created, other
  cursor,    \* "start", "end", or the id and value of the page before
  pages,     \* the pages read: the sets of their ids; no property tells their order
  edits,     \* how often the table has changed since the first page
  touched,   \* history: ids of rows inserted, changed or deleted since then
  reliable   \* history: Reliable(listing, row) all along

vars == <<listing, row, cursor, pages, edits, touched, reliable>>

Absent == [key |-> Null, created |-> Null, other |-> Null]
Start == [id |-> 0, value |-> Null, at |-> "start"]
End == [id |-> 0, value |-> Null, at |-> "end"]

Present(table) == {i \in Ids : table[i] # Absent}

-----------------------------------------------------------------------------
(* A listing: the columns of its ORDER BY, the column its cursor holds and   *)
(* the condition it puts on the rows of the next page.                       *)

By(column, dir, nulls) == [column |-> column, dir |-> dir, nulls |-> nulls]

Listing(orders, holds, after, isTime) ==
  [orders |-> orders, holds |-> holds, after |-> after, isTime |-> isTime]

\* ORDER BY created_at, id and a cursor of both.
NewestFirst ==
  Listing(<<By("created", "DESC", "last"), By("id", "DESC", "last")>>,
          "created", "keyset", TRUE)
OldestFirst ==
  Listing(<<By("created", "ASC", "last"), By("id", "ASC", "last")>>,
          "created", "keyset", TRUE)

\* ORDER BY a column the client chooses; of times and of other columns.
Chosen(dir, nulls) ==
  {Listing(<<By("key", dir, nulls), By("id", dir, "last")>>, "key", "keyset", isTime) :
     isTime \in BOOLEAN}

\* With NULLS LAST for DESC; and without, where PostgreSQL puts them first.
Sortable == Chosen("DESC", "last") \cup Chosen("ASC", "last")
PlainlySortable == Chosen("DESC", "first") \cup Chosen("ASC", "last")

ScamReportsOfSite == {NewestFirst}
ScamReportsOfUser == {NewestFirst}
AllScamReports == {NewestFirst}
CommentsOfScamReport == {OldestFirst}
CommentsOfReview == {OldestFirst}
ReviewsOfSite == Sortable
AllReviews == Sortable
ReviewsOfUser == {NewestFirst}
SiteRequests == {NewestFirst}
ApplicationsForSite == {NewestFirst}
ApplicationsOfUser == {NewestFirst}
AllApplications == {NewestFirst}
PartnerRequests == {NewestFirst}
PartnerUsers == {NewestFirst}
RedemptionsOfUser == {NewestFirst}
AllRedemptions == {NewestFirst}
TransactionsOfUser == {NewestFirst}
AllTransactions == {NewestFirst}
ExchangesOfUser == {NewestFirst}
AllExchanges == {NewestFirst}
GifticonsOfAdmin == {NewestFirst}
UserBadgeRequests == Sortable
SiteBadgeRequests == Sortable
AllSiteEvents == Sortable
PostsOfAdmin == Sortable
AllUsers == PlainlySortable
Inquiries == PlainlySortable
AttendancesOfDay == {OldestFirst}

\* Sorted by startDate, which no event lacks.
EventsOfSite ==
  {Listing(<<By("key", "DESC", "first"), By("id", "DESC", "last")>>, "key", "keyset", TRUE)}

\* Sorted by the day first (other), the cursor holds the time only.
AttendancesOfDays ==
  {Listing(<<By("other", "DESC", "first"), By("created", "DESC", "first"),
             By("id", "DESC", "last")>>, "created", "keyset", TRUE)}
AttendancesOfUser == AttendancesOfDays

\* Sorted by time; the next page is the rows of a lesser id.
CommentsOfPost ==
  {Listing(<<By("created", "DESC", "first"), By("id", "DESC", "last")>>, "created", "id", TRUE)}

\* The value is looked up under a name no entity has: the cursor has none.
DeletedSites ==
  {Listing(<<By("key", dir, IF dir = "DESC" THEN "last" ELSE "first"), By("id", dir, "last")>>,
           "nothing", "keyset", TRUE) : dir \in {"ASC", "DESC"}}

\* startsAt (key), or without one createdAt.
GifticonsOnSale ==
  {Listing(<<By("key", "DESC", "last"), By("created", "DESC", "first"),
             By("id", "DESC", "last")>>, "key else created", "keyset or null", TRUE)}

\* The same behind the order of the event's banners (other).
PocaEventsOnShow ==
  {Listing(<<By("other", "ASC", "last"), By("key", "DESC", "last"),
             By("created", "DESC", "first"), By("id", "DESC", "last")>>,
           "key else created", "keyset or null", TRUE)}
PocaEventsOfAdmin ==
  {Listing(<<By("other", "ASC", "last"), By("created", "DESC", "last"),
             By("id", "DESC", "last")>>, "created", "keyset", TRUE)}

\* current_streak (key), total days (other), rank; the rank is taken for the id.
StatisticsByStreak ==
  {Listing(<<By("key", "DESC", "first"), By("other", "DESC", "first"),
             By("id", "ASC", "last")>>, "key", "keyset, ids ascending", FALSE)}

\* The next page of a list sorted by a count has an aggregate in its WHERE.
PublishedPosts ==
  Sortable \cup
  {Listing(<<By("key", dir, "last"), By("id", dir, "last")>>, "key", "fails", FALSE) :
     dir \in {"ASC", "DESC"}}

\* By tier, sites without one are last; by tether there is no order at all.
AllSites ==
  Sortable \cup
  {Listing(<<By("key", "ASC", "last"), By("id", "ASC", "last")>>,
           "key", "keyset, nulls by id", FALSE),
   Listing(<<By("id", "ASC", "last")>>, "key", "nothing", FALSE)}

Listings ==
  UNION {ScamReportsOfSite, ScamReportsOfUser, AllScamReports, CommentsOfScamReport,
         CommentsOfReview, ReviewsOfSite, AllReviews, ReviewsOfUser, SiteRequests,
         ApplicationsForSite, ApplicationsOfUser, AllApplications, PartnerRequests,
         PartnerUsers, RedemptionsOfUser, AllRedemptions, TransactionsOfUser,
         AllTransactions, ExchangesOfUser, AllExchanges, GifticonsOfAdmin,
         UserBadgeRequests, SiteBadgeRequests, AllSiteEvents, PostsOfAdmin, AllUsers,
         Inquiries, AttendancesOfDay, EventsOfSite, AttendancesOfDays, AttendancesOfUser,
         CommentsOfPost, DeletedSites, GifticonsOnSale, PocaEventsOnShow,
         PocaEventsOfAdmin, StatisticsByStreak, PublishedPosts, AllSites}

-----------------------------------------------------------------------------
(* One page *)

Column(table, i, column) == IF column = "id" THEN i ELSE table[i][column]

Beyond(dir, v, w) == IF dir = "ASC" THEN v > w ELSE v < w

\* ORDER BY one column.
Before(o, v, w) ==
  \/ v # Null /\ w # Null /\ Beyond(o.dir, w, v)
  \/ v = Null /\ w # Null /\ o.nulls = "first"
  \/ v # Null /\ w = Null /\ o.nulls = "last"

Precedes(l, table, i, j) ==
  LET Col(x, k) == Column(table, x, l.orders[k].column)
  IN  \E k \in DOMAIN l.orders :
        /\ Before(l.orders[k], Col(i, k), Col(j, k))
        /\ \A m \in 1..(k - 1) : Col(i, m) = Col(j, m)

\* new Date(...), toISOString(): the microseconds are cut off.
Cut(l, v) == IF l.isTime /\ v # Null THEN v - (v % 2) ELSE v

\* Mutant: rows of equal values are not told apart.
KeysetWithoutId(l, c, i, v, dir) == v # Null /\ Beyond(dir, v, c.value)

\* The condition of every keyset: greater, or equal and of a greater id.
Keyset(l, c, i, v, dir) ==
  /\ v # Null
  /\ \/ Beyond(dir, v, c.value)
     \/ v = c.value /\ Beyond(dir, i, c.id)

Dir(l) == l.orders[Len(l.orders)].dir

After(l, c, table, i) ==
  LET dir == Dir(l)
      held == IF l.holds = "created" THEN table[i].created ELSE table[i].key
  IN  CASE c = Start -> TRUE
        [] l.after = "nothing" -> TRUE
        [] c # Start /\ l.after # "nothing" /\ (l.after = "id" \/ c.value = Null) ->
             Beyond(dir, i, c.id)
        [] OTHER ->
             \/ /\ l.after = "keyset, ids ascending"
                /\ held <= c.value
                /\ held = c.value => i > c.id
             \/ l.after # "keyset, ids ascending" /\ Keyset(l, c, i, held, dir)
             \/ l.after = "keyset or null" /\ held = Null /\ table[i].created < c.value
             \/ l.after = "keyset, nulls by id" /\ held = Null /\ i > c.id

\* encodeCursor(lastItem.id, ...)
CursorOf(l, table, i) ==
  [id |-> i, at |-> "row",
   value |->
     CASE l.holds = "nothing" -> Null
       [] l.holds = "created" -> Cut(l, table[i].created)
       [] l.holds = "key else created" /\ table[i].key = Null -> Cut(l, table[i].created)
       [] OTHER -> Cut(l, table[i].key)]

\* take(limit + 1), hasMore, nextCursor: the first rows, up to the limit; if there
\* are more, the cursor is of the last of these.
ReadPage(limit) ==
  /\ cursor # End
  /\ Len(pages) < MaxPages
  /\ ~(listing.after = "fails" /\ cursor # Start)
  /\ LET rows == {i \in Present(row) : After(listing, cursor, row, i)}
     IN  \E page \in SUBSET rows :
           /\ \A i \in page, j \in rows \ page : Precedes(listing, row, i, j)
           /\ \/ page = rows /\ Cardinality(rows) <= limit /\ cursor' = End
              \/ /\ page # rows /\ Cardinality(page) = limit
                 /\ \E last \in page :
                      /\ \A i \in page \ {last} : Precedes(listing, row, i, last)
                      /\ cursor' = CursorOf(listing, row, last)
           /\ pages' = Append(pages, page)
  /\ UNCHANGED <<listing, row, edits, touched, reliable>>

-----------------------------------------------------------------------------
(* When the pages are right *)

\* The column a listing compares with its cursor.
Held(l, table, i) == IF l.holds = "created" THEN table[i].created ELSE table[i].key

\* Conditions on two rows of a table under which a listing tells them apart.
Reliable(l, table) ==
  /\ l.after # "nothing"
  /\ \A i \in Present(table) :
       /\ Held(l, table, i) # Null
       \* An ascending list compares with a time that was cut off.
       /\ l.isTime /\ Dir(l) = "ASC" => Held(l, table, i) % 2 = 0
  /\ \A i, j \in Present(table) : i # j =>
       LET v == Held(l, table, i)
           w == Held(l, table, j)
       IN  \* Two times of one millisecond.
           /\ l.isTime /\ v # w => Cut(l, v) # Cut(l, w)
           /\ l.isTime /\ v = w => v % 2 = 0
           \* No id follows from a time.
           /\ l.after = "id" \/ l.holds = "nothing" =>
                (Precedes(l, table, i, j) <=> Beyond(Dir(l), j, i))
           \* The column the list is sorted by before the one that is held.
           /\ l.orders[1].column = "other" =>
                (Precedes(l, table, i, j) <=> Beyond("DESC", w, v) \/ (v = w /\ j < i))
           /\ l.after \in {"keyset, ids ascending", "keyset or null"} => v # w

-----------------------------------------------------------------------------
(* The table *)

Uses(l, column) ==
  \/ l.holds = column
  \/ l.holds = "key else created" /\ column = "key"
  \/ \E k \in DOMAIN l.orders : l.orders[k].column = column

\* createdAt and the days, counts and banner orders are never null.
Rows(l) ==
  [key: IF Uses(l, "key") THEN Values \cup (IF l.orders[1].nulls = "last" THEN {Null} ELSE {})
        ELSE {0},
   created: IF Uses(l, "created") THEN Values ELSE {0},
   other: IF Uses(l, "other") THEN Values ELSE {0}]

Init ==
  /\ listing \in Listings
  /\ row \in [Ids -> Rows(listing) \cup {Absent}]
  /\ cursor = Start
  /\ pages = <<>>
  /\ edits = 0
  /\ touched = {}
  /\ reliable = Reliable(listing, row)

Edit(i) ==
  /\ cursor \notin {Start, End}
  /\ edits < MaxEdits
  /\ \E r \in (Rows(listing) \cup {Absent}) \ {row[i]} : row' = [row EXCEPT ![i] = r]
  /\ edits' = edits + 1
  /\ touched' = touched \cup {i}
  /\ reliable' = (reliable /\ Reliable(listing, row'))
  /\ UNCHANGED <<listing, cursor, pages>>

Next == (\E limit \in Limits : ReadPage(limit)) \/ (\E i \in Ids : Edit(i))

Spec == Init /\ [][Next]_vars

-----------------------------------------------------------------------------
(* Properties *)

\* How often a row was read.
Times(i) == Cardinality({p \in DOMAIN pages : i \in pages[p]})

TypeOK ==
  /\ listing \in Listings
  /\ \A i \in Ids : row[i] \in Rows(listing) \cup {Absent}
  /\ \A p \in DOMAIN pages : pages[p] \subseteq Ids

\* A row that stays as it is while a client reads all pages is read once:
\* never twice, and not less when the last page was read, whatever happens to
\* other rows.  It holds of every listing for tables that Reliable describes.
ReadsEachOnce ==
  reliable => \A i \in Present(row) \ touched :
                /\ Times(i) <= 1
                /\ cursor = End => Times(i) = 1

-----------------------------------------------------------------------------
(* The inductive invariant behind ReadsEachOnce *)

Unread(i) == \A p \in DOMAIN pages : i \notin pages[p]

ReadOnce(i) ==
  \E p \in DOMAIN pages : i \in pages[p] /\ \A q \in DOMAIN pages : i \in pages[q] => q = p

\* A cursor of a row has a value, if the listing holds one.
CursorIsReal ==
  \/ cursor \in {Start, End}
  \/ /\ cursor.at = "row" /\ cursor.id \in Ids
     /\ IF listing.holds = "nothing" THEN cursor.value = Null ELSE cursor.value \in Nat

\* What is left to read is after the cursor, what is not has been read.
PagesStand ==
  \A i \in Present(row) \ touched :
    IF cursor # End /\ After(listing, cursor, row, i) THEN Unread(i) ELSE ReadOnce(i)

ListInv ==
  /\ listing \in Listings
  /\ row \in [Ids -> Rows(listing) \cup {Absent}]
  /\ pages \in Seq(SUBSET Ids)
  /\ reliable => Reliable(listing, row) /\ CursorIsReal /\ PagesStand
=============================================================================
