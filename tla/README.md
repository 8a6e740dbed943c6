# POCA.GG backend: models, checks and proofs

TLA+ models of the backend in `src/` (NestJS, TypeORM on PostgreSQL, Redis,
Socket.IO), the TLC runs that check them on small instances, and theorems about
them that TLAPS checks for every instance. Paths below start at `src/src`
unless they start with `/`.

Contents: 1 the system, 2 what is modelled, 3 the runs, 4 bounds and
fairness, 5 the proofs, 6 what the runs found, 7 what could come next, 8 what stays out.

## 1. The system

### 1.1 Processes and shared state

`/ecosystem.config.js` starts two instances of the API (`poca-api`, cluster mode,
line 39), one queue worker (`poca-queue`, line 156) and one scheduler
(`poca-scheduler`, line 232). They share

* one PostgreSQL database, at its default isolation READ COMMITTED.
  `shared/services/transaction.service.ts:18` is the only way a use case opens a
  transaction; everything else is auto-committed, one statement at a time;
* one Redis: publish/subscribe channels (`shared/socket/socket-channels.ts`), the
  IPs a user was seen with, throttling counters, the BullMQ queue of mails;
* the disk or bucket with the uploaded files.

A use case is one asynchronous function, so within an instance it is interrupted
at every `await`, and between instances at every statement. Three habits of the
code decide most of what follows:

* **check, then act.** A use case reads a row, checks it, and opens a transaction
  afterwards; the transaction seldom looks again.
* **save writes back what was read.** TypeORM's `save(entity)` reads the row once
  more, compares, and updates every column in which the *entity* differs. An
  entity read earlier writes its old columns back.
* **messages are scheduled, not committed.** `setImmediate(() => publishEvent(..))`
  runs as soon as the event loop is free; when it is called inside the
  transaction's callback nothing ties it to the commit.

### 1.2 Components

| component | state | operations that change it | what makes it correct |
|---|---|---|---|
| Point exchange (`modules/point`) | `point_exchanges`, profile balance, ledger | request, cancel, reject (admin, manager), approve (admin, manager), move to processing | points are taken once, given back once and only if the exchange is undone; the ledger explains the balance |
| Gifticons (`modules/gifticon`) | catalogue, `gifticon_redemptions`, balance, ledger | create, update, delete; redeem, cancel, reject, approve | a redemption costs its price when it was offered, and is refunded exactly that |
| Balance and rewards (`modules/point/application/services`, badges, admin, profile, scheduler) | `user_profiles.points`, `point_transactions` | reward, charge, fine, adjust, award and remove badges, saves of other columns | no writer undoes another's movement; ledger and balance agree |
| Sessions (`modules/auth`, `modules/admin`) | tokens, OTP requests, passwords | register, login, refresh, logout, change and reset password, OTP by mail and phone; creation of administrators, whom nothing deactivates or deletes | a refresh token is good for one use; none survives a reset, a deactivation or a deletion; an OTP verifies once |
| Users and roles (`modules/user`) | users, roles, profiles | create, update, delete, search and site history, favourites | one role per user; a deactivated user has no token and manages no site |
| Badge requests (`modules/user`, `modules/site`) | requests, badges of users and sites | create, cancel, approve, reject, assign, remove | one open request per badge; approved exactly when awarded, once |
| Partner requests (`modules/partner`) | requests, roles | create, approve, reject | decided once; role granted exactly when approved |
| Site managers (`modules/site-manager`) | applications, managers, managed sites | apply, approve, reject, remove, edit the site | a manager exactly when an application was approved; edits only by active managers (not modelled, see 8) |
| Sites (`modules/site`) | sites, domains, categories, badges | create, update, delete, restore, verify, domains | unique slugs; one current domain; files and rows agree |
| Site requests (`modules/site-request`) | requests, sites | create, cancel, approve, reject | an approved request has one site and one reward |
| Site events, POCA events | events, banners, images | create, update, delete, views | no row names a deleted file |
| Reviews, posts, scam reports | content, comments, reactions, counters | create, edit, moderate, react, comment, delete | one reaction per user; counters and `has_child` agree with the rows; only visible content is commented |
| Attendance (`modules/attendance`) | attendance rows, statistics | check in, recompute | one row a day; streaks count consecutive days; ranks are distinct |
| Realtime (`shared/socket`, `shared/redis`) | rooms, subscriptions | connect, join, leave, publish, deliver | messages only reach their audience; what is announced was committed |
| IP tracking, throttling (`shared/middleware`, `commands/scheduler`) | Redis sets, `user_ips`, profile IPs | track, sync, block, count | the last IP is the last one seen; blocked means blocked everywhere |
| Mail queue (`shared/queue`) | BullMQ jobs | enqueue, process, retry | a mail whose OTP exists |
| Command line (`commands/cli`) | `user_comments`, `user_posts`, statistics | rebuild | a rebuild beside live writers loses nothing |
| Catalogues: badges, tiers, point settings, categories | one row each | create, update, delete, restore | what is in use is not deleted |
| Listings (every `*.repository.ts` with a cursor) | the cursor a client holds | read the next page | a row that stays as it is is read once |
| Migrations (`migrations`, `/scripts/migration.ts`) | the schema, the table `migrations` | up, down, reset, fresh, run | every version can be taken to the head, the head is what the entities need |
| HTTP shell, seeders, editor | none of their own | | |

### 1.3 How they meet

The profile row (`user_profiles`) is where most components meet: exchanges and
redemptions lock it; rewards (from posts, comments, reviews, reports,
attendance, site requests, logins, registration), badges, the admin's edit of a
user, a user's edit of the profile and the IP synchronisation job write it
without a lock. The second meeting place is the user's role, written by partner
approval and the admin; the third, `site_managers`, which exchanges read to
authorise a manager. Messages go one way, from use cases through Redis to
sockets. `PROJECT.json` lists the hazards this produces, each at its line.

## 2. What is modelled

| module | models | state |
|---|---|---|
| `PointOrderContract` | the abstract promise of an exchange or a redemption: take the points; then complete, or undo and give back, once | `balance`, `deal` |
| `PointExchange` | the eight exchange use cases, their transactions, row locks and messages | `points`, `ledger`, `exchange`, `rowLock`, `req` |
| `GifticonRedemption` | the catalogue and the four redemption use cases | `points`, `ledger`, `gifticon`, `redemption`, `rowLock`, `req` |
| `PointAccount` | every kind of writer of one user's balance | `points`, `ledger`, `rowLock`, `work`, `clean` |
| `UseCases` | requests in progress; extended by the components below | `job`, `calm` |
| `BadgeRequests` | the badge catalogue, requests for badges of users and sites, awards | `badge`, `request`, `award` |
| `Memberships` | accounts, roles, partner requests, applications, site managers | `account`, `roleRow`, `partnerReq`, `application`, `site`, `manager` |
| `Sessions` | tokens, passwords, reset by mail; of users and of administrators | `account`, `token`, `code`, `grant`, `rewarded`, `resetAt` |
| `SignUp` | codes by telephone, registration, change of the number | `otp`, `phoneOf`, `member`, `formerly`, `sent` |
| `Attendances` | check-in, streaks, ranks, reward | `day`, `clock`, `stat`, `rewards` |
| `Catalogue` | categories, tiers, sites, requests for sites | `label`, `site`, `request` |
| `Media` | files of sites, events and gifticons, and the rows that name them | `row`, `disk`, `left`, `spoilt` |
| `BlockedIps` | block lists, their copies in Redis, addresses of users | `seen`, `blocked`, `cache`, `expires`, `tracked`, `broken` |
| `Writings` | posts and comments, `user_posts`, `user_comments`, `has_child`, the commands that rebuild them | `writ`, `record`, `stale`, `tidy` |
| `Moderation` | site reviews with the statistics of sites, scam reports | `review`, `stat`, `report`, `stale`, `agreed` |
| `Listings` | all lists that are read with a cursor | `listing`, `row`, `cursor`, `pages`, `edits`, `touched`, `reliable` |
| `Migrations`, `Entities`, `SchemaHistory` | the 97 migrations, the columns of the entities, the commands of `/scripts/migration.ts` | `schema`, `executed`, `resetting` |
| `MCPointExchange`, `MCGifticonRedemption`, `MCPointAccount`, `MCAccounts`, `MCContent`, `MCSchemaHistory` | the instances TLC checks | |
| `PointExchangeProofs`, `GifticonRedemptionProofs`, `PointAccountProofs`, `BadgeRequestsProofs`, `MembershipsProofs`, `CatalogueProofs` | theorems about one component and their proofs | |
| `AccountsProofs`, `ContentProofs` | theorems about the compositions `MCAccounts` and `MCContent`, and about the components that have no module of proofs of their own | |

### 2.1 PointExchange

`req[h]` is the local state of one HTTP request: its place in the code (`pc`),
the use case (`op`), the copy of the exchange row it read, the balance it
computed, its scheduled message.

| pc | where the code is |
|---|---|
| `checked` | past the checks on rows read outside the transaction |
| `locked` | `SELECT ... FOR UPDATE` of the profile answered, new balance computed |
| `written` | balance, exchange and ledger row written in the transaction, `POINT_UPDATED` scheduled; the exchange row is locked too |
| `committed` | `COMMIT` answered, or the single `UPDATE` of an approval |
| `returned` | row read again for the payload, `EXCHANGE_*` message scheduled |
| `failed` | transaction rolled back |

`RequestExchange`, `Cancel`, `AdminReject`, `AdminApprove`, `AdminProcess`,
`ManagerReject`, `ManagerApprove`, `ManagerProcess` are the eight handlers up to
their transaction (reject and approve and processing exist for both roles);
`LockProfile` or `InsufficientPoints`, then `InsertExchange` or `WriteDecision`,
then `Commit` or `Abort` is the transaction; `UpdateDirectly` the `UPDATE` of an
approval or a move to processing, which runs in no transaction. The columns each
use case writes are `CancelledRow`, `RejectedByAdmin` and so on. In the database
writes become visible at `Commit`; until then `WriteDecision` and
`UpdateDirectly` of others wait for the row.

`Overlap` is not in the code: with `Overlap = FALSE` two decisions on one
exchange are never in progress at once, which is what the checks before the
transaction silently assume. With `TRUE` they overlap freely, as they can in
production.

### 2.2 GifticonRedemption

The same shape, plus the catalogue: a gifticon is a status, a price and a
`period` that stands for now against `startsAt` and `endsAt` (`TimePasses` moves
it). `UpdateGifticon` replaces status, period and price by any others, which
covers two overlapping edits. `Redeem` needs a published gifticon in its period
and keeps the price it read. A handler ends with its commit here; what follows
it is the code that `PointExchange` has for exchanges.

### 2.3 PointAccount

One user, because no writer touches two profiles. `work[w]` is a handler or job
that wants to write the balance.

| kind | code |
|---|---|
| `spend`, `refund` | exchanges and redemptions: locked read |
| `earn`, `charge`, `fine` | `PointRewardService.rewardPoints` with a positive setting, with `requireSufficientPoints`, with a negative setting (cut at zero) |
| `adjust` | `UpdateUserUseCase`: an absolute balance, ledger row only if it changes |
| `award`, `remove` | `AssignBadgeUseCase` and `ApproveUserBadgeRequestUseCase`; `RemoveBadgeUseCase`, which has no transaction |
| `touch` | a save of another column: `syncUserIps`, login, `UpdateProfileUseCase` |

`ReadUnderLock` or `Read` takes the balance; `Compare` is the SELECT inside
TypeORM's `save` (with nothing to change there is no UPDATE); `Update` waits for
the row lock and holds it; `Commit` makes balance and ledger row visible.
`RecordRemoval` is the ledger row that a removal commits on its own before the
balance. `clean` is a history variable: no two writers overlapped so far and no
removal broke off between its ledger row and its balance.

Abstractions: several badges given in one call are one amount; a login that
both stores the IP and earns the daily reward is two writers one after the
other; the spends and refunds are reduced to their lock, read, write and commit
(their own order and rows are in the two modules above).

### 2.4 PointOrderContract

`Ask` takes the points and opens an order, `Complete` closes it, `Undo` gives the
points back. `Conserved`: what a user has plus what open and completed orders
hold is what the user began with. `PointExchange` and `GifticonRedemption`
instantiate it with `deal` computed from their rows (`Deals`): pending and
processing are `open`, cancelled and rejected `undone`.

### 2.5 UseCases and the modules that extend it

A handler is a request in progress; `job[h]` holds what its use case has read
and where it is (`op`). `Begin`, `Continue` and `End` enter a use case, go on to
its next statement and leave it. An action named `Check...` is what a use case
does up to its transaction or its write; the action with the use case's own name
is the rest. A use case whose checks nothing can overtake is one step (`AtOnce`).
`Fail` gives up at any point: an error, a rollback, the end of the process. The
operators named after controllers list the routes that begin use cases.

`calm` is a history variable: no two use cases of the component have overlapped
so far. What the code guarantees by an index, a row lock or a condition in the
statement is claimed of all behaviours; what it guarantees only by a check before
the write is claimed while `calm`, and the comment at the property says what
overlap breaks it. The claims that are made only while `calm` are therefore also
the list of what the code leaves to luck.

**BadgeRequests.** Approval and rejection lock the request first
(`ApproveUserRequest` to `CommitApproval`); `Cancel`, `InsertRequest` and `Assign`
look and write later, and a cancellation waits for the lock but does not look
again. There is no unique index on awards, so `award` is a count.

**Memberships.** Roles are rows without an index (`roleRow`): partner approval adds
one, an admin's update rewrites them, approval of an application converts them.
`UpdateUser` saves the entity it read before the transaction. Managers are
deactivated, never deleted. `Register` makes users without a role row, who are users
by the code's fallback.

**Sessions.** A token row points to the row it was made from. One instance has the
accounts of users and of administrators; where the two copies of the code differ
(rewards, who can be switched off) a guard asks which it is. An account's `state` is
`isActive` and `deletedAt`: `Register`, `CreateUser` and `CreateAdmin` make it, login,
refresh, the codes and the reset ask for it (`Active`), the guard of a route with a
token does not (`Valid`). `UpdateUser` and `DeleteUser` revoke the tokens that are live
at their write, a reset those it read. Every writer of `users`, `admins`,
`user_tokens` and `admin_tokens` is there: login, change and reset of the password,
`UpdateUser` and `DeleteUser` save the account as they read it, and so do the use cases
that change other columns only, `update-profile`, `GET me` and `remove-badge`
(`SaveProfile`), which is what makes them dangerous. Codes and grants live in
Redis and end by themselves (`Expire`). `NewDay` is midnight in Korea.

**SignUp.** One row of `otp_requests` per number that is not deleted; each use case
reads it and saves it whole. `sent` counts the codes of a throttle window. The
profile is saved whole, number included, by login, rewards, `GET me`, the admin and
badge use cases: `SaveProfile`.

**Attendances.** `CheckIn` reads yesterday, `InsertStatistic` the rows of the day that
its transaction sees, `CreateAttendance` commits row, ranks and reward, or fails on
the unique index. The total of a user's days starts again at one after a missed
day, as in the code (`/work-log.md:922` expects it to go on).

**Catalogue.** `label` is categories and tiers. Name checks take the first row ILIKE
finds (`Contains`), as the code does; `checked` remembers whether a site's name and
filing have been compared with the others at all: neither the approval of a request
nor a restore does so. A failed approval has moved the images away for good
(`images`).

**Media.** Upload, row, deletion of the old file are three steps outside any common
transaction. `left` is what broken-off requests leave behind; `spoilt` is set by the
two ways in which the code itself deletes files of committed rows: the `finally` of
the site-event update after a rollback, and the `catch` of the site use cases after
the reload behind a commit fails.

**BlockedIps.** A change in PostgreSQL, then read, DEL, SADD and EXPIRE in the
background, each its own step, refreshes overlapping.

**Writings.** Deleting a post or a review's or report's comment is a statement on the
repository's own connection, then one on the record in a transaction; comments of
posts go with their replies in one transaction. After a reply or a deletion
`has_child` is looked up and set in two more statements. `Sync` lists the rows of one
user and table, then writes their records one by one, then deletes orphans. `tidy`
and `stale` remember where one of these broke off.

**Moderation.** A review is written, then the published ones are counted, then the
site's statistics are stored. The unique index counts deleted reviews. Users may
change reports only while pending; administrators at any time, and save the text
they read. `agreed` is the text first published, or the one an administrator saw.

### 2.6 Listings

A `listing` describes one repository method: its ORDER BY, the column its cursor
holds, how the WHERE of the next page is written. `ReadPage` is one request of a
client, `Edit` a change of the table by anybody. `Reliable(listing, table)` says for
which tables a listing tells its rows apart; `ReadsEachOnce` is claimed of exactly
those. A page is the set of rows the client got: in which order they stand on it is
left out. What `Reliable` has to exclude is what the comparison of the listings found:

* a cursor keeps milliseconds, the columns microseconds: an ascending list reads the
  last row of a page again, a descending one loses rows of the same millisecond;
* comments of a post are sorted by time and continued by id;
* deleted sites are continued without a value, the tether list without order or cursor;
* POCA events are sorted by banner order first and continued by the other column;
* rows whose sort key is null (gifticons, POCA events without a start) fall out of page two;
* published posts sorted by a count fail on page two (an aggregate in WHERE): there is
  no such page in the model.

### 2.7 SchemaHistory

`Migrations` has one definition per migration, `up` and `down`, as sets of tables,
columns, indexes, types and rows that are added, dropped or needed. `Entities` lists
the columns TypeORM reads and writes. A database in use has at least `First`
migrations: no migration creates `tiers` and `site_managers` and some early ones
create what others created (`ByHand`), so `fresh` on an empty database fails, and the
model keeps that branch. `RunFile` records the name the script makes of a file name,
which no class has if the file's name has more than one hyphen.

## 3. The runs

| run | instance | checks | shows |
|---|---|---|---|
| `exchange_serial` | 2 users, one of them manager of the site, 1 admin, 2 exchanges, 2 requests in progress, no overlapping decisions | `TypeOK`, `LedgerChained`, `RefundedIffUndone`, `PointsConserved`, `AnnouncesOwnDecision`, `ImplementsContract` | requests and refunds of one user interleave freely; the row lock keeps the balance and the ledger together; every commit is one step of the contract; the message names the handler's own decision although its payload is read again |
| `exchange_race` | 1 user, 1 admin, 1 exchange, 2 requests, overlapping decisions, fairness | `UndoneIsRefunded`, `RefundFollowsSpend`, `EveryHandlerReturns` | what survives the races: a failed transaction leaves no half of a decision, no refund is without its spend, and nobody waits for ever |
| `exchange_refund_twice` | the same, three amounts | `RefundsOnlyOpen` | violated, see 6.1 |
| `exchange_early_message` | the same | `PublishedAfterCommit` | violated, see 6.2 |
| `gifticon_serial` | 1 user, 1 gifticon, 2 redemptions, 2 requests, prices 1 and 2 edited at any time | `TypeOK`, `LedgerChained`, `RefundIsWhatWasPaid`, `ImplementsContract` | edits of the catalogue between offer, redemption and refund change nothing about what is owed |
| `gifticon_rollback` | the same, overlapping decisions | `CompletedCannotRollback` | violated, see 6.3 |
| `account_writers` | 2 writers of any of the nine kinds, amounts 0 to 2, 3 ledger rows | `TypeOK`, `CleanLedgerChained`, `LockedReadIsFresh`, `BalanceIsOnRecord` | serial writers keep balance and ledger together, whatever their kinds; locked reads stay fresh among writers that do not lock; a stale save can bring an old balance back and never invents one |
| `account_lost_update` | the same, only spends and the IP job | `EveryWriteMovesItsAmount` | violated, see 6.4 |
| `accounts` | `BadgeRequests`, `Memberships`, `Attendances`, `Sessions`, `SignUp`, one of them per behaviour; 2 handlers, which overlap without end in the first three and not at all in the last two | `TypeOK`, `CalmAwards`, `CalmManagersArePartners`, `OneOpenEach`, `DecidesPendingOnly`, `CalmSessions`, `CalmPhones`, `OncePerDay`, `CalmAttendance` | row locks and unique indexes hold under any overlap: decisions on pending requests only, one open request, one check-in and reward a day; without overlap badges are awarded once, managers are partners, streaks and ranks are right; in any sequence of use cases tokens serve once and die with a reset, a deactivation or a deletion, whatever is switched on again and saved over it, numbers have one verified owner and codes keep their limit |
| `content` | `Catalogue` (two instances), `BlockedIps`, `Media`, `Writings`, `Moderation`, `Listings`, one of them per behaviour; 2 handlers | `TypeOK`, `CalmCatalogue`, `MadeOnce`, `CopiesFollow`, `FilesOfRows`, `ReadsEachOnce`, `OnRecord`, `OneReviewEach`, `CalmPublished`, `CalmDerived` | an approved request has one site; copies of block lists expire and follow; rows name files that exist; records follow posts and comments through broken-off deletions and rebuilds; what is published was seen; pages lose and repeat nothing for the tables 2.6 describes |
| `schema` | all 97 migrations, down to the 20th, two files run by name | `TypeOK`, `AtHeadServesTheCode`, `DownRestoresTheVersion`, `VersionsReachHead` | whichever way up and down, each version reaches the head, and the head has every column of every entity and the unique indexes the other models rely on |
| `schema_reset` | the same | `ResetRevertsAll` | violated, see 6.5 |

Each property of a passing run has a mutant in `PROJECT.json`: a definition of
the model with one plausible bug (the lock forgotten, a status misspelt, a sign
lost, the rollback that keeps the lock), under which TLC reports exactly that
property violated. The mutants stand beside the definitions they change.

## 4. Bounds and fairness

* *Two handlers or writers at a time.* Every race listed is one of two; the
  third party, where there is one, is the committed database. Handlers become
  idle and start again, so long sequences of calls are covered up to the ids.
* *Exchange and redemption ids* (1 or 2) bound the number of orders over a
  behaviour. Two are enough for a refund of one beside a request of the other,
  and for a ledger of four rows. Ids run out, so the exchange instances come to
  rest: their configurations say `CHECK_DEADLOCK FALSE`. The gifticon and account
  instances never stop (the catalogue, the IP job) and are checked for deadlock.
* *Amounts.* 5000 (below the minimum), 10000, 15000 (not a multiple) and a balance
  of 15000 or 10000: one request succeeds, a second is refused, an illegal amount
  exists. Account amounts 0, 1, 2 against a balance of 1 reach the cut at zero and
  the setting of zero. Prices 1 and 2 against 3 points: one or two redemptions.
* *MaxEntries* = 3 ledger rows of the account: enough for one write to be
  overwritten and another to be recorded on top.
* *One part per behaviour* (`part` in `MCAccounts` and `MCContent`). Components do share
  use cases: an admin's edit of a user writes the account, the roles, the managers, the
  tokens and the profile. Such a use case is in each of these components, with its
  guards and with what it does to that one's rows: `UpdateUser` in `Sessions` (account and tokens) and in `Memberships` (roles and
  managers), the save of the profile in `SignUp`. So every writer of a component's rows
  is in the component, its interleavings are all there, and no property relates rows of
  two of them. The columns of a site are written by name in three
  components of `MCContent`: name, slug and filing in `Catalogue`, images in `Media`,
  statistics in `Moderation`. The instances stop when ids run out: `CHECK_DEADLOCK FALSE`.
* *UntilOverlap*, an action constraint. In `accounts`: of sessions and numbers everything
  is claimed of `calm` behaviours only, and `calm` never comes back, so there a second use
  case waits for the first; that overlaps leave the types alone is in `AccountsAreTyped`.
  Badges, memberships and attendance overlap without end. In `content`: two
  use cases that have begun to overlap are brought to an end and nothing else happens.
  The claims about any overlap (`MadeOnce`, `OnRecord`, `OneReviewEach`, the banners of
  `FilesOfRows`, the expiry in `CopiesFollow`) so see every overlap of two use cases after
  any calm history.
* *OneAccount*, an action constraint of `accounts`: in a behaviour of sessions only
  users have accounts, or only administrators; no use case touches two accounts.
* *OneItem*: images of one item, block list of one scope, reviews or reports, one kind
  of post or comment at a time, because different ones share no row; three comments
  and two authors only for comments of posts, which alone are deleted as a tree;
  categories are deleted in the part with tiers, where a site has both.
  *NextOfAlike* numbers sites, slugs, files, reviews and authors in order of use, a
  symmetry. *OneLoss*: one follow-up of a deletion or reply is lost, and one file is
  left behind, per behaviour.
* *Accounts.* `MaxAwards` = 2 rows of one badge (a double award), `RoleRows` = 3 (a role
  twice and another), 2 partner requests, 2 applications, 3 `Tokens` (a refresh of a refresh),
  `MaxPasswords` = 1 change, `MaxRequests` = 2 codes in the throttle window (one is
  allowed, one refused after it), `MaxDay` = 2 with two people: a streak, and ranks of
  two.
* *Content.* Two names, one containing the other; two slugs; three files and
  `MaxBanners` = 2 (10 in the code): the limit is reached and exceeded. Lists: 3 rows,
  3 values of which one is between milliseconds, pages of 1 and 2, `MaxEdits` = 1 change
  while a client reads, `MaxPages` = 4.
* *Schema.* `Bottom` = `First` = 20: below, the migrations are the ones passed over by
  hand. `RunFrom` = 74 and two names in `Runnable`: files run by name near the head, one
  with the name of its class and one without.
* *Symmetry* is used for handlers and ids (applications, writers, people, numbers; never
  ids the code compares by age) in the runs that check safety only; the fair run has none.

Fairness is stated in `FairSpec` of `PointExchange` and used by
`EveryHandlerReturns` alone. Weak fairness of each handler's next step: the event
loop runs every ready continuation and the database answers every statement.
Strong fairness of the two steps that wait for a row: PostgreSQL grants a row lock
to its waiters in order of arrival, so a handler cannot be overtaken for ever,
though the row is free and taken again many times. No handler has to start, and
none has to fail. No liveness is claimed of the other components: their
follow-ups (`has_child`, statistics, copies in Redis) have no retry, so they need not
ever happen.

## 5. The proofs

Every theorem holds for all users, sites, rows, ids, handlers, amounts and bounds
that satisfy the named assumptions of the modules, which TLC evaluates in the runs:
`None` is nobody and no row or kind (`NoneIsNoHandler`, `NoneIsNoUser`, `NoneIsNobody`,
`NoneIsNoRow`, `NoneIsNoKind`, `NoneIsNoId`, `NoneIsNoWrit`; `EverybodyIsNoUser` for the list
of all users, `NullIsNoNumber` for the null of a cursor), ids of two kinds differ (`IdsDiffer`), a limit is a number (`MaxAwardsIsNumber`,
`LimitIsPositive`, `MaxPasswordsIsNumber`), amounts and ids are naturals and so ordered
(`TokensAreOrdered` and its like), the people of an attendance list and the files on disk
are finitely many (`FiniteInstance`, `FilesAreFinite`). Where a theorem says less than
"whatever overlaps", the restriction is in the property (`calm`, see 2.5) or it is the
hypothesis `Overlap = FALSE`.

Each proof is that of an inductive invariant, which TLC checked before. Those of the
components are stated at the end of the component's module, with the reason of each
part; they always contain the types of the rows and, as `JobsAreReal`, what a use case
in progress has in hand. Where a component locks rows, the invariant says what the lock
keeps; where it only checks first, `ChecksStand` says that what was checked is still so
while nothing overlaps; where a unique index decides, that the index is respected by
every write.

Points:

| theorem | says | argument |
|---|---|---|
| `PointExchangeProofs!Typing` | `[]TypeOK` | inductive with `ReferencesExist`: a busy handler has an actor of the right kind and, once it has an exchange, one that exists. Without it `NewRow` could write an admin column with somebody who is none |
| `PointExchangeProofs!LedgerIsAChain` | `[]LedgerChained`, overlaps and failures included | inductive with `LockedBalance`: a handler past its lock holds it, and its computed balance is the current one plus its amount. Hence nobody else commits to that profile before it, `ClampToZero` cuts nothing off, and the appended row extends the chain (`ChainGrows`) |
| `PointExchangeProofs!RefundsAnswerSpends`, `UndoneExchangesAreRefunded` | `[]RefundFollowsSpend`, `[]UndoneIsRefunded`, overlaps included | inductive `HistoryInv`: the id of a request is its own until it commits (`NewIdsAreOwn`, `NewRowsArePending`), a row's owner and amount never change and every copy has them (`CopiesKeepTheDeal`), and what exists has its spend in the ledger (`SpendsOnRecord`) |
| `PointExchangeProofs!MessagesShowTheDecision` | `[]AnnouncesOwnDecision` with `Overlap = FALSE` | the row read again for the message is still the one that was decided: `SerialInv` with `DecisionStands` |
| `PointExchangeProofs!RefundedOnceIffUndone` | `[]RefundedIffUndone` with `Overlap = FALSE` | `SerialInv` (nobody else decides, the copy is the row) and `RefundsAreOnce`. With overlap it is false: finding 1 |
| `PointExchangeProofs!PointsAreConserved` | `[]PointsConserved` with `Overlap = FALSE`, for any number of exchanges | the refinement below: every step is one of the contract's, and the contract conserves (`ContractInv`). That one order's points come and go from the sum over all of them is an induction on finite sets, for which `WFMin` of the library serves: it takes sets, not operators |
| `PointExchangeProofs!ExchangeRefines` | `Spec => ImplementsContract` with `Overlap = FALSE` | inductive `SerialInv`: the row a handler read is still the row, it is open, and nobody else is busy with that id; an absent row is empty. Then `Commit` is `Ask` or `Undo`, `UpdateDirectly` is `Complete` or a stutter, all else stutters |
| `GifticonRedemptionProofs!Typing`, `LedgerIsAChain` | `[]TypeOK`, `[]LedgerChained`, overlaps included | as for the exchanges: `LockedBalance` |
| `GifticonRedemptionProofs!RefundsAreWhatWasPaid` | `[]RefundIsWhatWasPaid`, overlaps included | `HistoryInv`: a redemption keeps the points it was made for, whatever the gifticon's price is by then |
| `GifticonRedemptionProofs!RedemptionRefines` | `Spec => ImplementsContract` with `Overlap = FALSE` | `SerialInv`, step by step as above |
| `PointAccountProofs!Typing` | `[]TypeOK`: no negative balance, whatever overlaps | every saved balance is a natural because of `ClampToZero`, an award's sum or an admin's natural |
| `PointAccountProofs!LockedReads` | `[]LockedReadIsFresh` | inductive `LockInv`: a spend or refund holds the lock from its read on, and a dirty `UPDATE` holds it too, so no other write commits in between |
| `PointAccountProofs!OnlyRecordedBalances` | `[]BalanceIsOnRecord` | inductive `RecordInv`: every balance a writer has seen is on record, and a removal's new balance once its row is |
| `PointAccountProofs!CleanLedgers` | `[]CleanLedgerChained` | inductive `AloneInv`: while `clean`, at most one writer works, it has seen the current balance, and only a removal between its two writes is ahead of it |

Accounts. The theorems of `AccountsProofs` are about `MCAccounts`, the one that is checked:

| theorem | says | argument |
|---|---|---|
| `BadgeRequestsProofs!Typing` | `[]TypeOK` of the component | rows and jobs |
| `BadgeRequestsProofs!DecisionsAreOfPending` | `DecidesPendingOnly` of the component, overlaps included | `LocksHold`: who is past the lock has it, alone, and the row is as it was read under it |
| `BadgeRequestsProofs!ChecksAreEnough`, `AccountsProofs!AwardsAreCalm` | `[]CalmAwards` | `ChecksStand`: while use cases do not overlap, the badge that was looked up is there and not awarded yet |
| `MembershipsProofs!Typing` | `[]TypeOK` of the component | rows and jobs |
| `MembershipsProofs!OpenOnce`, `AccountsProofs!OpenRequestsAreOne` | `[]OneOpenEach`, overlaps included | the partial unique indexes; requests are reopened by nobody |
| `MembershipsProofs!DecisionsAreOfPending` | `DecidesPendingOnly` of the component, overlaps included | `LocksHold`, as for badges |
| `AccountsProofs!OnlyPendingIsDecided` | both together, `DecidesPendingOnly` of the composition | the two theorems, and that the other parts leave these rows alone |
| `MembershipsProofs!ManagersStayPartners`, `AccountsProofs!ManagersArePartnersWhileCalm` | `[]CalmManagersArePartners` | `RolesStand`: whoever is about to become manager is a partner still, whoever is about to lose the role manages nothing |
| `AccountsProofs!SessionsAreCalm` | `[]CalmSessions` | `ReadsStand`: what a use case that is alone has read of an account and its tokens is so, its state included, because every use case that writes them is in the module; a token's `from` is an older token (`FromIsToken`), so what a refresh revokes is served by nobody; a live token is of an active account, for whoever ends the account ends its tokens (`AccountKept` for the use cases that save it unchanged) |
| `AccountsProofs!AttendanceIsCalm` | `[]CalmAttendance`, for any number of people and days | `CheckInsStand`: the rows of a day have times of their own, a streak is the run of days behind its row, a rank the row's place among those of its day; a check-in in progress comes after all of them and has seen those of its day. `RanksNumberRows` gets from there, by cardinalities, that ranks number the rows |
| `AccountsProofs!RewardedOncePerDay` | `[]OncePerDay`, overlaps and midnights included | `StatsAreRows`, `CheckInsAreReal`, `InsertsAreAlone`: the index lets one insert of a user and day through, and the reward is written in its transaction |
| `AccountsProofs!AccountsAreTyped` | `[]TypeOK`, overlaps included | of each part, by its invariant or its own theorem; what of a number or an account no other proof looks at (`MembersAreTyped`, `CodesAreTyped`) by an invariant of its own |
| `AccountsProofs!NumbersAreCalm` | `[]CalmPhones` | `ChecksStand` (what was read of the row of a number is so, but for what expired), `SentIsCounted` (the row counts every code of its window) and `NumbersAreTheirs` |

Content. The theorems of `ContentProofs` are about `MCContent`:

| theorem | says | argument |
|---|---|---|
| `CatalogueProofs!Typing` | `[]TypeOK` of the component | rows and jobs |
| `CatalogueProofs!SitesAreMadeOnce`, `ContentProofs!SitesMadeOnce` | `[]MadeOnce`, overlaps included | `SlugsDiffer` from the index, deleted rows included; `ImagesMoveOnce`: the images of a request are moved by one approval, and the others fail |
| `CatalogueProofs!CatalogueIsCalm`, `ContentProofs!CatalogueWhileCalm` | `[]CalmCatalogue` | `ChecksStand`: the category and tier that were found are there, the name that was looked for is not, a request about to be approved has no site |
| `ContentProofs!CopiesFollowLists` | `[]CopiesFollow`, overlaps included | `RefreshesAreReal`, `CopiesExpire` (a copy without expiry is one a refresh is about to give one, or one that broke off left), `CopiesStand` (what a refresh that is alone has read is the list) |
| `ContentProofs!OneReviewPerSite` | `[]OneReviewEach`, overlaps included | the unique index, and that nothing moves a review to another author or site |
| `ContentProofs!PublishedAsAgreed` | `[]CalmPublished` | `ReadsStand`, `ChecksStand`: the review or report an administrator decides on is the one that was read |
| `ContentProofs!FilesStayWithRows` | `[]FilesOfRows` | whatever overlaps, each upload makes a file of its own, so a file is in one row or one request (`OwnFiles`, `BannersApart`); while nothing overlaps, a request deletes what it takes out of the row (`DeletesWhatItDrops`) and every file is in a row, in a request or left by one that broke off (`NothingLost`) |
| `ContentProofs!DerivedWhileCalm` | `[]CalmDerived` | comments, `MarksStand`: a deletion knows the one parent whose replies it changes, for what hangs on a deleted comment goes with it (`BelowHangs`), and a refresh of `has_child` has seen the replies of now; reviews, `CountsStand`: each write of a review is followed by a count of its site, and the reviews of other sites are not touched |
| `ContentProofs!RowsAreReadOnce` | `[]ReadsEachOnce`, for any table, number of pages and of edits | `PagesStand`: a row the client may rely on is unread exactly if it comes after the cursor, and else read once. Every listing has one of four shapes (`ListingsAreShaped`); on a table it is reliable for, the ORDER BY of a page and the WHERE of the next say the same (`PrecedesIsFollowing`), and that is an order (`FollowingIsAnOrder`) |
| `ContentProofs!ContentIsTyped` | `[]TypeOK`, overlaps included | of each part; that the statistics of a site are numbers needs that finitely many reviews are ever written (`StatisticsTyped`), that only seen addresses are blocked that addresses are never unseen (`MoreIsSeen`) |
| `ContentProofs!RecordedWhileLive` | `[]OnRecord`, overlaps and failures included | `SyncsStand`: a command that runs alone has listed each row of the kinds it is done with, as it is; and of a comment tree the records that go are a superset of the rows that do, all of them dead (`BelowGrows`) |

From a component to a composition: the part that runs is chosen at first and never
changes (`PartStays`), so a behaviour of `MCAccounts` or `MCContent` in which it is "badges",
say, is a behaviour of `BadgeRequests` (`BadgesRun` and its like), and in all others the
property says nothing. The theorems come in by an `INSTANCE` of the component's proofs; since
that makes a second instance of the component, lemmas (`SameBadges`, `SameMembers`,
`SameRequests`, `SameTiers`) say that both define the same. The action property needs that
the other parts do not touch the rows, too.

Only model-checked, and why:

* `EveryHandlerReturns`: liveness.
* `TypeOK`, `AtHeadServesTheCode`, `DownRestoresTheVersion` and `VersionsReachHead` of
  `SchemaHistory`: they are facts about 97 concrete migrations, computed one after the
  other, and not about parameters. Already that the databases a run starts from have the
  table of each of their columns is such a computation: what a proof could add would rest
  on it as an assumption. The run visits every version from the twentieth on.

## 6. What the runs found

1. *Refunded after it was decided* (`exchange_refund_twice`). Cancel, admin reject and
   manager reject check the status on a copy read before the transaction and update
   by id. Two of them overlap: both refund. An approval in between is overwritten
   and refunded as well. `RefundedIffUndone` therefore holds only without overlap.
2. *Message before commit* (`exchange_early_message`). `POINT_UPDATED` is scheduled in the
   transaction's callback; the comment above it says after the commit.
3. *Completed redemptions roll back* (`gifticon_rollback`). The same race in redemptions,
   against the comment of the enum, "Approved, cannot rollback".
4. *Locked movements are lost* (`account_lost_update`). The job that synchronises IPs reads
   a profile, a spend locks, changes and commits it, and the job's `save` writes the
   old balance back. The other unlocked writers can do the same.
5. *A reset stops half-way* (`schema_reset`). The `down()` of UpdateInquirySystem does not
   create the tables its `up()` dropped, so the `down()` of CreateSupportSystem fails and
   `reset` ends with migrations left, against `/MIGRATIONS.md:83`.

Met while modelling, without a run of their own:

* `commands/scheduler/user-ip-sync.service.ts:34` says the job runs every five minutes,
  line 36 runs it every five seconds, which makes 6.4 sixty times as likely.
* `shared/middleware/ip-tracking.middleware.ts:131` says the scheduler will fill the cache
  of blocked addresses; nothing does.
* A refresh of a block list that breaks off between SADD and EXPIRE leaves a copy that
  never expires; two refreshes at once leave the union of an old and a new list.
* `modules/user/application/handlers/admin/update-user.use-case.ts:178`, "User can only
  have 1 role", does not hold after a partner approval or an overlap.
* Two refreshes of a token, a refresh beside a reset or a deactivation, and two first
  logins of a day each pass their check (`CalmSessions` says what holds otherwise).
* The account is saved as it was read by `login.use-case.ts:99`, `update-profile.use-case.ts:209`,
  `admin/update-user.use-case.ts:108`, `admin/remove-badge.use-case.ts:103` and `GET me`
  (`user.controller.ts:378`): beside a reset of the password they put the old one back, beside a
  deactivation or deletion they take it back. The hazards in `PROJECT.json` list these races
  with no property, because the code has nothing against them.
* A registered user has no row in `user_roles`; only the admin's use cases make one.
* The approval of a site request compares neither name nor category with what is there
  now; a restored site is compared with nothing; an approval that fails after moving the
  images can never be repeated; without images it can be done twice.
* `migrations/1767800000000`, line 160, calls the index of slugs one "only for non-deleted
  sites"; it covers all rows.
* The unique index of reviews counts deleted ones: who deletes a review cannot write
  another about that site, though the use case looks only for one that is not deleted.
* An edit of a review is taken back from publication only if it was published when read:
  an approval in between publishes a text nobody saw.
* The deletion of a post says "in transaction"; the row itself is deleted outside of it.
* `update-post`, like the update of site events, deletes the old image in a `finally`, after
  a rollback too (the first is not modelled).
* `CalculateAttendanceStatisticsUseCase` is never called.
* `fresh` fails on an empty database: no migration creates `tiers`.

## 7. What could come next

* Proofs: that a `down()` which undoes its `up()` restores a version, for any list of
  migrations of that kind.
* One contract for everything that is decided once (badge, partner and site requests,
  applications), as `PointOrderContract` is for orders.
* Reactions with their unique index, and the counters computed from them.
* Delivery of messages: rooms, reconnection and what a client misses.

## 8. Not modelled

* Reactions; edits of posts and comments with their images and thumbnails; post
  categories; highlights; favourites, search and site history; avatars; site domains and
  verification; views, which are counters. Each is one row written by one use case; the
  hazards they share with what is modelled (stale saves, files deleted before a commit)
  are stated there.
* What a manager may do on the site he manages (`update-managed-site.use-case.ts`): its check of
  the active manager and of the verified site. What it writes is what `update-site` writes, in
  `Catalogue` and `Media`. The creation of badges with its comparison of names; the
  approval of site events (`isActive`); which permissions an administrator has.
* Support inquiries (only their lists), point settings, history of points: one row each.
* Realtime delivery: at most once, to whoever is connected, and no row depends on it. The
  publishing side is in `PointExchange`.
* The counter of the throttle, the mail queue (a code is valid whether its mail arrives
  or not), uploads of the editor (named by text the models do not look into).
* In `Writings`: who may write or delete what, posts of administrators (no record), and
  the rows of `user_comments` that stand for reviews. In `GifticonRedemption`: messages and
  slugs. In `Media`: banners that are links to other hosts.
* Validation of input (the models start from inputs that passed it), filters of lists and
  caps on their length, formatting and translation, metrics and logs; seeders, which insert
  fixed rows.
* The inside of PostgreSQL, TypeORM, Redis, BullMQ and Socket.IO, of which the models have
  only what the code relies on: commits and row locks, unique indexes, `save`, single
  commands, at-most-once messages; the criterion `revokedAt: null` of an update (`update-user`,
  `delete-user`) is read as IS NULL.
