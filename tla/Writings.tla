------------------------------ MODULE Writings ------------------------------
(***************************************************************************)
(* What users write, posts and comments, and the rows of user_posts and     *)
(* user_comments that count it; has_child of the comments; and the commands *)
(* that rebuild the two tables.                                             *)
(*                                                                          *)
(* Who may write and delete what is left out, and so is the text: a request *)
(* that is refused changes nothing.  Nor do the rows of user_comments       *)
(* appear that stand for site reviews, nor posts of administrators, which   *)
(* have no record.                                                          *)
(***************************************************************************)
EXTENDS UseCases, Sequences

CONSTANTS
  Authors,
  Writs       \* ids of posts and comments, in the order of their creation

\* Assumed of the constants.
WritsAreNumbers == Writs \subseteq Nat

\* The tables a row can be in; the three comment tables name themselves as
\* parents, the posts' does not.
CommentKinds == {"post_comment", "site_review_comment", "scam_report_comment"}
Kinds == CommentKinds \cup {"post"}

NoneIsNoKind == None \notin Kinds
NoneIsNoWrit == None \notin Writs

\* The kinds a command lists, in this order.
Listed(table) ==
  IF table = "user_posts" THEN <<"post">>
  ELSE <<"post_comment", "site_review_comment", "scam_report_comment">>

AllTables == Authors \X {"user_posts", "user_comments"}

TableOf(kind) == IF kind = "post" THEN "user_posts" ELSE "user_comments"

VARIABLES
  writ,       \* posts and comments
  record,     \* the row of each in user_posts or user_comments
  stale,      \* history: comments whose has_child was to be set and was not
  tidy        \* history: users and tables nothing has gone wrong with

vars == <<writ, record, stale, tidy, job, calm>>

NoWrit == [kind |-> None, author |-> None, parent |-> None, live |-> FALSE, hasChild |-> FALSE]

Writ == [kind: Kinds, author: Authors, parent: Writs \cup {None},
         live: BOOLEAN, hasChild: BOOLEAN]

Written == {w \in Writs : writ[w] # NoWrit}

Live(w) == writ[w].live

Replies(w) == {v \in Written : writ[v].parent = w}

TableOfUser(w) == <<writ[w].author, TableOf(writ[w].kind)>>

\* A random id: the next one.
NewWrit == {w \in Writs \ Written : \A v \in Writs \ Written : w <= v}

Init ==
  /\ writ = [w \in Writs |-> NoWrit]
  /\ record = [w \in Writs |-> "none"]
  /\ stale = {}
  /\ tidy = AllTables
  /\ NoJobs

-----------------------------------------------------------------------------
(* Writing: the row and its record in one transaction *)

Insert(author, kind, parent) ==
  \E w \in NewWrit :
    /\ writ' = [writ EXCEPT ![w] = [kind |-> kind, author |-> author, parent |-> parent,
                                    live |-> TRUE, hasChild |-> FALSE]]
    /\ record' = [record EXCEPT ![w] = "live"]
    /\ UNCHANGED <<stale, tidy>>

\* setImmediate: has_child of the parent is set when the request is over.
ToRefresh(parent) == [op |-> "refresh", writ |-> None, parent |-> parent]

CreatePost(author) == Insert(author, "post", None) /\ AtOnce

AddComment(author, kind) == Insert(author, kind, None) /\ AtOnce

\* Only replies to comments on reviews are checked: the others answer any
\* comment of their table.
AddReply(h, author, kind, parent) ==
  /\ writ[parent].kind = kind
  /\ Insert(author, kind, parent)
  /\ Begin(h, ToRefresh(parent))

CheckParent(h, author, parent) ==
  /\ writ[parent].kind = "site_review_comment"
  /\ Live(parent)
  /\ Begin(h, [op |-> "reply", writ |-> None, author |-> author, parent |-> parent])
  /\ UNCHANGED <<writ, record, stale, tidy>>

AddCheckedReply(h) ==
  /\ At(h, "reply")
  /\ Insert(job[h].author, "site_review_comment", job[h].parent)
  /\ Continue(h, ToRefresh(job[h].parent))

-----------------------------------------------------------------------------
(* Deleting *)

Find(h, w) ==
  /\ Live(w)
  /\ Begin(h, [op |-> IF writ[w].kind = "post_comment" THEN "tree" ELSE "delete",
               writ |-> w, parent |-> writ[w].parent])
  /\ UNCHANGED <<writ, record, stale, tidy>>

Finish(h, parent) ==
  IF parent = None THEN End(h) ELSE Continue(h, ToRefresh(parent))

\* The descendants of a comment that are reached through these comments: the
\* least set with all children, among them, of the comment and of its members.
Below(w, through) ==
  {v \in through : \A S \in SUBSET through :
     (\A u \in through : writ[u].parent \in S \cup {w} => u \in S) => v \in S}

\* Mutant: the records of what is deleted with the comment stay.
DeletedOnlyItself(w, deleted) == {w}

\* The comments whose records go: those the second query finds, which follows
\* the comments that are deleted by now.
DeletedWith(w, deleted) ==
  {w} \cup Below(w, deleted \cup {v \in Written : ~Live(v)})

\* delete-comment of posts: the comment and what is live below it, with their
\* records, in one transaction.
DeleteTree(h) ==
  /\ At(h, "tree")
  /\ LET w == job[h].writ
         deleted == {w} \cup Below(w, {v \in Written : Live(v)})
     IN  /\ writ' = [v \in Writs |->
                       IF v \in deleted THEN [writ[v] EXCEPT !.live = FALSE] ELSE writ[v]]
         /\ record' = [v \in Writs |->
                         IF v \in DeletedWith(w, deleted) THEN "deleted" ELSE record[v]]
  /\ Finish(h, job[h].parent)
  /\ UNCHANGED <<stale, tidy>>

\* Posts and the other comments: the repository deletes the row on a connection
\* of its own, although a transaction is open, and commits at once.
Delete(h) ==
  /\ At(h, "delete")
  /\ writ' = [writ EXCEPT ![job[h].writ].live = FALSE]
  /\ Continue(h, [job[h] EXCEPT !.op = "record"])
  /\ UNCHANGED <<record, stale, tidy>>

\* What is left for the transaction.
DeleteRecord(h) ==
  /\ At(h, "record")
  /\ record' = [record EXCEPT ![job[h].writ] = "deleted"]
  /\ Finish(h, job[h].parent)
  /\ UNCHANGED <<writ, stale, tidy>>

-----------------------------------------------------------------------------
(* comment-has-child.service *)

\* Mutant: deleted replies count as well.
AnyReply(w) == Replies(w) # {}

HasLiveReply(w) == \E v \in Replies(w) : Live(v)

LookForChild(h) ==
  /\ At(h, "refresh")
  /\ Continue(h, [op |-> "flag", writ |-> None, parent |-> job[h].parent,
                  hasChild |-> HasLiveReply(job[h].parent)])
  /\ UNCHANGED <<writ, record, stale, tidy>>

UpdateHasChild(h) ==
  /\ At(h, "flag")
  /\ writ' = [writ EXCEPT ![job[h].parent].hasChild = job[h].hasChild]
  /\ stale' = stale \ {job[h].parent}
  /\ End(h) /\ UNCHANGED <<record, tidy>>

-----------------------------------------------------------------------------
(* sync-user-posts and sync-user-comments *)

Sync(h, author, table) ==
  /\ Begin(h, [op |-> "sync", author |-> author, table |-> table, kinds |-> Listed(table),
               listed |-> {}, todo |-> {}, writ |-> None, parent |-> None])
  /\ UNCHANGED <<writ, record, stale, tidy>>

\* All rows of the user, the deleted ones as well.
ListRows(h) ==
  /\ At(h, "sync") /\ job[h].todo = {} /\ job[h].kinds # <<>>
  /\ LET rows == {w \in Written : writ[w].author = job[h].author /\ writ[w].kind = job[h].kinds[1]}
     IN  Continue(h, [job[h] EXCEPT
           !.listed = @ \cup rows,
           !.todo = {<<w, Live(w)>> : w \in rows},
           !.kinds = Tail(@)])
  /\ UNCHANGED <<writ, record, stale, tidy>>

\* The record is made, deleted or restored, as the row was when it was listed.
SyncRow(h) ==
  /\ At(h, "sync")
  /\ \E row \in job[h].todo :
       /\ record' = [record EXCEPT ![row[1]] = IF row[2] THEN "live" ELSE "deleted"]
       /\ Continue(h, [job[h] EXCEPT !.todo = @ \ {row}])
  /\ UNCHANGED <<writ, stale, tidy>>

\* Records of rows that were not listed are deleted.
DeleteOrphans(h) ==
  /\ At(h, "sync") /\ job[h].todo = {} /\ job[h].kinds = <<>>
  /\ record' = [w \in Writs |->
                  IF /\ w \in Written \ job[h].listed
                     /\ TableOfUser(w) = <<job[h].author, job[h].table>>
                  THEN "deleted" ELSE record[w]]
  /\ tidy' = IF calm THEN tidy \cup {<<job[h].author, job[h].table>>}
             ELSE tidy \ {<<job[h].author, job[h].table>>}
  /\ End(h) /\ UNCHANGED <<writ, stale>>

-----------------------------------------------------------------------------

\* The request fails, or the process ends: what is committed stays, what was to
\* follow does not happen.
Fail(h) ==
  /\ ~Idle(h)
  /\ tidy' = CASE At(h, "record") -> tidy \ {TableOfUser(job[h].writ)}
               [] At(h, "sync") /\ ~calm -> tidy \ {<<job[h].author, job[h].table>>}
               [] OTHER -> tidy
  /\ stale' = IF job[h].op \in {"record", "refresh", "flag"}
              THEN stale \cup ({job[h].parent} \ {None}) ELSE stale
  /\ End(h) /\ UNCHANGED <<writ, record>>

DeleteOf(h, kinds) == \E w \in Written : writ[w].kind \in kinds /\ Find(h, w)

\* The routes of each controller, and the commands.
PostController(h) ==
  \/ \E u \in Authors :
       \/ CreatePost(u) \/ AddComment(u, "post_comment")
       \/ \E w \in Written : AddReply(h, u, "post_comment", w)
  \/ DeleteOf(h, {"post", "post_comment"})

SiteReviewController(h) ==
  \/ \E u \in Authors :
       \/ AddComment(u, "site_review_comment")
       \/ \E w \in Written : CheckParent(h, u, w)
  \/ DeleteOf(h, {"site_review_comment"})

ScamReportController(h) ==
  \/ \E u \in Authors :
       \/ AddComment(u, "scam_report_comment")
       \/ \E w \in Written : AddReply(h, u, "scam_report_comment", w)
  \/ DeleteOf(h, {"scam_report_comment"})

CommandLine(h) ==
  \E u \in Authors, table \in {"user_posts", "user_comments"} : Sync(h, u, table)

Continuations(h) ==
  \/ AddCheckedReply(h)
  \/ DeleteTree(h) \/ Delete(h) \/ DeleteRecord(h)
  \/ LookForChild(h) \/ UpdateHasChild(h)
  \/ ListRows(h) \/ SyncRow(h) \/ DeleteOrphans(h)
  \/ Fail(h)

Next ==
  \E h \in Handlers :
    \/ PostController(h) \/ SiteReviewController(h) \/ ScamReportController(h)
    \/ CommandLine(h)
    \/ Continuations(h)

Spec == Init /\ [][Next]_vars

-----------------------------------------------------------------------------
(* Properties *)

\* Every variable has its type.
TypeOK ==
  /\ writ \in [Writs -> Writ \cup {NoWrit}]
  /\ record \in [Writs -> {"none", "live", "deleted"}]
  /\ stale \subseteq Writs
  /\ tidy \subseteq AllTables
  /\ calm \in BOOLEAN

\* The use case is about to write the record of this row.
Holds(h, w) ==
  \/ At(h, "record") /\ job[h].writ = w
  \/ ~calm /\ At(h, "sync") /\ <<job[h].author, job[h].table>> = TableOfUser(w)

InHand(w) == \E h \in Handlers : Holds(h, w)

RecordIsRight(w) == record[w] = "live" <=> Live(w)

\* A row is recorded exactly as long as it is not deleted, whatever overlaps:
\* a record is missing or left over only where a deletion broke off after its
\* first statement, or a command ran while the user wrote or deleted; and the
\* command that runs alone mends it.
OnRecord ==
  \A w \in Written : TableOfUser(w) \in tidy => RecordIsRight(w) \/ InHand(w)

\* As long as nothing overlaps: a comment is marked to have replies exactly if
\* it has, once the mark is set.
CalmHasChild ==
  calm =>
    \A w \in Written \ stale :
      (Live(w) /\ \A h \in Handlers : Idle(h) \/ job[h].parent # w)
        => (writ[w].hasChild <=> \E v \in Replies(w) : Live(v))

-----------------------------------------------------------------------------
(* What makes OnRecord inductive; the proof is in ContentProofs.            *)

\* Who answers, answers something written.
RowsAreTyped ==
  /\ writ \in [Writs -> Writ \cup {NoWrit}]
  /\ record \in [Writs -> {"none", "live", "deleted"}]
  /\ \A w \in Written : writ[w].parent \in Written \cup {None}

Deletion == [op: {"tree", "delete"}, writ: Written, parent: Written \cup {None}]

SyncCommand ==
  [op: {"sync"}, author: Authors, table: {"user_posts", "user_comments"}, kinds: Seq(Kinds),
   listed: SUBSET Written, todo: SUBSET (Written \X BOOLEAN), writ: {None}, parent: {None}]

\* A use case in progress has in hand what is written; what it is to take off the
\* record is deleted, and a command lists rows of its user and its table only.
JobIsReal(j) ==
  /\ j.op \in {"tree", "delete"} => j \in Deletion
  /\ j.op = "record" => j.writ \in Written /\ ~Live(j.writ) /\ j.parent \in Written \cup {None}
  /\ j.op = "reply" => j.author \in Authors /\ j.parent \in Written
  /\ j.op \in {"refresh", "flag"} => j.parent \in Written
  /\ j.op = "flag" => j.hasChild \in BOOLEAN
  /\ j.op = "sync" =>
       /\ j \in SyncCommand
       /\ \A i \in 1..Len(j.kinds) : TableOf(j.kinds[i]) = j.table
       /\ \A w \in j.listed : TableOfUser(w) = <<j.author, j.table>>
       /\ \A entry \in j.todo : entry[1] \in j.listed

JobsAreReal == DOMAIN job = Handlers /\ \A h \in Handlers : JobIsReal(job[h])

\* A command that runs alone has listed every row of the kinds it is done with,
\* as it is, and has put the records of those it is done with right.
SyncStands(j) ==
  j.op = "sync" =>
    /\ \A w \in Written :
         TableOfUser(w) = <<j.author, j.table>> =>
           w \in j.listed \/ \E i \in 1..Len(j.kinds) : j.kinds[i] = writ[w].kind
    /\ \A entry \in j.todo : entry[2] = Live(entry[1])
    /\ \A w \in j.listed : <<w, Live(w)>> \in j.todo \/ RecordIsRight(w)

SyncsStand ==
  calm => /\ \A g, h \in Handlers : ~Idle(g) /\ ~Idle(h) => g = h
          /\ \A h \in Handlers : SyncStands(job[h])

-----------------------------------------------------------------------------
(* What makes CalmHasChild inductive; the proof is in ContentProofs.        *)

\* What the use case has written changes the replies of this comment, and its
\* mark is still to be set.
ToMark(j, w) == j.op \in {"record", "refresh", "flag"} /\ j.parent = w

MarkIsRight(w) == writ[w].hasChild <=> HasLiveReply(w)

\* What a use case is to put into a mark is right; a deletion knows the parent.
MarkStands(j) ==
  /\ j.op = "flag" => (j.hasChild <=> HasLiveReply(j.parent))
  /\ j.op \in {"tree", "delete", "record"} => j.parent = writ[j.writ].parent

MarksStand ==
  calm =>
    /\ \A w \in Written \ stale :
         Live(w) /\ (\A h \in Handlers : ~ToMark(job[h], w)) => MarkIsRight(w)
    /\ \A h \in Handlers : MarkStands(job[h])
=============================================================================
