--------------------------- MODULE PointExchange ---------------------------
(***************************************************************************)
(* Exchange of points for the currency of a partner site                    *)
(* (src/src/modules/point/application/handlers).                            *)
(*                                                                          *)
(* A user asks for an exchange (points are taken), and the user, an admin   *)
(* or a manager of the site then decides it.  A handler reads the exchange  *)
(* row and checks its status OUTSIDE any transaction; a handler that gives  *)
(* points back then opens a transaction, locks the user's profile row       *)
(* (SELECT ... FOR UPDATE), updates the exchange row unconditionally,       *)
(* writes a ledger row (point_transactions) and commits.  Approval and      *)
(* "move to processing" are one auto-committed UPDATE.                      *)
(*                                                                          *)
(* The database is PostgreSQL at READ COMMITTED: a transaction's writes     *)
(* become visible at its Commit, a row written by a transaction stays       *)
(* locked until then.                                                       *)
(***************************************************************************)
EXTENDS Integers, Sequences, FiniteSets

CONSTANTS
  Users,          \* users of the platform (some of them manage sites)
  Sites,          \* partner sites
  Admins,         \* administrators
  ManagerOf,      \* ManagerOf[s]: the users that are active managers of s
  Exchanges,      \* the exchange ids the database may hand out
  Handlers,       \* HTTP requests in progress, over all API instances
  Amounts,        \* the amounts users ask for, legal or not
  InitialPoints,  \* balance of every profile in the initial state
  Overlap,        \* TRUE: two decisions on one exchange may be in progress
  None

ASSUME ConstantsAssumption ==
  /\ ManagerOf \in [Sites -> SUBSET Users]
  /\ Amounts \subseteq Nat
  /\ InitialPoints \in Nat
  /\ Overlap \in BOOLEAN
  /\ None \notin Users \cup Sites \cup Admins \cup Exchanges \cup Handlers

VARIABLES
  points,     \* user_profiles.points
  ledger,     \* point_transactions of a user, in the order they committed
  exchange,   \* point_exchanges, by id
  rowLock,    \* the handler whose transaction locks a user's profile row
  req         \* the local state of the handlers

vars == <<points, ledger, exchange, rowLock, req>>

-----------------------------------------------------------------------------
(* Data *)

MinExchange == 10000
ExchangeUnit == 10000

Open == {"pending", "processing"}
Undone == {"cancelled", "rejected"}
Settled == Undone \cup {"completed"}
Status == {"absent"} \cup Open \cup Settled

NoRow == [status |-> "absent", user |-> None, site |-> None, amount |-> 0,
          admin |-> None, manager |-> None]

Row == [status: Status, user: Users \cup {None}, site: Sites \cup {None},
        amount: Nat, admin: Admins \cup {None}, manager: Users \cup {None}]

Refunding == {"cancel", "adminReject", "managerReject"}
Direct == {"adminApprove", "managerApprove", "adminProcess", "managerProcess"}
ByAdmin == {"adminReject", "adminApprove", "adminProcess"}
ByManager == {"managerReject", "managerApprove", "managerProcess"}
Ops == {"request"} \cup Refunding \cup Direct

Idle == [pc |-> "idle", op |-> "request", actor |-> None, exchange |-> None,
         row |-> NoRow, balance |-> 0, note |-> "none", shown |-> "absent"]

\* row: the copy of the exchange row the handler works with; balance: the new
\* balance it computed; note: its POINT_UPDATED message; shown: the status in
\* the payload of its EXCHANGE_* message.
HandlerState ==
  [pc: {"idle", "checked", "locked", "written", "committed", "returned",
        "failed"},
   op: Ops, actor: Users \cup Admins \cup {None},
   exchange: Exchanges \cup {None}, row: Row, balance: Nat,
   note: {"none", "scheduled", "sent"}, shown: Status]

BusyPc == {"checked", "locked", "written", "committed"}
Busy(h) == req[h].pc \in BusyPc

Entry == [type: {"spend", "refund"}, amount: Int, balanceAfter: Nat,
          exchange: Exchanges]

\* Mutant: the amount of a request loses its sign.
DeltaUnsigned(h) == req[h].row.amount

\* The handler's amount of the ledger row: points taken or given back.
Delta(h) == IF req[h].op = "request" THEN -req[h].row.amount
                                     ELSE req[h].row.amount

\* Math.max(0, n), around every new balance
ClampToZero(n) == IF n < 0 THEN 0 ELSE n

\* Mutant: the ledger row of a spend has a positive amount.
LedgerEntryUnsigned(h) ==
  [type |-> IF req[h].op = "request" THEN "spend" ELSE "refund",
   amount |-> req[h].row.amount, balanceAfter |-> req[h].balance,
   exchange |-> req[h].exchange]

LedgerEntry(h) ==
  [type |-> IF req[h].op = "request" THEN "spend" ELSE "refund",
   amount |-> Delta(h), balanceAfter |-> req[h].balance,
   exchange |-> req[h].exchange]

\* The status a use case writes, and the one its EXCHANGE_* channel is for.
Outcome(op) ==
  CASE op = "request" -> "pending"
    [] op = "cancel" -> "cancelled"
    [] op \in {"adminReject", "managerReject"} -> "rejected"
    [] op \in {"adminApprove", "managerApprove"} -> "completed"
    [] op \in {"adminProcess", "managerProcess"} -> "processing"

-----------------------------------------------------------------------------
Init ==
  /\ points = [u \in Users |-> InitialPoints]
  /\ ledger = [u \in Users |-> << >>]
  /\ exchange = [e \in Exchanges |-> NoRow]
  /\ rowLock = [u \in Users |-> None]
  /\ req = [h \in Handlers |-> Idle]

database == <<points, ledger, exchange>>

\* h is in a transaction that has written (and so locks) exchange row e.
LocksExchange(h, e) == req[h].pc = "written" /\ req[h].exchange = e

ExchangeFree(h, e) == \A g \in Handlers \ {h} : ~LocksExchange(g, e)

-----------------------------------------------------------------------------
(* The checks a handler makes before its transaction *)

\* Bound of the model: requests stop when the ids of Exchanges are used up or
\* spoken for by the requests in progress.
IdsLeft ==
  Cardinality({g \in Handlers : Busy(g) /\ req[g].op = "request"
                                 /\ req[g].pc # "committed"})
    < Cardinality({e \in Exchanges : exchange[e].status = "absent"})

\* RequestPointExchangeUseCase: the amount is a multiple of the unit, the
\* balance read outside the transaction covers it.
RequestExchange(h, u, s, a) ==
  /\ req[h].pc = "idle"
  /\ a >= MinExchange
  /\ a % ExchangeUnit = 0
  /\ points[u] >= a
  /\ IdsLeft
  /\ req' = [req EXCEPT ![h] =
       [Idle EXCEPT !.pc = "checked", !.op = "request", !.actor = u,
          !.row = [NoRow EXCEPT !.status = "pending", !.user = u,
                                !.site = s, !.amount = a]]]
  /\ UNCHANGED <<database, rowLock>>

\* A decision starts from a copy of the row, which the handler keeps.
Begin(h, op, actor, e, from) ==
  /\ req[h].pc = "idle"
  /\ exchange[e].status \in from
  /\ Overlap \/ \A g \in Handlers : Busy(g) => req[g].exchange # e
  /\ req' = [req EXCEPT ![h] =
       [Idle EXCEPT !.pc = "checked", !.op = op, !.actor = actor,
          !.exchange = e, !.row = exchange[e]]]
  /\ UNCHANGED <<database, rowLock>>

\* Mutant: a second cancellation is accepted.
CancelAgain(h, u, e) ==
  exchange[e].user = u /\ Begin(h, "cancel", u, e, Open \cup Undone)

Cancel(h, u, e) ==
  exchange[e].user = u /\ Begin(h, "cancel", u, e, Open)

\* Mutant: the admin may approve what was undone.
ApproveUndone(h, a, e) == Begin(h, "adminApprove", a, e, Open \cup Undone)

AdminReject(h, a, e) == Begin(h, "adminReject", a, e, Open)
AdminApprove(h, a, e) == Begin(h, "adminApprove", a, e, Open)
AdminProcess(h, a, e) == Begin(h, "adminProcess", a, e, {"pending"})

\* findBySiteAndUser: m is an active manager of the site of the exchange.
Manages(m, s, e) == exchange[e].site = s /\ m \in ManagerOf[s]

ManagerReject(h, m, s, e) ==
  Manages(m, s, e) /\ Begin(h, "managerReject", m, e, Open)
ManagerApprove(h, m, s, e) ==
  Manages(m, s, e) /\ Begin(h, "managerApprove", m, e, Open)
ManagerProcess(h, m, s, e) ==
  Manages(m, s, e) /\ Begin(h, "managerProcess", m, e, {"pending"})

-----------------------------------------------------------------------------
(* The transaction of a handler that moves points *)

\* Mutant: the profile row is read without the pessimistic lock.
LockProfileUnlocked(h) ==
  LET u == req[h].row.user
  IN  /\ req[h].pc = "checked"
      /\ req[h].op \in {"request"} \cup Refunding
      /\ req[h].op = "request" => points[u] >= req[h].row.amount
      /\ rowLock' = [rowLock EXCEPT ![u] = h]
      /\ req' = [req EXCEPT ![h].pc = "locked",
                            ![h].balance = ClampToZero(points[u] + Delta(h))]
      /\ UNCHANGED database

\* The lock on the profile row; the new balance is computed from the row read
\* under the lock.
LockProfile(h) ==
  LET u == req[h].row.user
  IN  /\ req[h].pc = "checked"
      /\ req[h].op \in {"request"} \cup Refunding
      /\ rowLock[u] = None
      /\ req[h].op = "request" => points[u] >= req[h].row.amount
      /\ rowLock' = [rowLock EXCEPT ![u] = h]
      /\ req' = [req EXCEPT ![h].pc = "locked",
                            ![h].balance = ClampToZero(points[u] + Delta(h))]
      /\ UNCHANGED <<database>>

\* "Recheck balance after lock" fails: the transaction is rolled back.
InsufficientPoints(h) ==
  LET u == req[h].row.user
  IN  /\ req[h].pc = "checked"
      /\ req[h].op = "request"
      /\ rowLock[u] = None
      /\ points[u] < req[h].row.amount
      /\ req' = [req EXCEPT ![h] = Idle]
      /\ UNCHANGED <<database, rowLock>>

\* The new exchange row gets an id nobody else has, the POINT_UPDATED message
\* is scheduled before the transaction ends.
InsertExchange(h, e) ==
  /\ req[h].pc = "locked"
  /\ req[h].op = "request"
  /\ exchange[e].status = "absent"
  /\ \A g \in Handlers : req[g].exchange # e
  /\ req' = [req EXCEPT ![h].pc = "written", ![h].exchange = e,
                        ![h].note = "scheduled"]
  /\ UNCHANGED <<database, rowLock>>

\* UPDATE of the status, whatever it has become since the handler read it.
WriteDecision(h) ==
  /\ req[h].pc = "locked"
  /\ req[h].op \in Refunding
  /\ ExchangeFree(h, req[h].exchange)
  /\ req' = [req EXCEPT ![h].pc = "written", ![h].note = "scheduled"]
  /\ UNCHANGED <<database, rowLock>>

\* The columns each use case sets.  An admin's handler writes back the manager
\* it read before, or leaves the column alone.
KeepManager(h, row) ==
  IF req[h].row.manager # None THEN req[h].row.manager ELSE row.manager

\* Mutants: a status outside the enum, the wrong status.
CancelledRowMisspelt(row) == [row EXCEPT !.status = "canceled"]
CancelledByManager(h, row) ==
  [row EXCEPT !.status = "cancelled", !.manager = req[h].actor]

CancelledRow(row) == [row EXCEPT !.status = "cancelled"]
RejectedByAdmin(h, row) ==
  [row EXCEPT !.status = "rejected", !.admin = req[h].actor,
              !.manager = KeepManager(h, row)]
RejectedByManager(h, row) ==
  [row EXCEPT !.status = "rejected", !.manager = req[h].actor]
ApprovedByAdmin(h, row) ==
  [row EXCEPT !.status = "completed", !.admin = req[h].actor,
              !.manager = KeepManager(h, row)]
ApprovedByManager(h, row) ==
  [row EXCEPT !.status = "completed", !.manager = req[h].actor]
ProcessedByAdmin(h, row) ==
  [row EXCEPT !.status = "processing", !.admin = req[h].actor]
ProcessedByManager(h, row) ==
  [row EXCEPT !.status = "processing", !.manager = req[h].actor]

NewRow(h, row) ==
  CASE req[h].op = "request" -> req[h].row
    [] req[h].op = "cancel" -> CancelledRow(row)
    [] req[h].op = "adminReject" -> RejectedByAdmin(h, row)
    [] req[h].op = "managerReject" -> RejectedByManager(h, row)
    [] req[h].op = "adminApprove" -> ApprovedByAdmin(h, row)
    [] req[h].op = "managerApprove" -> ApprovedByManager(h, row)
    [] req[h].op = "adminProcess" -> ProcessedByAdmin(h, row)
    [] req[h].op = "managerProcess" -> ProcessedByManager(h, row)

Commit(h) ==
  LET u == req[h].row.user
      e == req[h].exchange
  IN  /\ req[h].pc = "written"
      /\ points' = [points EXCEPT ![u] = req[h].balance]
      /\ ledger' = [ledger EXCEPT ![u] = Append(@, LedgerEntry(h))]
      /\ exchange' = [exchange EXCEPT ![e] = NewRow(h, @)]
      /\ rowLock' = [rowLock EXCEPT ![u] = None]
      /\ req' = [req EXCEPT ![h].pc = "committed"]

\* Mutants: the status is written outside the transaction and survives its
\* rollback; the rollback does not free the lock.
AbortKeepsStatus(h) ==
  LET u == req[h].row.user
  IN  /\ req[h].pc \in {"locked", "written"}
      /\ rowLock' = [rowLock EXCEPT ![u] = None]
      /\ req' = [req EXCEPT ![h].pc = "failed"]
      /\ exchange' = IF LocksExchange(h, req[h].exchange)
                     THEN [exchange EXCEPT ![req[h].exchange] = NewRow(h, @)]
                     ELSE exchange
      /\ UNCHANGED <<points, ledger>>

AbortKeepsLock(h) ==
  /\ req[h].pc \in {"locked", "written"}
  /\ req' = [req EXCEPT ![h].pc = "failed"]
  /\ UNCHANGED <<database, rowLock>>

\* An error of the database or the end of the process: the transaction leaves
\* nothing behind, but a message already scheduled stays so.
Abort(h) ==
  LET u == req[h].row.user
  IN  /\ req[h].pc \in {"locked", "written"}
      /\ rowLock' = [rowLock EXCEPT ![u] = None]
      /\ req' = [req EXCEPT ![h].pc = "failed"]
      /\ UNCHANGED <<database>>

-----------------------------------------------------------------------------
(* Approval and processing: one UPDATE outside any transaction *)

UpdateDirectly(h) ==
  LET e == req[h].exchange
  IN  /\ req[h].pc = "checked"
      /\ req[h].op \in Direct
      /\ ExchangeFree(h, e)
      /\ exchange' = [exchange EXCEPT ![e] = NewRow(h, @)]
      /\ req' = [req EXCEPT ![h].pc = "committed"]
      /\ UNCHANGED <<points, ledger, rowLock>>

-----------------------------------------------------------------------------
(* After the commit, and the messages *)

\* The row is read again for the payload of the EXCHANGE_* message, which is
\* scheduled as the handler returns.
ReloadAndReturn(h) ==
  /\ req[h].pc = "committed"
  /\ req' = [req EXCEPT ![h].pc = "returned",
                        ![h].shown = exchange[req[h].exchange].status]
  /\ UNCHANGED <<database, rowLock>>

\* setImmediate runs the POINT_UPDATED callback as soon as the event loop is
\* free, whatever has become of the transaction that scheduled it;
\* RedisService.publishEvent sends the message, or logs that it could not.
PublishPointUpdated(h) ==
  /\ req[h].note = "scheduled"
  /\ \E outcome \in {"sent", "none"} : req' = [req EXCEPT ![h].note = outcome]
  /\ UNCHANGED <<database, rowLock>>

\* Callbacks run in the order they were scheduled, so the EXCHANGE_* message
\* of a handler is its last act.
PublishExchangeEvent(h) ==
  /\ req[h].pc = "returned"
  /\ req[h].note # "scheduled"
  /\ req' = [req EXCEPT ![h] = Idle]
  /\ UNCHANGED <<database, rowLock>>

ReturnError(h) ==
  /\ req[h].pc = "failed"
  /\ req[h].note # "scheduled"
  /\ req' = [req EXCEPT ![h] = Idle]
  /\ UNCHANGED <<database, rowLock>>

-----------------------------------------------------------------------------
UserStarts(h) ==
  \E u \in Users :
    \/ \E s \in Sites, a \in Amounts : RequestExchange(h, u, s, a)
    \/ \E e \in Exchanges : Cancel(h, u, e)

AdminStarts(h) ==
  \E a \in Admins, e \in Exchanges :
    AdminReject(h, a, e) \/ AdminApprove(h, a, e) \/ AdminProcess(h, a, e)

ManagerStarts(h) ==
  \E m \in Users, s \in Sites, e \in Exchanges :
    \/ ManagerReject(h, m, s, e)
    \/ ManagerApprove(h, m, s, e)
    \/ ManagerProcess(h, m, s, e)

Continue(h) ==
  \/ LockProfile(h)
  \/ InsufficientPoints(h)
  \/ \E e \in Exchanges : InsertExchange(h, e)
  \/ WriteDecision(h)
  \/ UpdateDirectly(h)
  \/ Commit(h)
  \/ ReloadAndReturn(h)
  \/ PublishPointUpdated(h)
  \/ PublishExchangeEvent(h)
  \/ ReturnError(h)

Step(h) ==
  UserStarts(h) \/ AdminStarts(h) \/ ManagerStarts(h) \/ Continue(h) \/ Abort(h)

Next == \E h \in Handlers : Step(h)

Spec == Init /\ [][Next]_vars

\* PostgreSQL grants a row lock to its waiters in order, so a handler that
\* waits for one gets it (SF); the other steps are the event loop's (WF).
\* Nobody is obliged to start a request or to make one fail.
Fairness ==
  \A h \in Handlers :
    /\ WF_vars(Continue(h))
    /\ SF_vars(LockProfile(h) \/ InsufficientPoints(h))
    /\ SF_vars(WriteDecision(h) \/ UpdateDirectly(h))

FairSpec == Spec /\ Fairness

-----------------------------------------------------------------------------
(* Properties *)

\* Every variable has its type.
TypeOK ==
  /\ points \in [Users -> Nat]
  /\ ledger \in [Users -> Seq(Entry)]
  /\ exchange \in [Exchanges -> Row]
  /\ rowLock \in [Users -> Handlers \cup {None}]
  /\ req \in [Handlers -> HandlerState]

BalanceBefore(u, i) ==
  IF i = 1 THEN InitialPoints ELSE ledger[u][i - 1].balanceAfter

CurrentBalance(u) ==
  IF ledger[u] = << >> THEN InitialPoints
                       ELSE ledger[u][Len(ledger[u])].balanceAfter

\* The ledger of a user is a chain: each row's balanceAfter is the balance
\* before it plus its amount, and the profile shows the last one.  It holds
\* because the balance is read, changed and saved under the lock of the
\* profile row (no update is lost, nothing is cut off by Math.max).
LedgerChained ==
  \A u \in Users :
    /\ points[u] = CurrentBalance(u)
    /\ \A i \in 1..Len(ledger[u]) :
         ledger[u][i].balanceAfter = BalanceBefore(u, i) + ledger[u][i].amount

Refunds(e) ==
  {i \in 1..Len(ledger[exchange[e].user]) :
     /\ ledger[exchange[e].user][i].exchange = e
     /\ ledger[exchange[e].user][i].type = "refund"}

\* Points come back with the decision or not at all: an exchange that shows
\* cancelled or rejected has its refund in the ledger, of its own amount, and
\* no exchange is without the row that took the points.
UndoneIsRefunded ==
  \A e \in Exchanges :
    exchange[e].status \in Undone =>
      \E i \in Refunds(e) :
        ledger[exchange[e].user][i].amount = exchange[e].amount

\* A refund answers an earlier spend of the same user, the same exchange and
\* the same amount.
RefundFollowsSpend ==
  \A u \in Users : \A i \in 1..Len(ledger[u]) :
    ledger[u][i].type = "refund" =>
      \E j \in 1..(i - 1) :
        /\ ledger[u][j].type = "spend"
        /\ ledger[u][j].exchange = ledger[u][i].exchange
        /\ ledger[u][j].amount = -ledger[u][i].amount

\* An exchange is refunded once if it is cancelled or rejected, and never if
\* it is open or completed.
RefundedIffUndone ==
  \A e \in Exchanges :
    exchange[e].status # "absent" =>
      Cardinality(Refunds(e)) =
        IF exchange[e].status \in Undone THEN 1 ELSE 0

\* The message a handler sends after its decision shows that decision, though
\* its payload is read from the row a second time.
AnnouncesOwnDecision ==
  \A h \in Handlers :
    req[h].pc = "returned" => req[h].shown = Outcome(req[h].op)

\* The code implements the contract, as long as decisions on one exchange do
\* not overlap: every commit is one step of the contract, every other step of a
\* handler changes nothing.
DealState(status) ==
  CASE status = "absent" -> "none"
    [] status \in Open -> "open"
    [] status = "completed" -> "completed"
    [] status \in Undone -> "undone"

Deals == [e \in Exchanges |-> [state |-> DealState(exchange[e].status),
                               user |-> exchange[e].user,
                               amount |-> exchange[e].amount]]

LegalAmounts == {a \in Amounts : a >= MinExchange /\ a % ExchangeUnit = 0}

Contract == INSTANCE PointOrderContract
              WITH Orders <- Exchanges, balance <- points, deal <- Deals

ImplementsContract == Contract!ContractSpec

\* Nothing is lost or made on the way: the contract's conservation of points.
PointsConserved == Contract!Conserved

\* "Only allow reject if status = pending or processing" and "Only allow
\* cancel if status = pending or processing": when points are given back the
\* exchange is still open.
RefundsOnlyOpen ==
  [][\A e \in Exchanges, u \in Users :
       (/\ Len(ledger'[u]) > Len(ledger[u])
        /\ ledger'[u][Len(ledger'[u])].exchange = e
        /\ ledger'[u][Len(ledger'[u])].type = "refund")
         => exchange[e].status \in Open]_vars

\* "Publish point updated event to Redis (after transaction commits)": a
\* published balance is one the ledger has recorded.
PublishedAfterCommit ==
  \A h \in Handlers :
    req[h].note = "sent" => req[h].pc \in {"committed", "returned"}

\* Every handler returns: nobody waits for a lock for ever.
EveryHandlerReturns ==
  \A h \in Handlers : req[h].pc # "idle" ~> req[h].pc = "idle"

-----------------------------------------------------------------------------
(* What makes the invariants inductive; the proofs are in                   *)
(* PointExchangeProofs.                                                     *)

\* A handler acts for somebody, on an exchange of somebody.
WellFormed(r) ==
  /\ r.op \in ByAdmin => r.actor \in Admins
  /\ r.op \in ByManager => r.actor \in Users
  /\ r.pc \in BusyPc => r.row.user \in Users /\ r.row.status # "absent"
  /\ r.pc \in BusyPc /\ (r.op # "request" \/ r.pc \in {"written", "committed"})
       => r.exchange \in Exchanges
  /\ r.pc \in {"locked", "written"} => r.op \notin Direct

ReferencesExist ==
  /\ \A h \in Handlers : WellFormed(req[h])
  /\ \A h \in Handlers :
       Busy(h) /\ req[h].op # "request" =>
         exchange[req[h].exchange].status # "absent"
  /\ \A e \in Exchanges :
       exchange[e].status # "absent" => exchange[e].user \in Users

TypeInv == TypeOK /\ ReferencesExist

\* The balance a transaction is about to save is current, and only the holder
\* of the lock has one.
LockedBalance ==
  \A h \in Handlers :
    req[h].pc \in {"locked", "written"} =>
      /\ rowLock[req[h].row.user] = h
      /\ req[h].balance = points[req[h].row.user] + Delta(h)

\* Without overlap: a handler that has yet to write its decision still sees the
\* row it read, and nobody else is busy with that exchange.
NobodyElseDecides ==
  \A h \in Handlers :
    /\ Busy(h) /\ req[h].exchange # None =>
         \A g \in Handlers \ {h} : Busy(g) => req[g].exchange # req[h].exchange
    /\ Busy(h) /\ req[h].op # "request" /\ req[h].pc # "committed" =>
         /\ exchange[req[h].exchange] = req[h].row
         /\ req[h].row.status \in Open
    /\ Busy(h) /\ req[h].op = "request" /\ req[h].pc # "committed" =>
         /\ req[h].row.status = "pending"
         /\ req[h].row.amount \in LegalAmounts
         /\ req[h].pc = "written" =>
              exchange[req[h].exchange].status = "absent"

AbsentIsEmpty ==
  \A e \in Exchanges : exchange[e].status = "absent" => exchange[e] = NoRow

SerialInv == NobodyElseDecides /\ AbsentIsEmpty

\* The id of a request's new row is nobody else's until the commit.
NewIdsAreOwn ==
  \A h \in Handlers :
    req[h].pc = "written" /\ req[h].op = "request" =>
      /\ exchange[req[h].exchange].status = "absent"
      /\ \A g \in Handlers \ {h} : req[g].exchange # req[h].exchange

\* A request's row starts as pending.
NewRowsArePending ==
  \A h \in Handlers :
    Busy(h) /\ req[h].op = "request" => req[h].row.status = "pending"

\* A decision's copy of the row may be stale in its status, never in its user
\* or its amount.
CopiesKeepTheDeal ==
  \A h \in Handlers :
    Busy(h) /\ req[h].op # "request" =>
      /\ req[h].row.user = exchange[req[h].exchange].user
      /\ req[h].row.amount = exchange[req[h].exchange].amount

Spends(e) ==
  {i \in 1..Len(ledger[exchange[e].user]) :
     /\ ledger[exchange[e].user][i].exchange = e
     /\ ledger[exchange[e].user][i].type = "spend"}

\* An exchange that exists took its points.
SpendsOnRecord ==
  \A e \in Exchanges :
    exchange[e].status # "absent" =>
      \E i \in Spends(e) :
        ledger[exchange[e].user][i].amount = -exchange[e].amount

HistoryInv ==
  /\ NewIdsAreOwn
  /\ NewRowsArePending
  /\ CopiesKeepTheDeal
  /\ SpendsOnRecord
  /\ RefundFollowsSpend
  /\ UndoneIsRefunded

\* Without overlap: the row shows the decision until its handler has read it
\* back.
DecisionStands ==
  \A h \in Handlers :
    req[h].pc = "committed" =>
      exchange[req[h].exchange].status = Outcome(req[h].op)

\* Without overlap: an exchange that shows a refund is undone, and has no other.
RefundsAreOnce ==
  \A u \in Users : \A i \in 1..Len(ledger[u]) :
    ledger[u][i].type = "refund" =>
      /\ exchange[ledger[u][i].exchange].user = u
      /\ exchange[ledger[u][i].exchange].status \in Undone
      /\ \A j \in 1..Len(ledger[u]) :
           ledger[u][j].type = "refund"
             /\ ledger[u][j].exchange = ledger[u][i].exchange => j = i
=============================================================================
