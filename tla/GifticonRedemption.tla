------------------------- MODULE GifticonRedemption -------------------------
(***************************************************************************)
(* Redemption of gifticons with points                                      *)
(* (src/src/modules/gifticon/application/handlers).                         *)
(*                                                                          *)
(* Admins edit a catalogue; a user redeems a gifticon that is on offer, at  *)
(* the price read with the offer, and the redemption is then cancelled by   *)
(* its user or decided by an admin.  Handlers, transactions and locks are   *)
(* those of PointExchange: the offer and the status are checked on copies   *)
(* read before the transaction, the profile row is locked in it.  Approval  *)
(* is one UPDATE outside any transaction.                                   *)
(*                                                                          *)
(* A handler is over at its commit: what follows (a second read of the row, *)
(* POINT_UPDATED and REDEMPTION_* messages) changes nothing here and is     *)
(* modelled, for the same code, in PointExchange.                           *)
(***************************************************************************)
EXTENDS Integers, Sequences, FiniteSets

CONSTANTS
  Users,          \* users of the platform
  Gifticons,      \* gifticon ids
  Redemptions,    \* the redemption ids the database may hand out
  Handlers,       \* HTTP requests in progress, over all API instances
  Prices,         \* the prices admins set (@Min(0), integers)
  InitialPoints,  \* balance of every profile in the initial state
  Overlap,        \* TRUE: two decisions on one redemption may be in progress
  None

ASSUME ConstantsAssumption ==
  /\ Prices \subseteq Nat
  /\ InitialPoints \in Nat
  /\ Overlap \in BOOLEAN
  /\ None \notin Users \cup Gifticons \cup Redemptions \cup Handlers

VARIABLES
  points,      \* user_profiles.points
  ledger,      \* point_transactions of a user, in the order they committed
  gifticon,    \* gifticons, by id
  redemption,  \* gifticon_redemptions, by id
  rowLock,     \* the handler whose transaction locks a user's profile row
  req          \* the local state of the handlers

vars == <<points, ledger, gifticon, redemption, rowLock, req>>

-----------------------------------------------------------------------------
(* Data *)

\* A row of the catalogue; "absent" stands for no row and for a deleted one,
\* period for now against startsAt and endsAt.
Gifticon == [status: {"absent", "draft", "published", "archived"},
             period: {"before", "during", "after"}, price: Prices \cup {0}]

NoGifticon == [status |-> "absent", period |-> "before", price |-> 0]

Listed == {g \in Gifticons : gifticon[g].status # "absent"}

Undone == {"cancelled", "rejected"}
Status == {"absent", "pending", "completed"} \cup Undone

Row == [status: Status, user: Users \cup {None},
        gifticon: Gifticons \cup {None}, pointsUsed: Nat]

NoRow == [status |-> "absent", user |-> None, gifticon |-> None,
          pointsUsed |-> 0]

Refunding == {"cancel", "reject"}

Idle == [pc |-> "idle", op |-> "redeem", redemption |-> None, row |-> NoRow,
         balance |-> 0]

HandlerState ==
  [pc: {"idle", "checked", "locked", "written"},
   op: {"redeem", "approve"} \cup Refunding,
   redemption: Redemptions \cup {None}, row: Row, balance: Nat]

Entry == [type: {"spend", "refund"}, amount: Int, balanceAfter: Nat,
          redemption: Redemptions]

\* Mutant: the refund is what the gifticon costs now.
DeltaAtPriceOfToday(h) ==
  IF req[h].op = "redeem" THEN -req[h].row.pointsUsed
                          ELSE gifticon[req[h].row.gifticon].price

\* Points taken (negative) or given back.
Delta(h) == IF req[h].op = "redeem" THEN -req[h].row.pointsUsed
                                    ELSE req[h].row.pointsUsed

ClampToZero(n) == IF n < 0 THEN 0 ELSE n

LedgerEntry(h) ==
  [type |-> IF req[h].op = "redeem" THEN "spend" ELSE "refund",
   amount |-> Delta(h), balanceAfter |-> req[h].balance,
   redemption |-> req[h].redemption]

-----------------------------------------------------------------------------
Init ==
  /\ points = [u \in Users |-> InitialPoints]
  /\ ledger = [u \in Users |-> << >>]
  /\ gifticon = [g \in Gifticons |-> NoGifticon]
  /\ redemption = [r \in Redemptions |-> NoRow]
  /\ rowLock = [u \in Users |-> None]
  /\ req = [h \in Handlers |-> Idle]

-----------------------------------------------------------------------------
(* The catalogue *)

orders == <<points, ledger, redemption, rowLock, req>>

\* CreateGifticonUseCase: the status is draft unless given, the period any.
CreateGifticon(g, new) ==
  /\ gifticon[g].status = "absent"
  /\ new.status # "absent"
  /\ gifticon' = [gifticon EXCEPT ![g] = new]
  /\ UNCHANGED orders

\* UpdateGifticonUseCase saves the row it read with the fields of the command:
\* any later row, as another admin's edit may be undone by it.
UpdateGifticon(g, new) ==
  /\ gifticon[g].status # "absent"
  /\ new.status # "absent"
  /\ gifticon' = [gifticon EXCEPT ![g] = new]
  /\ UNCHANGED orders

DeleteGifticon(g) ==
  /\ gifticon[g].status # "absent"
  /\ gifticon' = [gifticon EXCEPT ![g] = NoGifticon]
  /\ UNCHANGED orders

\* The clock passes startsAt, or endsAt.
TimePasses(g) ==
  /\ gifticon[g].status # "absent"
  /\ gifticon[g].period # "after"
  /\ gifticon' = [gifticon EXCEPT ![g].period =
       IF @ = "before" THEN "during" ELSE "after"]
  /\ UNCHANGED orders

-----------------------------------------------------------------------------
(* The checks before the transaction *)

Offered(g) == gifticon[g].status = "published" /\ gifticon[g].period = "during"

\* Bound of the model: redemptions stop when the ids are used up.
IdsLeft ==
  Cardinality({k \in Handlers : req[k].pc # "idle" /\ req[k].op = "redeem"})
    < Cardinality({r \in Redemptions : redemption[r].status = "absent"})

Redeem(h, u, g) ==
  /\ req[h].pc = "idle"
  /\ Offered(g)
  /\ points[u] >= gifticon[g].price
  /\ IdsLeft
  /\ req' = [req EXCEPT ![h] = [Idle EXCEPT
       !.pc = "checked",
       !.row = [status |-> "pending", user |-> u, gifticon |-> g,
                pointsUsed |-> gifticon[g].price]]]
  /\ UNCHANGED <<points, ledger, gifticon, redemption, rowLock>>

\* Mutant: the decision starts from a redemption in any state.
BeginInAnyState(h, op, r) ==
  /\ req[h].pc = "idle"
  /\ redemption[r].status # "absent"
  /\ Overlap \/ \A k \in Handlers : req[k].redemption # r
  /\ req' = [req EXCEPT ![h] = [Idle EXCEPT
       !.pc = "checked", !.op = op, !.redemption = r, !.row = redemption[r]]]
  /\ UNCHANGED <<points, ledger, gifticon, redemption, rowLock>>

\* Only a pending redemption is decided; the handler keeps its copy of it.
Begin(h, op, r) ==
  /\ req[h].pc = "idle"
  /\ redemption[r].status = "pending"
  /\ Overlap \/ \A k \in Handlers : req[k].redemption # r
  /\ req' = [req EXCEPT ![h] = [Idle EXCEPT
       !.pc = "checked", !.op = op, !.redemption = r, !.row = redemption[r]]]
  /\ UNCHANGED <<points, ledger, gifticon, redemption, rowLock>>

CancelRedemption(h, u, r) == redemption[r].user = u /\ Begin(h, "cancel", r)
RejectRedemption(h, r) == Begin(h, "reject", r)
ApproveRedemption(h, r) == Begin(h, "approve", r)

-----------------------------------------------------------------------------
(* The transaction of a handler that moves points *)

catalogue == <<points, ledger, gifticon, redemption>>

\* Mutant: the profile row is read without the pessimistic lock.
LockProfileUnlocked(h) ==
  LET u == req[h].row.user
  IN  /\ req[h].pc = "checked"
      /\ req[h].op # "approve"
      /\ req[h].op = "redeem" => points[u] >= req[h].row.pointsUsed
      /\ rowLock' = [rowLock EXCEPT ![u] = h]
      /\ req' = [req EXCEPT ![h].pc = "locked",
                            ![h].balance = ClampToZero(points[u] + Delta(h))]
      /\ UNCHANGED catalogue

LockProfile(h) ==
  LET u == req[h].row.user
  IN  /\ req[h].pc = "checked"
      /\ req[h].op # "approve"
      /\ rowLock[u] = None
      /\ req[h].op = "redeem" => points[u] >= req[h].row.pointsUsed
      /\ rowLock' = [rowLock EXCEPT ![u] = h]
      /\ req' = [req EXCEPT ![h].pc = "locked",
                            ![h].balance = ClampToZero(points[u] + Delta(h))]
      /\ UNCHANGED catalogue

\* "Recheck balance after lock" fails.
InsufficientPoints(h) ==
  LET u == req[h].row.user
  IN  /\ req[h].pc = "checked"
      /\ req[h].op = "redeem"
      /\ rowLock[u] = None
      /\ points[u] < req[h].row.pointsUsed
      /\ req' = [req EXCEPT ![h] = Idle]
      /\ UNCHANGED <<catalogue, rowLock>>

\* Nobody else's transaction has written (and locks) row r.
RedemptionFree(h, r) ==
  \A k \in Handlers \ {h} : req[k].pc = "written" => req[k].redemption # r

\* A new id, which nobody else can see before the commit.
InsertRedemption(h, r) ==
  /\ req[h].pc = "locked"
  /\ req[h].op = "redeem"
  /\ redemption[r].status = "absent"
  /\ \A k \in Handlers : req[k].redemption # r
  /\ req' = [req EXCEPT ![h].pc = "written", ![h].redemption = r]
  /\ UNCHANGED <<catalogue, rowLock>>

\* UPDATE of the status, whatever it has become since the handler read it.
WriteDecision(h) ==
  /\ req[h].pc = "locked"
  /\ req[h].op \in Refunding
  /\ RedemptionFree(h, req[h].redemption)
  /\ req' = [req EXCEPT ![h].pc = "written"]
  /\ UNCHANGED <<catalogue, rowLock>>

\* Mutant: a status that is not in the enum.
NewRowMisspelt(h, row) ==
  CASE req[h].op = "redeem" -> req[h].row
    [] req[h].op = "cancel" -> [row EXCEPT !.status = "canceled"]
    [] req[h].op = "reject" -> [row EXCEPT !.status = "rejected"]
    [] req[h].op = "approve" -> [row EXCEPT !.status = "completed"]

\* The row of h's redemption once h has written it.
NewRow(h, row) ==
  CASE req[h].op = "redeem" -> req[h].row
    [] req[h].op = "cancel" -> [row EXCEPT !.status = "cancelled"]
    [] req[h].op = "reject" -> [row EXCEPT !.status = "rejected"]
    [] req[h].op = "approve" -> [row EXCEPT !.status = "completed"]

Commit(h) ==
  LET u == req[h].row.user
      r == req[h].redemption
  IN  /\ req[h].pc = "written"
      /\ points' = [points EXCEPT ![u] = req[h].balance]
      /\ ledger' = [ledger EXCEPT ![u] = Append(@, LedgerEntry(h))]
      /\ redemption' = [redemption EXCEPT ![r] = NewRow(h, @)]
      /\ rowLock' = [rowLock EXCEPT ![u] = None]
      /\ req' = [req EXCEPT ![h] = Idle]
      /\ UNCHANGED gifticon

\* A statement fails, or the process ends.
Abort(h) ==
  /\ req[h].pc \in {"locked", "written"}
  /\ rowLock' = [rowLock EXCEPT ![req[h].row.user] = None]
  /\ req' = [req EXCEPT ![h] = Idle]
  /\ UNCHANGED catalogue

\* Approval: one UPDATE, which waits for the row lock of a refund in progress.
UpdateDirectly(h) ==
  LET r == req[h].redemption
  IN  /\ req[h].pc = "checked"
      /\ req[h].op = "approve"
      /\ RedemptionFree(h, r)
      /\ redemption' = [redemption EXCEPT ![r] = NewRow(h, @)]
      /\ req' = [req EXCEPT ![h] = Idle]
      /\ UNCHANGED <<points, ledger, gifticon, rowLock>>

-----------------------------------------------------------------------------
EditCatalogue ==
  \E g \in Gifticons :
    \/ \E new \in Gifticon : CreateGifticon(g, new) \/ UpdateGifticon(g, new)
    \/ DeleteGifticon(g)
    \/ TimePasses(g)

Starts(h) ==
  \/ \E u \in Users, g \in Gifticons : Redeem(h, u, g)
  \/ \E u \in Users, r \in Redemptions : CancelRedemption(h, u, r)
  \/ \E r \in Redemptions : RejectRedemption(h, r) \/ ApproveRedemption(h, r)

Continue(h) ==
  \/ LockProfile(h)
  \/ InsufficientPoints(h)
  \/ \E r \in Redemptions : InsertRedemption(h, r)
  \/ WriteDecision(h)
  \/ UpdateDirectly(h)
  \/ Commit(h)

Next ==
  EditCatalogue \/ \E h \in Handlers : Starts(h) \/ Continue(h) \/ Abort(h)

Spec == Init /\ [][Next]_vars

-----------------------------------------------------------------------------
(* Properties *)

\* Every variable has its type.
TypeOK ==
  /\ points \in [Users -> Nat]
  /\ ledger \in [Users -> Seq(Entry)]
  /\ gifticon \in [Gifticons -> Gifticon]
  /\ redemption \in [Redemptions -> Row]
  /\ rowLock \in [Users -> Handlers \cup {None}]
  /\ req \in [Handlers -> HandlerState]

BalanceBefore(u, i) ==
  IF i = 1 THEN InitialPoints ELSE ledger[u][i - 1].balanceAfter

CurrentBalance(u) ==
  IF ledger[u] = << >> THEN InitialPoints
                       ELSE ledger[u][Len(ledger[u])].balanceAfter

\* The ledger is a chain that ends at the balance of the profile: redemptions
\* and refunds of one user that run at the same time lose nothing, because the
\* balance is read and saved under the profile's row lock.
LedgerChained ==
  \A u \in Users :
    /\ points[u] = CurrentBalance(u)
    /\ \A i \in 1..Len(ledger[u]) :
         ledger[u][i].balanceAfter = BalanceBefore(u, i) + ledger[u][i].amount

\* A refund gives back what this redemption took, whatever admins have made of
\* the price, or of the gifticon, in between.
RefundIsWhatWasPaid ==
  \A u \in Users : \A i \in 1..Len(ledger[u]) :
    ledger[u][i].type = "refund" =>
      \E j \in 1..(i - 1) :
        /\ ledger[u][j].type = "spend"
        /\ ledger[u][j].redemption = ledger[u][i].redemption
        /\ ledger[u][j].amount = -ledger[u][i].amount

\* As long as decisions on one redemption do not overlap, a redemption takes
\* its price and is completed or refunded once (PointOrderContract).
DealState(status) ==
  CASE status = "absent" -> "none"
    [] status = "pending" -> "open"
    [] status = "completed" -> "completed"
    [] status \in Undone -> "undone"

Deals == [r \in Redemptions |-> [state |-> DealState(redemption[r].status),
                                 user |-> redemption[r].user,
                                 amount |-> redemption[r].pointsUsed]]

Contract == INSTANCE PointOrderContract
              WITH Orders <- Redemptions, LegalAmounts <- Prices \cup {0},
                   balance <- points, deal <- Deals

ImplementsContract == Contract!ContractSpec

\* "COMPLETED = 'completed', // Approved, cannot rollback"
CompletedCannotRollback ==
  [][\A r \in Redemptions : redemption[r].status = "completed"
                              => redemption'[r].status = "completed"]_vars

-----------------------------------------------------------------------------
(* What makes the invariants inductive; the proofs are in                   *)
(* GifticonRedemptionProofs.                                                *)

Busy(h) == req[h].pc # "idle"

\* A handler acts for somebody, on a redemption of somebody.
WellFormed(r) ==
  /\ r.pc = "idle" => r = Idle
  /\ r.pc # "idle" => r.row.user \in Users /\ r.row.status # "absent"
  /\ r.pc # "idle" /\ (r.op # "redeem" \/ r.pc = "written")
       => r.redemption \in Redemptions
  /\ r.pc \in {"locked", "written"} => r.op # "approve"

ReferencesExist ==
  /\ \A h \in Handlers : WellFormed(req[h])
  /\ \A h \in Handlers :
       Busy(h) /\ req[h].op # "redeem" =>
         redemption[req[h].redemption].status # "absent"
  /\ \A r \in Redemptions :
       redemption[r].status # "absent" => redemption[r].user \in Users

TypeInv == TypeOK /\ ReferencesExist

\* The balance a transaction is about to save is current, and only the holder
\* of the lock has one.
LockedBalance ==
  \A h \in Handlers :
    req[h].pc \in {"locked", "written"} =>
      /\ rowLock[req[h].row.user] = h
      /\ req[h].balance = points[req[h].row.user] + Delta(h)

\* The id of a new redemption is nobody else's until the commit.
NewIdsAreOwn ==
  \A h \in Handlers :
    req[h].pc = "written" /\ req[h].op = "redeem" =>
      /\ redemption[req[h].redemption].status = "absent"
      /\ \A k \in Handlers \ {h} : req[k].redemption # req[h].redemption

\* A decision's copy of the row may be stale in its status, never in its user
\* or in what was paid.
CopiesKeepTheDeal ==
  \A h \in Handlers :
    Busy(h) /\ req[h].op # "redeem" =>
      /\ req[h].row.user = redemption[req[h].redemption].user
      /\ req[h].row.pointsUsed = redemption[req[h].redemption].pointsUsed

\* A redemption that exists took its price.
SpendsOnRecord ==
  \A r \in Redemptions :
    redemption[r].status # "absent" =>
      \E i \in 1..Len(ledger[redemption[r].user]) :
        /\ ledger[redemption[r].user][i].redemption = r
        /\ ledger[redemption[r].user][i].type = "spend"
        /\ ledger[redemption[r].user][i].amount = -redemption[r].pointsUsed

HistoryInv ==
  /\ NewIdsAreOwn
  /\ CopiesKeepTheDeal
  /\ SpendsOnRecord
  /\ RefundIsWhatWasPaid

\* Without overlap: a handler still sees the row it read, and nobody else is
\* busy with that redemption.
NobodyElseDecides ==
  \A h \in Handlers :
    /\ req[h].redemption # None =>
         \A k \in Handlers \ {h} : req[k].redemption # req[h].redemption
    /\ Busy(h) /\ req[h].op # "redeem" =>
         /\ redemption[req[h].redemption] = req[h].row
         /\ req[h].row.status = "pending"
    /\ Busy(h) /\ req[h].op = "redeem" =>
         /\ req[h].row.status = "pending"
         /\ req[h].row.pointsUsed \in Prices \cup {0}
         /\ req[h].pc = "written" =>
              redemption[req[h].redemption].status = "absent"

AbsentIsEmpty ==
  \A r \in Redemptions :
    redemption[r].status = "absent" => redemption[r] = NoRow

SerialInv == NobodyElseDecides /\ AbsentIsEmpty
=============================================================================
