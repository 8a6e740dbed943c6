---------------------------- MODULE PointAccount ----------------------------
(***************************************************************************)
(* The balance of one user, user_profiles.points, under all of its writers. *)
(*                                                                          *)
(*   spend, refund  exchanges and redemptions: the row is locked, then read *)
(*   earn           PointRewardService with a positive or zero setting      *)
(*   charge         PointRewardService, requireSufficientPoints (posts)     *)
(*   fine           PointRewardService with a negative setting, cut at zero *)
(*   adjust         an admin sets the balance (UpdateUserUseCase)           *)
(*   award          a badge is assigned, or a badge request approved        *)
(*   remove         badges are taken away (RemoveBadgeUseCase)              *)
(*   touch          the profile is saved for another column: a login's IP,  *)
(*                  the IP synchronisation job, UpdateProfileUseCase        *)
(*                                                                          *)
(* Only spend and refund lock the row before they read it.  TypeORM's save  *)
(* reads the row once more, compares it with the entity, and updates the    *)
(* columns that differ: an entity that was read earlier writes its old      *)
(* balance back.                                                            *)
(***************************************************************************)
EXTENDS Integers, Sequences

CONSTANTS
  Writers,        \* handlers and jobs at work on this user
  Kinds,          \* the kinds of writers, of those listed above
  Amounts,        \* points of a setting, a badge, a price; balances admins set
  InitialPoints,
  MaxEntries,     \* bound of the model: nothing but a touch starts once the
                  \* ledger has so many rows
  None

Locking == {"spend", "refund"}
Rewarding == {"earn", "charge", "fine"}
Unlocked == Rewarding \cup {"adjust", "award", "remove", "touch"}

ASSUME ConstantsAssumption ==
  /\ Kinds \subseteq Locking \cup Unlocked
  /\ Amounts \subseteq Nat
  /\ InitialPoints \in Nat
  /\ MaxEntries \in Nat
  /\ None \notin Writers

VARIABLES
  points,   \* user_profiles.points, as committed
  ledger,   \* point_transactions of the user, in the order they committed
  rowLock,  \* the writer whose transaction locks the profile row
  work,     \* the local state of the writers
  clean     \* history: no two writers overlapped, no removal broke off

vars == <<points, ledger, rowLock, work, clean>>

-----------------------------------------------------------------------------
Idle == [pc |-> "idle", op |-> "touch", amount |-> 0, seen |-> 0,
         dirty |-> FALSE]

Begun(op, a) == [pc |-> "read", op |-> op, amount |-> a, seen |-> points,
                 dirty |-> FALSE]

Work == [pc: {"idle", "read", "recorded", "compared", "written"},
         op: Locking \cup Unlocked, amount: Nat, seen: Nat, dirty: BOOLEAN]

Entry == [amount: Int, balanceAfter: Nat]

Working(w) == work[w].pc # "idle"

ClampToZero(n) == IF n < 0 THEN 0 ELSE n

\* Mutant: the cap at zero is forgotten.
NewBalanceUncapped(k) ==
  CASE k.op \in {"refund", "earn", "award"} -> k.seen + k.amount
    [] k.op \in {"spend", "charge", "fine", "remove"} -> k.seen - k.amount
    [] k.op = "adjust" -> k.amount
    [] k.op = "touch" -> k.seen

\* The balance a writer saves, from the balance it has seen.
NewBalance(k) ==
  CASE k.op \in {"refund", "earn", "award"} -> k.seen + k.amount
    [] k.op \in {"spend", "charge", "fine", "remove"} ->
         ClampToZero(k.seen - k.amount)
    [] k.op = "adjust" -> k.amount
    [] k.op = "touch" -> k.seen

\* Mutant: the ledger row of a removal has the points of the badge, not what
\* could be taken.
EntryUncapped(k) ==
  [amount |-> IF k.op \in {"spend", "charge", "fine", "remove"}
              THEN -k.amount ELSE NewBalance(k) - k.seen,
   balanceAfter |-> NewBalance(k)]

\* The ledger row: what was given, or what could be taken.
EntryOf(k) == [amount |-> NewBalance(k) - k.seen,
               balanceAfter |-> NewBalance(k)]

\* Mutant: the admin's adjustment is not recorded when the balance goes down.
RecordsEarnsOnly(k) ==
  /\ k.op # "touch"
  /\ k.op = "adjust" => k.amount > k.seen

Records(k) ==
  /\ k.op # "touch"
  /\ k.op = "adjust" => k.amount # k.seen

\* rewardPoints leaves the profile alone when the setting is zero.
SkipsSave(k) == k.op \in Rewarding /\ k.amount = 0

-----------------------------------------------------------------------------
Init ==
  /\ points = InitialPoints
  /\ ledger = << >>
  /\ rowLock = None
  /\ work = [w \in Writers |-> Idle]
  /\ clean = TRUE

Starts(w, op) ==
  /\ op \in Kinds
  /\ work[w].pc = "idle"
  /\ clean' = (clean /\ \A v \in Writers \ {w} : ~Working(v))

\* Mutant: the row is read without FOR UPDATE.
ReadWithoutLock(w, op, a) ==
  /\ Starts(w, op)
  /\ op = "spend" => points >= a
  /\ work' = [work EXCEPT ![w] = Begun(op, a)]
  /\ UNCHANGED <<points, ledger, rowLock>>

\* SELECT ... FOR UPDATE, and "Recheck balance after lock".
ReadUnderLock(w, op, a) ==
  /\ Starts(w, op)
  /\ rowLock = None
  /\ op = "spend" => points >= a
  /\ rowLock' = w
  /\ work' = [work EXCEPT ![w] = Begun(op, a)]
  /\ UNCHANGED <<points, ledger>>

\* Every other writer reads the profile without a lock.
Read(w, op, a) ==
  /\ Starts(w, op)
  /\ work' = [work EXCEPT ![w] = Begun(op, a)]
  /\ UNCHANGED <<points, ledger, rowLock>>

RewardPoints(w, a) ==
  \E op \in Rewarding :
    /\ op = "charge" => points >= a     \* requireSufficientPoints
    /\ Read(w, op, a)

UpdateUser(w, a) == Read(w, "adjust", a)

\* Assigned by an admin, or through a badge request that is approved.
AssignBadge(w, a) == a > 0 /\ Read(w, "award", a)

RemoveBadge(w, a) == a > 0 /\ Read(w, "remove", a)

SyncUserIps(w) == Read(w, "touch", 0)

\* RemoveBadgeUseCase has no transaction: its ledger row is there at once.
RecordRemoval(w) ==
  /\ work[w].pc = "read"
  /\ work[w].op = "remove"
  /\ ledger' = Append(ledger, EntryOf(work[w]))
  /\ work' = [work EXCEPT ![w].pc = "recorded"]
  /\ UNCHANGED <<points, rowLock, clean>>

\* save: the row is read again and the columns that differ are found.  With
\* nothing to update no UPDATE is sent; a touch always has its own column.
Compare(w) ==
  LET k == work[w]
      dirty == ~SkipsSave(k) /\ NewBalance(k) # points
  IN  /\ k.pc = IF k.op = "remove" THEN "recorded" ELSE "read"
      /\ work' = [work EXCEPT
           ![w].dirty = dirty,
           ![w].pc = IF dirty \/ k.op = "touch" THEN "compared" ELSE "written"]
      /\ UNCHANGED <<points, ledger, rowLock, clean>>

\* UPDATE, which waits for the lock of the row and then holds it.
Update(w) ==
  /\ work[w].pc = "compared"
  /\ rowLock \in {None, w}
  /\ rowLock' = w
  /\ work' = [work EXCEPT ![w].pc = "written"]
  /\ UNCHANGED <<points, ledger, clean>>

Release(w) == IF rowLock = w THEN None ELSE rowLock

Commit(w) ==
  LET k == work[w]
  IN  /\ k.pc = "written"
      /\ points' = IF k.dirty THEN NewBalance(k) ELSE points
      /\ ledger' = IF Records(k) /\ k.op # "remove"
                   THEN Append(ledger, EntryOf(k)) ELSE ledger
      /\ rowLock' = Release(w)
      /\ work' = [work EXCEPT ![w] = Idle]
      /\ UNCHANGED clean

\* An error or the end of the process: the transaction is rolled back, which a
\* removal does not have.
Abort(w) ==
  /\ Working(w)
  /\ rowLock' = Release(w)
  /\ work' = [work EXCEPT ![w] = Idle]
  /\ clean' = (clean /\ ~(work[w].op = "remove" /\ work[w].pc # "read"))
  /\ UNCHANGED <<points, ledger>>

Next ==
  \E w \in Writers :
    \/ /\ Len(ledger) < MaxEntries
       /\ \E a \in Amounts : \/ \E op \in Locking : ReadUnderLock(w, op, a)
                             \/ RewardPoints(w, a)
                             \/ UpdateUser(w, a)
                             \/ AssignBadge(w, a)
                             \/ RemoveBadge(w, a)
    \/ SyncUserIps(w)
    \/ RecordRemoval(w)
    \/ Compare(w)
    \/ Update(w)
    \/ Commit(w)
    \/ Abort(w)

Spec == Init /\ [][Next]_vars

-----------------------------------------------------------------------------
(* Properties *)

\* Every variable has its type; in particular no balance is negative.
TypeOK ==
  /\ points \in Nat
  /\ ledger \in Seq(Entry)
  /\ rowLock \in Writers \cup {None}
  /\ work \in [Writers -> Work]
  /\ clean \in BOOLEAN

BalanceBefore(i) == IF i = 1 THEN InitialPoints ELSE ledger[i - 1].balanceAfter

CurrentBalance ==
  IF ledger = << >> THEN InitialPoints ELSE ledger[Len(ledger)].balanceAfter

\* As long as writers come one after the other and no removal breaks off, the
\* ledger explains the balance, whichever writers they are: rewards cut at
\* zero, adjustments to an absolute value and removals included.
CleanLedgerChained ==
  clean /\ (\A w \in Writers : ~Working(w)) =>
    /\ points = CurrentBalance
    /\ \A i \in 1..Len(ledger) :
         ledger[i].balanceAfter = BalanceBefore(i) + ledger[i].amount

\* Between the locked read and the commit of a spend or a refund nobody changes
\* the balance it was computed from, not even the writers that take no lock:
\* their UPDATE waits.
LockedReadIsFresh ==
  \A w \in Writers :
    Working(w) /\ work[w].op \in Locking => work[w].seen = points

\* Whatever is overwritten, the balance is one the ledger has recorded, or the
\* first: a stale save brings an old balance back, it never invents one.
BalanceIsOnRecord ==
  \/ points = InitialPoints
  \/ \E i \in 1..Len(ledger) : ledger[i].balanceAfter = points

\* "Reload user profile with pessimistic lock to prevent race condition": the
\* movement of points a lock protected is still in the balance after the next
\* write, which moves the balance by its own amount.
EveryWriteMovesItsAmount ==
  [][points' # points =>
       \E w \in Writers : /\ work[w].pc = "written"
                          /\ points' = points + EntryOf(work[w]).amount]_vars
=============================================================================
