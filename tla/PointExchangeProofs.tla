------------------------ MODULE PointExchangeProofs ------------------------
(* Theorems about PointExchange, for every value of its constants. *)
EXTENDS PointExchange, Functions, FiniteSetTheorems, WellFoundedInduction, TLAPS

-----------------------------------------------------------------------------
(* Types *)

LEMMA BlankTypes == NoRow \in Row /\ Idle \in HandlerState /\ WellFormed(Idle)
<1>1. NoRow \in Row
  BY DEF NoRow, Row, Status
<1>2. Idle \in HandlerState
  BY <1>1 DEF Idle, HandlerState, Ops, Status
<1>3. WellFormed(Idle)
  BY DEF Idle, WellFormed, BusyPc, ByAdmin, ByManager
<1>4. QED
  BY <1>1, <1>2, <1>3

LEMMA DeltaType ==
  ASSUME TypeOK, NEW h \in Handlers
  PROVE  /\ Delta(h) \in Int
         /\ \A n \in Int : ClampToZero(n) \in Nat
BY DEF TypeOK, HandlerState, Row, Delta, ClampToZero

\* The row a use case writes: its own status, the same exchange.
LEMMA NewRowFields ==
  ASSUME TypeInv, NEW h \in Handlers, NEW row \in Row, req[h].op # "request"
  PROVE  /\ NewRow(h, row) \in Row
         /\ NewRow(h, row).status = Outcome(req[h].op)
         /\ NewRow(h, row).user = row.user
         /\ NewRow(h, row).amount = row.amount
<1> DEFINE r == req[h]
<1>1. /\ r \in HandlerState /\ r.row \in Row /\ WellFormed(r)
      /\ r.op \in Refunding \cup Direct
  BY DEF TypeInv, TypeOK, HandlerState, ReferencesExist, Ops
<1>2. KeepManager(h, row) \in Users \cup {None}
  BY <1>1 DEF KeepManager, Row
<1>3. CASE r.op = "cancel"
  BY <1>3 DEF NewRow, CancelledRow, Row, Status, Settled, Undone, Outcome
<1>4. CASE r.op = "adminReject"
  BY <1>1, <1>2, <1>4 DEF NewRow, RejectedByAdmin, Row, Status, Settled, Undone,
                          Outcome, WellFormed, ByAdmin
<1>5. CASE r.op = "managerReject"
  BY <1>1, <1>5 DEF NewRow, RejectedByManager, Row, Status, Settled, Undone,
                    Outcome, WellFormed, ByManager
<1>6. CASE r.op = "adminApprove"
  BY <1>1, <1>2, <1>6 DEF NewRow, ApprovedByAdmin, Row, Status, Settled, Outcome,
                          WellFormed, ByAdmin
<1>7. CASE r.op = "managerApprove"
  BY <1>1, <1>7 DEF NewRow, ApprovedByManager, Row, Status, Settled, Outcome,
                    WellFormed, ByManager
<1>8. CASE r.op = "adminProcess"
  BY <1>1, <1>8 DEF NewRow, ProcessedByAdmin, Row, Status, Open, Outcome,
                    WellFormed, ByAdmin
<1>9. CASE r.op = "managerProcess"
  BY <1>1, <1>9 DEF NewRow, ProcessedByManager, Row, Status, Open, Outcome,
                    WellFormed, ByManager
<1>10. QED
  BY <1>1, <1>3, <1>4, <1>5, <1>6, <1>7, <1>8, <1>9 DEF Refunding, Direct

\* The row of a new exchange is the one of the user that asks for it.
LEMMA NewRowType ==
  ASSUME TypeInv, NEW h \in Handlers, Busy(h), NEW row \in Row
  PROVE  /\ NewRow(h, row) \in Row
         /\ NewRow(h, row).user =
              IF req[h].op = "request" THEN req[h].row.user ELSE row.user
<1>1. req[h].row \in Row
  BY DEF TypeInv, TypeOK, HandlerState
<1>2. CASE req[h].op = "request"
  BY <1>1, <1>2 DEF NewRow
<1>3. CASE req[h].op # "request"
  BY <1>3, NewRowFields
<1>4. QED
  BY <1>2, <1>3

\* No use case writes the status "absent".
LEMMA NewRowNotAbsent ==
  ASSUME TypeInv, NEW h \in Handlers, Busy(h), NEW row \in Row
  PROVE  NewRow(h, row).status # "absent"
<1> DEFINE r == req[h]
<1>1. r \in HandlerState /\ WellFormed(r)
  BY DEF TypeInv, TypeOK, ReferencesExist
<1>2. CASE r.op = "request"
  BY <1>1, <1>2 DEF NewRow, WellFormed, Busy
<1>3. CASE r.op # "request"
  BY <1>1, <1>3, NewRowFields DEF Outcome, HandlerState, Ops, Refunding, Direct
<1>4. QED
  BY <1>2, <1>3

\* A step that gives one handler a well-formed state, and changes no data.
LEMMA OneHandler ==
  ASSUME TypeInv, NEW h \in Handlers, NEW r \in HandlerState, WellFormed(r),
         r.pc \in BusyPc /\ r.op # "request" =>
           exchange[r.exchange].status # "absent",
         req' = [req EXCEPT ![h] = r], UNCHANGED database,
         rowLock' \in [Users -> Handlers \cup {None}]
  PROVE  TypeInv'
<1>1. TypeOK'
  BY DEF TypeInv, TypeOK, database
<1>2. \A g \in Handlers : req'[g] = IF g = h THEN r ELSE req[g]
  BY DEF TypeInv, TypeOK
<1>3. ReferencesExist'
  BY <1>2 DEF TypeInv, ReferencesExist, Busy, WellFormed, database
<1>4. QED
  BY <1>1, <1>3 DEF TypeInv

\* A step that writes the new row of its exchange and has h committed.
LEMMA OneCommit ==
  ASSUME TypeInv, NEW h \in Handlers, Busy(h), req[h].exchange \in Exchanges,
         exchange' = [exchange EXCEPT ![req[h].exchange] = NewRow(h, @)],
         req' = [req EXCEPT ![h].pc = "committed"],
         NewRow(h, exchange[req[h].exchange]).status # "absent",
         points' \in [Users -> Nat], ledger' \in [Users -> Seq(Entry)],
         rowLock' \in [Users -> Handlers \cup {None}]
  PROVE  TypeInv'
<1> DEFINE r == req[h]
           e == r.exchange
           row == NewRow(h, exchange[e])
<1>1. r \in HandlerState /\ r.row \in Row /\ WellFormed(r) /\ exchange[e] \in Row
  BY DEF TypeInv, TypeOK, HandlerState, ReferencesExist
<1>2. row \in Row /\ row.user \in Users
  BY <1>1, NewRowType DEF WellFormed, Busy, ReferencesExist, TypeInv
<1>3. [r EXCEPT !.pc = "committed"] \in HandlerState
  BY <1>1 DEF HandlerState
<1>4. \A x \in Exchanges : exchange'[x] = IF x = e THEN row ELSE exchange[x]
  BY DEF TypeInv, TypeOK
<1>5. \A g \in Handlers :
        req'[g] = IF g = h THEN [r EXCEPT !.pc = "committed"] ELSE req[g]
  BY DEF TypeInv, TypeOK
<1>6. TypeOK'
  BY <1>2, <1>3 DEF TypeInv, TypeOK
<1>7. \A g \in Handlers : WellFormed(req[g])'
  <2>1. WellFormed([r EXCEPT !.pc = "committed"])
    BY <1>1 DEF WellFormed, Busy, HandlerState, BusyPc
  <2>2. QED
    BY <1>5, <2>1 DEF TypeInv, ReferencesExist, WellFormed
<1>8. \A g \in Handlers :
        Busy(g)' /\ req'[g].op # "request" =>
          exchange'[req'[g].exchange].status # "absent"
  <2> SUFFICES ASSUME NEW g \in Handlers, Busy(g)', req'[g].op # "request"
               PROVE  exchange'[req'[g].exchange].status # "absent"
    OBVIOUS
  <2>1. /\ req'[g].op = req[g].op
        /\ req'[g].exchange = req[g].exchange
        /\ Busy(g)
    BY <1>1, <1>5 DEF Busy, HandlerState, BusyPc
  <2>2. req[g].exchange \in Exchanges
    BY <2>1 DEF TypeInv, ReferencesExist, WellFormed, Busy
  <2>3. exchange[req[g].exchange].status # "absent"
    BY <2>1 DEF TypeInv, ReferencesExist
  <2>4. QED
    BY <1>4, <2>1, <2>2, <2>3
<1>9. \A x \in Exchanges :
        exchange'[x].status # "absent" => exchange'[x].user \in Users
  BY <1>2, <1>4 DEF TypeInv, ReferencesExist
<1>10. QED
  BY <1>6, <1>7, <1>8, <1>9 DEF TypeInv, ReferencesExist, WellFormed, Busy

LEMMA TypeStep ==
  ASSUME TypeInv, NEW h \in Handlers, Step(h) PROVE TypeInv'
<1> DEFINE r == req[h]
<1>0. /\ r \in HandlerState
      /\ r.row \in Row
      /\ WellFormed(r)
      /\ Busy(h) /\ r.op # "request" => exchange[r.exchange].status # "absent"
      /\ rowLock \in [Users -> Handlers \cup {None}]
      /\ [rowLock EXCEPT ![r.row.user] = None]
            \in [Users -> Handlers \cup {None}]
      /\ [rowLock EXCEPT ![r.row.user] = h]
            \in [Users -> Handlers \cup {None}]
  BY DEF TypeInv, TypeOK, HandlerState, ReferencesExist
<1>1. ASSUME NEW u \in Users, NEW s \in Sites, NEW a \in Amounts,
             RequestExchange(h, u, s, a)
      PROVE  TypeInv'
  <2> DEFINE row == [NoRow EXCEPT !.status = "pending", !.user = u,
                                  !.site = s, !.amount = a]
             r2 == [Idle EXCEPT !.pc = "checked", !.op = "request",
                                !.actor = u, !.row = row]
  <2>1. row \in Row /\ row.user = u
    BY ConstantsAssumption, BlankTypes DEF NoRow, Row, Status, Open
  <2>2. r2 \in HandlerState /\ r2.op = "request"
    BY <2>1, BlankTypes DEF Idle, HandlerState, Ops
  <2>3. row.status # "absent" /\ r2.row = row /\ r2.pc = "checked"
    BY DEF NoRow, Idle
  <2>4. WellFormed(r2)
    BY <2>1, <2>2, <2>3 DEF WellFormed, ByAdmin, ByManager
  <2>5. QED
    BY <1>0, <1>1, <2>2, <2>4, OneHandler DEF RequestExchange
<1>2. ASSUME NEW op \in Refunding \cup Direct,
             NEW actor \in Users \cup Admins,
             op \in ByAdmin => actor \in Admins,
             op \in ByManager => actor \in Users,
             NEW e \in Exchanges, NEW from \in SUBSET Open,
             Begin(h, op, actor, e, from)
      PROVE  TypeInv'
  <2> DEFINE r2 == [Idle EXCEPT !.pc = "checked", !.op = op,
                      !.actor = actor, !.exchange = e, !.row = exchange[e]]
  <2>1. r2 \in HandlerState /\ r2.exchange = e
    BY BlankTypes DEF Idle, HandlerState, Ops, TypeOK, TypeInv
  <2>2. exchange[e].status # "absent" /\ exchange[e].user \in Users
    BY <1>2 DEF Begin, Open, TypeInv, ReferencesExist
  <2>3. WellFormed(r2)
    BY <1>2, <2>2 DEF WellFormed, Idle
  <2>4. QED
    BY <1>0, <1>2, <2>1, <2>2, <2>3, OneHandler DEF Begin
<1>3. CASE UserStarts(h)
  BY <1>1, <1>2, <1>3
  DEF UserStarts, Cancel, Refunding, Direct, ByAdmin, ByManager
<1>4. CASE AdminStarts(h)
  BY <1>2, <1>4 DEF AdminStarts, AdminReject, AdminApprove, AdminProcess,
                    Refunding, Direct, ByAdmin, ByManager, Open
<1>5. CASE ManagerStarts(h)
  BY <1>2, <1>5 DEF ManagerStarts, ManagerReject, ManagerApprove,
                    ManagerProcess, Refunding, Direct, ByAdmin, ByManager, Open
<1>6. CASE LockProfile(h)
  <2> DEFINE r2 == [r EXCEPT !.pc = "locked",
                      !.balance = ClampToZero(points[r.row.user] + Delta(h))]
  <2>1. points[r.row.user] + Delta(h) \in Int
    BY <1>0, <1>6, DeltaType
    DEF LockProfile, TypeOK, TypeInv, WellFormed, BusyPc
  <2>2. r2 \in HandlerState
    BY <1>0, <2>1, DeltaType DEF HandlerState, TypeInv
  <2>3. WellFormed(r2)
    BY <1>0, <1>6 DEF WellFormed, LockProfile, HandlerState, BusyPc, Refunding,
                      Direct
  <2>4. req' = [req EXCEPT ![h] = r2]
    BY <1>6 DEF LockProfile, TypeOK, TypeInv
  <2>5. r2.op # "request" => exchange[r2.exchange].status # "absent"
    BY <1>0, <1>6 DEF LockProfile, Busy, BusyPc, HandlerState
  <2>6. QED
    BY <1>0, <1>6, <2>2, <2>3, <2>4, <2>5, OneHandler DEF LockProfile
<1>7. ASSUME req' = [req EXCEPT ![h] = Idle], UNCHANGED <<database, rowLock>>
      PROVE  TypeInv'
  <2>1. Idle.op = "request"
    BY DEF Idle
  <2>2. QED
    BY <1>0, <1>7, <2>1, BlankTypes, OneHandler
<1>8. CASE InsufficientPoints(h) \/ PublishExchangeEvent(h) \/ ReturnError(h)
  BY <1>7, <1>8 DEF InsufficientPoints, PublishExchangeEvent, ReturnError
<1>9. ASSUME NEW e \in Exchanges, InsertExchange(h, e) PROVE TypeInv'
  <2> DEFINE r2 == [r EXCEPT !.pc = "written", !.exchange = e,
                             !.note = "scheduled"]
  <2>1. r2 \in HandlerState /\ r2.op = "request"
    BY <1>0, <1>9 DEF HandlerState, InsertExchange
  <2>2. WellFormed(r2)
    BY <1>0, <1>9 DEF WellFormed, InsertExchange, HandlerState, BusyPc
  <2>3. req' = [req EXCEPT ![h] = r2]
    BY <1>9 DEF InsertExchange, TypeOK, TypeInv
  <2>4. QED
    BY <1>0, <1>9, <2>1, <2>2, <2>3, OneHandler DEF InsertExchange
<1>10. CASE WriteDecision(h)
  <2> DEFINE r2 == [r EXCEPT !.pc = "written", !.note = "scheduled"]
  <2>1. r2 \in HandlerState
    BY <1>0 DEF HandlerState
  <2>2. WellFormed(r2) /\ exchange[r2.exchange].status # "absent"
    BY <1>0, <1>10
    DEF WellFormed, WriteDecision, HandlerState, Busy, BusyPc, Refunding
  <2>3. req' = [req EXCEPT ![h] = r2]
    BY <1>10 DEF WriteDecision, TypeOK, TypeInv
  <2>4. QED
    BY <1>0, <1>10, <2>1, <2>2, <2>3, OneHandler DEF WriteDecision
<1>11. CASE ReloadAndReturn(h)
  <2> DEFINE r2 == [r EXCEPT !.pc = "returned",
                             !.shown = exchange[r.exchange].status]
  <2>1. exchange[r.exchange].status \in Status
    BY <1>0, <1>11
    DEF ReloadAndReturn, WellFormed, BusyPc, TypeInv, TypeOK, Row
  <2>2. r2 \in HandlerState /\ r2.pc \notin BusyPc
    BY <1>0, <2>1 DEF HandlerState, BusyPc
  <2>3. WellFormed(r2)
    BY <1>0, <2>2 DEF WellFormed, HandlerState
  <2>4. req' = [req EXCEPT ![h] = r2]
    BY <1>11 DEF ReloadAndReturn, TypeOK, TypeInv
  <2>5. QED
    BY <1>0, <1>11, <2>2, <2>3, <2>4, OneHandler DEF ReloadAndReturn
<1>12. CASE PublishPointUpdated(h)
  <2>1. PICK outcome \in {"sent", "none"} :
             req' = [req EXCEPT ![h].note = outcome]
    BY <1>12 DEF PublishPointUpdated
  <2> DEFINE r2 == [r EXCEPT !.note = outcome]
  <2>2. /\ r2 \in HandlerState
        /\ r2.pc = r.pc /\ r2.op = r.op /\ r2.exchange = r.exchange
    BY <1>0 DEF HandlerState
  <2>3. WellFormed(r2)
    BY <1>0 DEF WellFormed, HandlerState
  <2>4. req' = [req EXCEPT ![h] = r2]
    BY <2>1 DEF TypeOK, TypeInv
  <2>5. QED
    BY <1>0, <1>12, <2>2, <2>3, <2>4, OneHandler DEF PublishPointUpdated, Busy
<1>13. CASE Abort(h)
  <2> DEFINE r2 == [r EXCEPT !.pc = "failed"]
  <2>1. r2 \in HandlerState /\ r2.pc \notin BusyPc
    BY <1>0 DEF HandlerState, BusyPc
  <2>2. WellFormed(r2)
    BY <1>0, <2>1 DEF WellFormed, HandlerState
  <2>3. req' = [req EXCEPT ![h] = r2]
    BY <1>13 DEF Abort, TypeOK, TypeInv
  <2>4. QED
    BY <1>0, <1>13, <2>1, <2>2, <2>3, OneHandler DEF Abort
<1>14. CASE UpdateDirectly(h)
  <2>1. Busy(h) /\ r.exchange \in Exchanges
    BY <1>0, <1>14 DEF UpdateDirectly, Busy, BusyPc, WellFormed, Direct
  <2>2. NewRow(h, exchange[r.exchange]).status # "absent"
    BY <2>1, NewRowNotAbsent DEF TypeInv, TypeOK
  <2>3. QED
    BY <1>14, <2>1, <2>2, OneCommit DEF UpdateDirectly, TypeInv, TypeOK
<1>15. CASE Commit(h)
  <2>1. Busy(h) /\ r.exchange \in Exchanges /\ r.row.user \in Users
    BY <1>0, <1>15 DEF Commit, Busy, BusyPc, WellFormed
  <2>2. NewRow(h, exchange[r.exchange]).status # "absent"
    BY <2>1, NewRowNotAbsent DEF TypeInv, TypeOK
  <2>3. LedgerEntry(h) \in Entry
    BY <1>0, <2>1, DeltaType DEF LedgerEntry, Entry, HandlerState, TypeInv
  <2>4. ledger' \in [Users -> Seq(Entry)]
    BY <1>15, <2>1, <2>3 DEF Commit, TypeInv, TypeOK
  <2>5. points' \in [Users -> Nat]
    BY <1>0, <1>15 DEF Commit, TypeInv, TypeOK, HandlerState
  <2>6. QED
    BY <1>0, <1>15, <2>1, <2>2, <2>4, <2>5, OneCommit DEF Commit
<1>16. QED
  BY <1>3, <1>4, <1>5, <1>6, <1>8, <1>9, <1>10, <1>11, <1>12, <1>13,
     <1>14, <1>15 DEF Step, Continue

LEMMA TypingInit == Init => TypeInv
<1>1. << >> \in Seq(Entry)
  OBVIOUS
<1>2. Idle.op = "request" /\ NoRow.status = "absent"
  BY DEF Idle, NoRow
<1>3. QED
  BY <1>1, <1>2, BlankTypes, ConstantsAssumption
  DEF Init, TypeInv, TypeOK, ReferencesExist, Busy

LEMMA TypingStutter == TypeInv /\ UNCHANGED vars => TypeInv'
BY DEF TypeInv, TypeOK, ReferencesExist, WellFormed, Busy, vars

\* The type invariant: rows, ledgers and handlers keep their types, and
\* handlers in progress name users and exchanges that exist.
THEOREM Typing == Spec => []TypeOK
<1>1. TypeInv /\ [Next]_vars => TypeInv'
  BY TypingStutter, TypeStep DEF Next
<1>2. TypeInv => TypeOK
  BY DEF TypeInv
<1>3. QED
  BY TypingInit, <1>1, <1>2, PTL DEF Spec

-----------------------------------------------------------------------------
(* The ledger *)

LedgerInv == TypeInv /\ LockedBalance /\ LedgerChained

Quiet(h) == UserStarts(h) \/ AdminStarts(h) \/ ManagerStarts(h)
            \/ InsufficientPoints(h) \/ UpdateDirectly(h) \/ ReloadAndReturn(h)
            \/ PublishPointUpdated(h) \/ PublishExchangeEvent(h)
            \/ ReturnError(h) \/ WriteDecision(h)
            \/ (\E e \in Exchanges : InsertExchange(h, e))

\* A quiet step leaves balances, ledgers and locks alone, and a handler that
\* is in its transaction afterwards was in it before, with the same balance.
LEMMA QuietStep ==
  ASSUME TypeInv, NEW h \in Handlers, Quiet(h)
  PROVE  /\ UNCHANGED <<points, ledger, rowLock>>
         /\ \A g \in Handlers :
              req'[g].pc \in {"locked", "written"} =>
                /\ req[g].pc \in {"locked", "written"}
                /\ req'[g].row = req[g].row
                /\ req'[g].op = req[g].op
                /\ req'[g].balance = req[g].balance
<1>0. req \in [Handlers -> HandlerState]
  BY DEF TypeInv, TypeOK
<1>1. CASE UserStarts(h) \/ AdminStarts(h) \/ ManagerStarts(h)
  <2>1. /\ UNCHANGED <<points, ledger, rowLock>>
        /\ \E r : r.pc = "checked" /\ req' = [req EXCEPT ![h] = r]
    BY <1>1 DEF UserStarts, RequestExchange, Cancel, Begin, AdminStarts,
       AdminReject, AdminApprove, AdminProcess, ManagerStarts, ManagerReject,
       ManagerApprove, ManagerProcess, Idle, database
  <2>2. QED
    BY <1>0, <2>1
<1>2. CASE InsufficientPoints(h) \/ PublishExchangeEvent(h) \/ ReturnError(h)
  BY <1>0, <1>2 DEF InsufficientPoints, PublishExchangeEvent, ReturnError, Idle,
                    database
<1>3. CASE UpdateDirectly(h)
  BY <1>0, <1>3 DEF UpdateDirectly, HandlerState
<1>4. CASE ReloadAndReturn(h)
  BY <1>0, <1>4 DEF ReloadAndReturn, HandlerState, database
<1>5. CASE PublishPointUpdated(h)
  BY <1>0, <1>5 DEF PublishPointUpdated, HandlerState, database
<1>6. CASE WriteDecision(h)
  BY <1>0, <1>6 DEF WriteDecision, HandlerState, database
<1>7. ASSUME NEW e \in Exchanges, InsertExchange(h, e)
      PROVE  /\ UNCHANGED <<points, ledger, rowLock>>
             /\ \A g \in Handlers :
                  req'[g].pc \in {"locked", "written"} =>
                    /\ req[g].pc \in {"locked", "written"}
                    /\ req'[g].row = req[g].row
                    /\ req'[g].op = req[g].op
                    /\ req'[g].balance = req[g].balance
  BY <1>0, <1>7 DEF InsertExchange, HandlerState, database
<1>8. QED
  BY <1>1, <1>2, <1>3, <1>4, <1>5, <1>6, <1>7 DEF Quiet

\* A row appended to a chained ledger continues the chain, if it starts from
\* the current balance.
LEMMA ChainGrows ==
  ASSUME TypeInv, LedgerChained, NEW u \in Users, NEW entry \in Entry,
         entry.balanceAfter = points[u] + entry.amount,
         points' = [points EXCEPT ![u] = entry.balanceAfter],
         ledger' = [ledger EXCEPT ![u] = Append(@, entry)]
  PROVE  LedgerChained'
<1> SUFFICES ASSUME NEW v \in Users
             PROVE  /\ points'[v] = CurrentBalance(v)'
                    /\ \A i \in 1..Len(ledger'[v]) :
                         ledger'[v][i].balanceAfter =
                           BalanceBefore(v, i)' + ledger'[v][i].amount
  BY DEF LedgerChained
<1>0. /\ points \in [Users -> Nat]
      /\ ledger \in [Users -> Seq(Entry)]
      /\ points[v] = CurrentBalance(v)
      /\ \A i \in 1..Len(ledger[v]) :
           ledger[v][i].balanceAfter = BalanceBefore(v, i) + ledger[v][i].amount
  BY DEF TypeInv, TypeOK, LedgerChained
<1>1. CASE v # u
  BY <1>0, <1>1 DEF CurrentBalance, BalanceBefore
<1>2. CASE v = u
  <2> DEFINE old == ledger[v]
             new == ledger'[v]
  <2>1. /\ new = Append(old, entry)
        /\ old \in Seq(Entry)
        /\ points'[v] = entry.balanceAfter
    BY <1>0, <1>2
  <2>2. /\ Len(new) = Len(old) + 1
        /\ Len(old) \in Nat
        /\ new[Len(old) + 1] = entry
        /\ \A i \in 1..Len(old) : new[i] = old[i]
        /\ new # << >>
    BY <2>1
  <2>3. points'[v] = CurrentBalance(v)'
    BY <2>1, <2>2 DEF CurrentBalance
  <2>4. \A i \in 1..(Len(old) + 1) :
          i = Len(old) + 1 => BalanceBefore(v, i)' = points[v]
    <3>1. CASE old = << >>
      BY <1>0, <2>2, <3>1 DEF BalanceBefore, CurrentBalance
    <3>2. CASE old # << >>
      <4>1. Len(old) \in 1..Len(old) /\ Len(old) + 1 # 1
        BY <2>1, <2>2, <3>2
      <4>2. QED
        BY <1>0, <2>2, <3>2, <4>1 DEF BalanceBefore, CurrentBalance
    <3>3. QED
      BY <3>1, <3>2
  <2>5. \A i \in 1..Len(old) : BalanceBefore(v, i)' = BalanceBefore(v, i)
    BY <2>2 DEF BalanceBefore
  <2>6. ASSUME NEW i \in 1..Len(new)
        PROVE  new[i].balanceAfter = BalanceBefore(v, i)' + new[i].amount
    <3>1. CASE i \in 1..Len(old)
      BY <1>0, <2>2, <2>5, <3>1
    <3>2. CASE i = Len(old) + 1
      BY <1>2, <2>2, <2>4, <3>2
    <3>3. QED
      BY <2>2, <3>1, <3>2
  <2>7. QED
    BY <2>3, <2>6
<1>3. QED
  BY <1>1, <1>2

LEMMA LedgerStep ==
  ASSUME LedgerInv, NEW h \in Handlers, Step(h) PROVE LedgerInv'
<1> DEFINE u == req[h].row.user
<1>0. /\ TypeInv /\ TypeInv'
      /\ req \in [Handlers -> HandlerState]
      /\ rowLock \in [Users -> Handlers \cup {None}]
      /\ points \in [Users -> Nat]
      /\ None \notin Handlers
      /\ \A g \in Handlers : Busy(g) => req[g].row.user \in Users
  BY TypeStep, ConstantsAssumption
  DEF LedgerInv, TypeInv, TypeOK, ReferencesExist, WellFormed, Busy
<1>1. CASE Quiet(h)
  <2>1. LockedBalance'
    BY <1>0, <1>1, QuietStep DEF LedgerInv, LockedBalance, Delta
  <2>2. LedgerChained'
    BY <1>0, <1>1, QuietStep
    DEF LedgerInv, LedgerChained, CurrentBalance, BalanceBefore
  <2>3. QED
    BY <1>0, <2>1, <2>2 DEF LedgerInv
<1>2. CASE LockProfile(h)
  <2>1. /\ UNCHANGED <<points, ledger>>
        /\ u \in Users /\ rowLock[u] = None
        /\ rowLock' = [rowLock EXCEPT ![u] = h]
        /\ \A g \in Handlers \ {h} : req'[g] = req[g]
        /\ req'[h].row = req[h].row /\ req'[h].op = req[h].op
        /\ req'[h].balance = ClampToZero(points[u] + Delta(h))
    BY <1>0, <1>2 DEF LockProfile, database, HandlerState, Busy, BusyPc
  <2>2. points[u] + Delta(h) >= 0
    BY <1>0, <1>2, <2>1 DEF LockProfile, Delta, HandlerState, Row
  <2>3. req'[h].balance = points[u] + Delta(h)
    <3>1. points[u] + Delta(h) \in Int
      BY <1>0, <2>1, DeltaType DEF TypeInv
    <3>2. QED
      BY <2>1, <2>2, <3>1 DEF ClampToZero
  <2>4. \A g \in Handlers : Delta(g)' = Delta(g)
    BY <1>0, <2>1 DEF Delta
  <2>5. LockedBalance'
    BY <1>0, <2>1, <2>3, <2>4 DEF LedgerInv, LockedBalance
  <2>6. LedgerChained'
    BY <2>1 DEF LedgerInv, LedgerChained, CurrentBalance, BalanceBefore
  <2>7. QED
    BY <1>0, <2>5, <2>6 DEF LedgerInv
<1>3. ASSUME NEW pc \in {"committed", "failed"},
             req' = [req EXCEPT ![h].pc = pc],
             req[h].pc \in {"locked", "written"},
             rowLock' = [rowLock EXCEPT ![u] = None],
             \A v \in Users \ {u} : points'[v] = points[v]
      PROVE  LockedBalance'
  <2> SUFFICES ASSUME NEW g \in Handlers, req'[g].pc \in {"locked", "written"}
               PROVE  /\ rowLock'[req'[g].row.user] = g
                      /\ req'[g].balance = points'[req'[g].row.user] + Delta(g)'
    BY DEF LockedBalance
  <2>1. g # h /\ req'[g] = req[g]
    BY <1>0, <1>3 DEF HandlerState
  <2>2. req[g].row.user \in Users /\ rowLock[req[g].row.user] = g
    BY <1>0, <2>1 DEF LedgerInv, LockedBalance, Busy, BusyPc
  <2>3. u \in Users /\ rowLock[u] = h
    BY <1>0, <1>3 DEF LedgerInv, LockedBalance, Busy, BusyPc
  <2>4. req[g].row.user # u
    BY <2>1, <2>2, <2>3
  <2>5. QED
    BY <1>0, <1>3, <2>1, <2>2, <2>4 DEF LedgerInv, LockedBalance, Delta
<1>4. CASE Abort(h)
  <2>1. LockedBalance'
    BY <1>3, <1>4 DEF Abort, database
  <2>2. LedgerChained'
    BY <1>4 DEF Abort, database, LedgerInv, LedgerChained, CurrentBalance,
                BalanceBefore
  <2>3. QED
    BY <1>0, <2>1, <2>2 DEF LedgerInv
<1>5. CASE Commit(h)
  <2>1. /\ req[h].pc = "written" /\ u \in Users
        /\ req[h].balance = points[u] + Delta(h)
        /\ req[h].exchange \in Exchanges
    BY <1>0, <1>5 DEF Commit, LedgerInv, LockedBalance, TypeInv, ReferencesExist,
                      WellFormed, BusyPc
  <2>2. LockedBalance'
    BY <1>0, <1>3, <1>5 DEF Commit
  <2>3. LedgerEntry(h) \in Entry
    BY <1>0, <2>1, DeltaType DEF LedgerEntry, Entry, HandlerState, TypeInv
  <2>4. LedgerChained'
    BY <1>0, <1>5, <2>1, <2>3, ChainGrows DEF Commit, LedgerEntry, LedgerInv
  <2>5. QED
    BY <1>0, <2>2, <2>4 DEF LedgerInv
<1>6. QED
  BY <1>1, <1>2, <1>4, <1>5 DEF Step, Continue, Quiet

LEMMA LedgerInit == Init => LedgerInv
<1>1. Init => LockedBalance /\ LedgerChained
  BY ConstantsAssumption DEF Init, Idle, LockedBalance, LedgerChained, CurrentBalance
<1>2. QED
  BY TypingInit, <1>1 DEF LedgerInv

LEMMA LedgerStutter == LedgerInv /\ UNCHANGED vars => LedgerInv'
BY TypingStutter DEF LedgerInv, LockedBalance, LedgerChained, CurrentBalance,
   BalanceBefore, Delta, vars

\* However the handlers interleave, fail and overlap, the ledger of every user
\* is a chain of balances that ends in the points the profile shows.
THEOREM LedgerIsAChain == Spec => []LedgerChained
<1>1. LedgerInv /\ [Next]_vars => LedgerInv'
  BY LedgerStutter, LedgerStep DEF Next
<1>2. LedgerInv => LedgerChained
  BY DEF LedgerInv
<1>3. QED
  BY LedgerInit, <1>1, <1>2, PTL DEF Spec

-----------------------------------------------------------------------------
(* What has been spent and refunded *)

\* What every step of a handler leaves alone in the other handlers.
LEMMA OthersUntouched ==
  ASSUME TypeInv, NEW h \in Handlers, Step(h)
  PROVE  \A g \in Handlers \ {h} : req'[g] = req[g]
<1>0. req \in [Handlers -> HandlerState]
  BY DEF TypeInv, TypeOK
<1>1. CASE UserStarts(h) \/ AdminStarts(h) \/ ManagerStarts(h)
  BY <1>0, <1>1 DEF UserStarts, RequestExchange, Cancel, Begin, AdminStarts,
     AdminReject, AdminApprove, AdminProcess, ManagerStarts, ManagerReject,
     ManagerApprove, ManagerProcess
<1>2. CASE Continue(h) \/ Abort(h)
  BY <1>0, <1>2 DEF Continue, LockProfile, InsufficientPoints, InsertExchange,
     WriteDecision, UpdateDirectly, Commit, ReloadAndReturn, PublishPointUpdated,
     PublishExchangeEvent, ReturnError, Abort
<1>3. QED
  BY <1>1, <1>2 DEF Step


\* A ledger that grows by one row keeps the rows it has.
LEMMA LedgerGrows ==
  ASSUME ledger \in [Users -> Seq(Entry)], NEW u \in Users, NEW entry \in Entry,
         ledger' = [ledger EXCEPT ![u] = Append(@, entry)]
  PROVE  /\ \A v \in Users : \A i \in 1..Len(ledger[v]) :
              i \in 1..Len(ledger'[v]) /\ ledger'[v][i] = ledger[v][i]
         /\ Len(ledger[u]) \in Nat
         /\ Len(ledger'[u]) = Len(ledger[u]) + 1
         /\ ledger'[u][Len(ledger[u]) + 1] = entry
         /\ \A v \in Users \ {u} : ledger'[v] = ledger[v]
<1> DEFINE old == ledger[u]
           new == ledger'[u]
<1>1. old \in Seq(Entry) /\ new = Append(old, entry)
  OBVIOUS
<1>2. /\ Len(new) = Len(old) + 1
      /\ Len(old) \in Nat
      /\ new[Len(old) + 1] = entry
      /\ \A i \in 1..Len(old) : new[i] = old[i]
  BY <1>1
<1>3. \A v \in Users \ {u} : ledger'[v] = ledger[v]
  OBVIOUS
<1>4. \A i \in 1..Len(old) : i \in 1..Len(new)
  BY <1>2
<1>5. QED
  BY <1>2, <1>3, <1>4

\* What a commit writes.
LEMMA CommitWrites ==
  ASSUME LedgerInv, NEW h \in Handlers, Commit(h)
  PROVE  LET r == req[h]
             e == r.exchange
         IN  /\ r.row.user \in Users /\ e \in Exchanges /\ Busy(h)
             /\ LedgerEntry(h) \in Entry
             /\ ledger' = [ledger EXCEPT ![r.row.user] =
                             Append(@, LedgerEntry(h))]
             /\ exchange'[e] = NewRow(h, exchange[e])
             /\ \A x \in Exchanges \ {e} : exchange'[x] = exchange[x]
             /\ exchange'[e] \in Row
<1> DEFINE r == req[h]
           e == r.exchange
<1>1. /\ r \in HandlerState /\ r.row \in Row /\ WellFormed(r)
      /\ r.pc = "written" /\ exchange \in [Exchanges -> Row]
      /\ e \in Exchanges /\ Busy(h) /\ r.row.user \in Users
  BY DEF Commit, LedgerInv, TypeInv, TypeOK, ReferencesExist, WellFormed, Busy,
         BusyPc, HandlerState
<1>2. r.balance \in Nat /\ Delta(h) \in Int
  BY <1>1, DeltaType DEF LedgerInv, TypeInv, HandlerState
<1>3. LedgerEntry(h) \in Entry
  BY <1>1, <1>2 DEF LedgerEntry, Entry
<1>4. NewRow(h, exchange[e]) \in Row
  BY <1>1, NewRowType DEF LedgerInv
<1>5. QED
  BY <1>1, <1>3, <1>4 DEF Commit

\* A row that exists keeps its user and its amount, whoever writes it, and a
\* row is written by a handler that is busy with it.
LEMMA DealsStay ==
  ASSUME LedgerInv, NewIdsAreOwn, NEW h \in Handlers, Step(h)
  PROVE  \A e \in Exchanges :
           exchange[e].status # "absent" =>
             /\ exchange'[e].status # "absent"
             /\ exchange'[e].user = exchange[e].user
             /\ exchange'[e].amount = exchange[e].amount
<1> SUFFICES ASSUME NEW e \in Exchanges, exchange[e].status # "absent"
             PROVE  /\ exchange'[e].status # "absent"
                    /\ exchange'[e].user = exchange[e].user
                    /\ exchange'[e].amount = exchange[e].amount
  OBVIOUS
<1>1. exchange[e] \in Row /\ TypeInv
  BY DEF LedgerInv, TypeInv, TypeOK
<1>2. CASE exchange'[e] = exchange[e]
  BY <1>2
<1>3. CASE exchange'[e] # exchange[e]
  <2>1. Commit(h) \/ UpdateDirectly(h)
    BY <1>1, <1>3 DEF Step, UserStarts, RequestExchange, Cancel, Begin,
       AdminStarts, AdminReject, AdminApprove, AdminProcess, ManagerStarts,
       ManagerReject, ManagerApprove, ManagerProcess, Continue, LockProfile,
       InsufficientPoints, InsertExchange, WriteDecision, ReloadAndReturn,
       PublishPointUpdated, PublishExchangeEvent, ReturnError, Abort, database
  <2>2. /\ Busy(h) /\ e = req[h].exchange
        /\ exchange'[e] = NewRow(h, exchange[e])
    BY <1>1, <1>3, <2>1
    DEF Commit, UpdateDirectly, Busy, BusyPc, TypeInv, TypeOK
  <2>3. req[h].op # "request"
    BY <1>1, <2>1, <2>2 DEF NewIdsAreOwn, Commit, UpdateDirectly, Direct
  <2>4. QED
    BY <1>1, <2>2, <2>3, NewRowFields, NewRowNotAbsent
<1>4. QED
  BY <1>2, <1>3

LEMMA CopiesStep ==
  ASSUME LedgerInv, NewIdsAreOwn, CopiesKeepTheDeal, NEW h \in Handlers, Step(h)
  PROVE  NewIdsAreOwn' /\ CopiesKeepTheDeal'
<1> DEFINE r == req[h]
<1>0. /\ TypeInv /\ TypeInv'
      /\ req \in [Handlers -> HandlerState] /\ r \in HandlerState
      /\ exchange \in [Exchanges -> Row]
      /\ None \notin Exchanges
      /\ \A g \in Handlers \ {h} : req'[g] = req[g]
      /\ \A g \in Handlers : Busy(g) /\ req[g].op # "request" =>
           /\ req[g].exchange \in Exchanges
           /\ exchange[req[g].exchange].status # "absent"
  BY OthersUntouched, TypeStep, ConstantsAssumption
  DEF LedgerInv, TypeInv, TypeOK, ReferencesExist, WellFormed, Busy
<1>1. \A g \in Handlers \ {h} :
        Busy(g)' /\ req'[g].op # "request" =>
          /\ req'[g].row.user = exchange'[req'[g].exchange].user
          /\ req'[g].row.amount = exchange'[req'[g].exchange].amount
  BY <1>0, DealsStay DEF CopiesKeepTheDeal, Busy
\* A handler that goes on with the exchange and the row it has, or drops them.
<1>2. ASSUME \/ req'[h].exchange = None /\ (req'[h].op = "request")
                /\ req'[h].pc # "written"
             \/ /\ req'[h].exchange = r.exchange
                /\ req'[h].row = r.row /\ req'[h].op = r.op
                /\ Busy(h)' => Busy(h)
                /\ req'[h].pc = "written" /\ r.op = "request" =>
                     r.pc = "written",
             UNCHANGED exchange
      PROVE  NewIdsAreOwn' /\ CopiesKeepTheDeal'
  <2>1. NewIdsAreOwn'
    <3> SUFFICES ASSUME NEW k \in Handlers, req'[k].pc = "written",
                        req'[k].op = "request"
                 PROVE  /\ exchange'[req'[k].exchange].status = "absent"
                        /\ \A g \in Handlers \ {k} :
                             req'[g].exchange # req'[k].exchange
      BY DEF NewIdsAreOwn
    <3>1. /\ req[k].pc = "written" /\ req[k].op = "request"
          /\ req'[k].exchange = req[k].exchange
      BY <1>0, <1>2
    <3>2. req[k].exchange \in Exchanges
      BY <1>0, <3>1 DEF TypeInv, ReferencesExist, WellFormed, BusyPc
    <3>3. QED
      BY <1>0, <1>2, <3>1, <3>2 DEF NewIdsAreOwn
  <2>2. CopiesKeepTheDeal'
    BY <1>0, <1>1, <1>2 DEF CopiesKeepTheDeal, Busy
  <2>3. QED
    BY <2>1, <2>2
<1>3. ASSUME NEW r2, r2.exchange = None, r2.op = "request", r2.pc # "written",
             req' = [req EXCEPT ![h] = r2], UNCHANGED exchange
      PROVE  NewIdsAreOwn' /\ CopiesKeepTheDeal'
  <2>1. /\ req'[h].exchange = None /\ req'[h].op = "request"
        /\ req'[h].pc # "written"
    BY <1>0, <1>3
  <2>2. QED
    BY <1>2, <1>3, <2>1
<1>4. CASE InsufficientPoints(h) \/ PublishExchangeEvent(h) \/ ReturnError(h)
  <2>1. Idle.exchange = None /\ Idle.op = "request" /\ Idle.pc # "written"
    BY DEF Idle
  <2>2. QED
    BY <1>3, <1>4, <2>1 DEF InsufficientPoints, PublishExchangeEvent,
       ReturnError, database
<1>5. ASSUME NEW u \in Users, NEW s \in Sites, NEW a \in Amounts,
              RequestExchange(h, u, s, a)
       PROVE  NewIdsAreOwn' /\ CopiesKeepTheDeal'
  <2> DEFINE r2 == [Idle EXCEPT !.pc = "checked", !.op = "request", !.actor = u,
                      !.row = [NoRow EXCEPT !.status = "pending", !.user = u,
                                            !.site = s, !.amount = a]]
  <2>1. r2.exchange = None /\ r2.op = "request" /\ r2.pc # "written"
    BY DEF Idle
  <2>2. req' = [req EXCEPT ![h] = r2] /\ UNCHANGED exchange
    BY <1>5 DEF RequestExchange, database
  <2> HIDE DEF r2
  <2>3. QED
    BY <1>3, <2>1, <2>2
<1>6. ASSUME NEW op \in Refunding \cup Direct, NEW actor,
             NEW e \in Exchanges, NEW from \in SUBSET Open,
             Begin(h, op, actor, e, from)
      PROVE  NewIdsAreOwn' /\ CopiesKeepTheDeal'
  <2>1. /\ req'[h].op = op /\ op # "request"
        /\ req'[h].exchange = e
        /\ req'[h].row = exchange[e]
        /\ exchange[e].status \in Open
        /\ UNCHANGED exchange
    BY <1>0, <1>6 DEF Begin, Idle, Refunding, Direct, database
  <2>2. NewIdsAreOwn'
    BY <1>0, <2>1 DEF NewIdsAreOwn, Open
  <2>3. CopiesKeepTheDeal'
    BY <1>0, <1>1, <2>1 DEF CopiesKeepTheDeal
  <2>4. QED
    BY <2>2, <2>3
<1>7. CASE UserStarts(h) \/ AdminStarts(h) \/ ManagerStarts(h)
  BY <1>5, <1>6, <1>7
  DEF UserStarts, Cancel, AdminStarts, AdminReject, AdminApprove, AdminProcess,
      ManagerStarts, ManagerReject, ManagerApprove, ManagerProcess,
      Refunding, Direct, Open
<1>8. CASE LockProfile(h) \/ WriteDecision(h) \/ ReloadAndReturn(h)
           \/ PublishPointUpdated(h) \/ Abort(h)
  <2>1. /\ UNCHANGED exchange
        /\ req'[h].exchange = r.exchange
        /\ req'[h].row = r.row /\ req'[h].op = r.op
    BY <1>0, <1>8 DEF LockProfile, WriteDecision, ReloadAndReturn,
       PublishPointUpdated, Abort, database, HandlerState
  <2>2. Busy(h)' => Busy(h)
    BY <1>0, <1>8 DEF LockProfile, WriteDecision, ReloadAndReturn,
       PublishPointUpdated, Abort, HandlerState, Busy, BusyPc
  <2>3. req'[h].pc = "written" /\ r.op = "request" => r.pc = "written"
    BY <1>0, <1>8 DEF LockProfile, WriteDecision, ReloadAndReturn,
       PublishPointUpdated, Abort, HandlerState, Refunding
  <2>4. QED
    BY <1>2, <2>1, <2>2, <2>3
<1>9. ASSUME NEW e \in Exchanges, InsertExchange(h, e)
      PROVE  NewIdsAreOwn' /\ CopiesKeepTheDeal'
  <2>1. /\ UNCHANGED exchange
        /\ r.op = "request" /\ req'[h].op = "request" /\ req'[h].exchange = e
        /\ exchange[e].status = "absent"
        /\ \A g \in Handlers : req[g].exchange # e
    BY <1>0, <1>9 DEF InsertExchange, database, HandlerState
  <2>2. NewIdsAreOwn'
    BY <1>0, <2>1 DEF NewIdsAreOwn
  <2>3. CopiesKeepTheDeal'
    BY <1>0, <1>1, <2>1 DEF CopiesKeepTheDeal
  <2>4. QED
    BY <2>2, <2>3
<1>10. CASE UpdateDirectly(h) \/ Commit(h)
  <2>1. /\ Busy(h)
        /\ req'[h].pc = "committed"
        /\ req'[h].exchange = r.exchange
        /\ req'[h].row = r.row /\ req'[h].op = r.op
        /\ \A e \in Exchanges \ {r.exchange} : exchange'[e] = exchange[e]
    BY <1>0, <1>10 DEF UpdateDirectly, Commit, HandlerState, Busy, BusyPc
  <2>2. NewIdsAreOwn'
    <3> SUFFICES ASSUME NEW k \in Handlers, req'[k].pc = "written",
                        req'[k].op = "request"
                 PROVE  /\ exchange'[req'[k].exchange].status = "absent"
                        /\ \A g \in Handlers \ {k} :
                             req'[g].exchange # req'[k].exchange
      BY DEF NewIdsAreOwn
    <3>1. k # h /\ req'[k] = req[k]
      BY <1>0, <2>1
    <3>2. req[k].exchange \in Exchanges
      BY <1>0, <3>1 DEF TypeInv, ReferencesExist, WellFormed, BusyPc
    <3>3. \A g \in Handlers \ {k} : req[g].exchange # req[k].exchange
      BY <3>1 DEF NewIdsAreOwn
    <3>4. QED
      BY <1>0, <2>1, <3>1, <3>2, <3>3 DEF NewIdsAreOwn
  <2>3. CopiesKeepTheDeal'
    BY <1>0, <1>1, <2>1, DealsStay DEF CopiesKeepTheDeal
  <2>4. QED
    BY <2>2, <2>3
<1>11. QED
  BY <1>7, <1>8, <1>9, <1>10, <1>4 DEF Step, Continue


LEMMA PendingStep ==
  ASSUME TypeInv, NewRowsArePending, NEW h \in Handlers, Step(h)
  PROVE  NewRowsArePending'
<1> DEFINE r == req[h]
<1>0. /\ req \in [Handlers -> HandlerState] /\ r \in HandlerState
      /\ \A g \in Handlers \ {h} : req'[g] = req[g]
  BY OthersUntouched DEF TypeInv, TypeOK
<1>1. SUFFICES Busy(h)' /\ req'[h].op = "request" =>
                 req'[h].row.status = "pending"
  BY <1>0 DEF NewRowsArePending, Busy
<1>2. ASSUME NEW u \in Users, NEW st \in Sites, NEW a \in Amounts,
             RequestExchange(h, u, st, a)
      PROVE  req'[h].row.status = "pending"
  BY <1>0, <1>2 DEF RequestExchange, Idle, NoRow
<1>3. ASSUME NEW op \in Refunding \cup Direct, NEW actor, NEW e, NEW from,
             Begin(h, op, actor, e, from)
      PROVE  req'[h].op # "request"
  BY <1>0, <1>3 DEF Begin, Idle, Refunding, Direct
<1>4. CASE InsufficientPoints(h) \/ PublishExchangeEvent(h) \/ ReturnError(h)
           \/ Abort(h) \/ ReloadAndReturn(h)
  BY <1>0, <1>4 DEF InsufficientPoints, PublishExchangeEvent, ReturnError,
     Abort, ReloadAndReturn, Idle, Busy, BusyPc, HandlerState
<1>5. CASE LockProfile(h) \/ WriteDecision(h) \/ PublishPointUpdated(h)
           \/ (\E e \in Exchanges : InsertExchange(h, e))
           \/ UpdateDirectly(h) \/ Commit(h)
  <2> DEFINE Same == /\ Busy(h)' => Busy(h)
                     /\ req'[h].op = r.op /\ req'[h].row = r.row
  <2>1. ASSUME PublishPointUpdated(h) PROVE Same
    <3>1. PICK outcome : req' = [req EXCEPT ![h].note = outcome]
      BY <2>1 DEF PublishPointUpdated
    <3>2. QED
      BY <1>0, <3>1 DEF Busy, HandlerState
  <2>2. ASSUME LockProfile(h) PROVE Same
    BY <1>0, <2>2 DEF LockProfile, Busy, BusyPc, HandlerState
  <2>3. ASSUME WriteDecision(h) PROVE Same
    BY <1>0, <2>3 DEF WriteDecision, Busy, BusyPc, HandlerState
  <2>4. ASSUME NEW e \in Exchanges, InsertExchange(h, e) PROVE Same
    BY <1>0, <2>4 DEF InsertExchange, Busy, BusyPc, HandlerState
  <2>5. ASSUME UpdateDirectly(h) \/ Commit(h) PROVE Same
    BY <1>0, <2>5 DEF UpdateDirectly, Commit, Busy, BusyPc, HandlerState
  <2>6. Same
    BY <1>5, <2>1, <2>2, <2>3, <2>4, <2>5
  <2>7. QED
    BY <2>6 DEF NewRowsArePending
<1>6. CASE UserStarts(h) \/ AdminStarts(h) \/ ManagerStarts(h)
  BY <1>2, <1>3, <1>6
  DEF UserStarts, Cancel, AdminStarts, AdminReject, AdminApprove, AdminProcess,
      ManagerStarts, ManagerReject, ManagerApprove, ManagerProcess,
      Refunding, Direct
<1>7. QED
  BY <1>4, <1>5, <1>6 DEF Step, Continue

\* Only a commit creates or undoes an exchange, or writes to a ledger.
LEMMA OnlyCommitsMovePoints ==
  ASSUME TypeInv, NEW h \in Handlers, Step(h), ~Commit(h)
  PROVE  /\ UNCHANGED ledger
         /\ \A e \in Exchanges :
              /\ exchange'[e].status # "absent" => exchange[e].status # "absent"
              /\ exchange'[e].status \in Undone => exchange'[e] = exchange[e]
<1>1. CASE UpdateDirectly(h)
  <2> DEFINE e == req[h].exchange
  <2>1. /\ UNCHANGED ledger
        /\ Busy(h) /\ e \in Exchanges /\ req[h].op \in Direct
        /\ req[h].op # "request"
        /\ exchange[e] \in Row /\ exchange[e].status # "absent"
        /\ exchange'[e] = NewRow(h, exchange[e])
        /\ \A x \in Exchanges \ {e} : exchange'[x] = exchange[x]
    BY <1>1 DEF UpdateDirectly, TypeInv, TypeOK, ReferencesExist, WellFormed,
                Busy, BusyPc, Direct
  <2>2. exchange'[e].status = Outcome(req[h].op)
    BY <2>1, NewRowFields
  <2>3. Outcome(req[h].op) \notin Undone
    BY <2>1 DEF Direct, Outcome, Undone
  <2>4. QED
    BY <2>1, <2>2, <2>3
<1>2. CASE ~UpdateDirectly(h)
  <2>1. UNCHANGED <<ledger, exchange>>
    BY <1>2 DEF Step, UserStarts, RequestExchange, Cancel, Begin,
       AdminStarts, AdminReject, AdminApprove, AdminProcess, ManagerStarts,
       ManagerReject, ManagerApprove, ManagerProcess, Continue, LockProfile,
       InsufficientPoints, InsertExchange, WriteDecision, ReloadAndReturn,
       PublishPointUpdated, PublishExchangeEvent, ReturnError, Abort, database
  <2>2. QED
    BY <2>1
<1>3. QED
  BY <1>1, <1>2

LEMMA HistoryStep ==
  ASSUME LedgerInv, HistoryInv, NEW h \in Handlers, Step(h)
  PROVE  HistoryInv'
<1>0. /\ TypeInv /\ TypeInv'
      /\ ledger \in [Users -> Seq(Entry)] /\ ledger' \in [Users -> Seq(Entry)]
      /\ \A e \in Exchanges : exchange[e].status # "absent" =>
                                exchange[e].user \in Users
      /\ \A e \in Exchanges :
           exchange[e].status # "absent" =>
             /\ exchange'[e].status # "absent"
             /\ exchange'[e].user = exchange[e].user
             /\ exchange'[e].amount = exchange[e].amount
      /\ "absent" \notin Undone
  BY TypeStep, DealsStay
  DEF HistoryInv, LedgerInv, TypeInv, TypeOK, ReferencesExist, Undone
<1>1. NewIdsAreOwn' /\ CopiesKeepTheDeal' /\ NewRowsArePending'
  BY CopiesStep, PendingStep DEF HistoryInv, LedgerInv
<1>2. CASE ~Commit(h)
  <2>1. /\ UNCHANGED ledger
        /\ \A e \in Exchanges :
             /\ exchange'[e].status # "absent" => exchange[e].status # "absent"
             /\ exchange'[e].status \in Undone => exchange'[e] = exchange[e]
    BY <1>0, <1>2, OnlyCommitsMovePoints
  <2>2. RefundFollowsSpend'
    BY <2>1 DEF HistoryInv, RefundFollowsSpend
  <2>3. SpendsOnRecord'
    BY <1>0, <2>1 DEF HistoryInv, SpendsOnRecord, Spends
  <2>4. UndoneIsRefunded'
    BY <1>0, <2>1 DEF HistoryInv, UndoneIsRefunded, Refunds
  <2>5. QED
    BY <1>1, <2>2, <2>3, <2>4 DEF HistoryInv
<1>3. CASE Commit(h)
  <2> DEFINE r == req[h]
             u == r.row.user
             e == r.exchange
             entry == LedgerEntry(h)
             n == Len(ledger[u]) + 1
  <2>1. /\ u \in Users /\ e \in Exchanges /\ Busy(h) /\ r.pc = "written"
        /\ r \in HandlerState /\ r.row \in Row
        /\ entry \in Entry
        /\ ledger' = [ledger EXCEPT ![u] = Append(@, entry)]
        /\ exchange'[e] = NewRow(h, exchange[e])
        /\ \A x \in Exchanges \ {e} : exchange'[x] = exchange[x]
        /\ exchange[e] \in Row
    BY <1>3, CommitWrites
    DEF Commit, LedgerInv, TypeInv, TypeOK, HandlerState
  <2>2. /\ \A v \in Users : \A i \in 1..Len(ledger[v]) :
             i \in 1..Len(ledger'[v]) /\ ledger'[v][i] = ledger[v][i]
        /\ Len(ledger[u]) \in Nat
        /\ Len(ledger'[u]) = n
        /\ ledger'[u][n] = entry
        /\ n \in 1..Len(ledger'[u])
        /\ \A v \in Users \ {u} : ledger'[v] = ledger[v]
    BY <1>0, <2>1, LedgerGrows
  <2>3. /\ entry.exchange = e
        /\ entry.type = IF r.op = "request" THEN "spend" ELSE "refund"
        /\ entry.amount =
             IF r.op = "request" THEN -r.row.amount ELSE r.row.amount
    BY DEF LedgerEntry, Delta
  <2>4. r.op # "request" =>
          /\ exchange[e].status # "absent"
          /\ u = exchange[e].user /\ r.row.amount = exchange[e].amount
    BY <1>0, <2>1
    DEF HistoryInv, CopiesKeepTheDeal, TypeInv, ReferencesExist
  <2>5. r.op = "request" =>
          /\ exchange'[e] = r.row
          /\ r.row.status = "pending"
    BY <2>1 DEF NewRow, HistoryInv, NewRowsArePending
  <2> HIDE DEF entry
  <2>6. RefundFollowsSpend'
    <3> SUFFICES ASSUME NEW v \in Users, NEW i \in 1..Len(ledger'[v]),
                        ledger'[v][i].type = "refund"
                 PROVE  \E j \in 1..(i - 1) :
                          /\ ledger'[v][j].type = "spend"
                          /\ ledger'[v][j].exchange = ledger'[v][i].exchange
                          /\ ledger'[v][j].amount = -ledger'[v][i].amount
      BY DEF RefundFollowsSpend
    <3>1. CASE i \in 1..Len(ledger[v])
      <4>1. PICK j \in 1..(i - 1) :
              /\ ledger[v][j].type = "spend"
              /\ ledger[v][j].exchange = ledger[v][i].exchange
              /\ ledger[v][j].amount = -ledger[v][i].amount
        BY <2>2, <3>1 DEF HistoryInv, RefundFollowsSpend
      <4>2. j \in 1..Len(ledger[v])
        BY <1>0, <3>1
      <4>3. QED
        BY <2>2, <3>1, <4>1, <4>2
    <3>2. CASE i \notin 1..Len(ledger[v])
      <4>1. v = u /\ i = n
        BY <1>0, <2>2, <3>2
      <4>2. r.op # "request"
        BY <2>2, <2>3, <4>1
      <4>3. PICK j \in Spends(e) : ledger[u][j].amount = -exchange[e].amount
        BY <2>1, <2>4, <4>2 DEF HistoryInv, SpendsOnRecord
      <4>4. /\ j \in 1..Len(ledger[u]) /\ j \in 1..(n - 1)
            /\ ledger[u][j].exchange = e /\ ledger[u][j].type = "spend"
        BY <2>2, <2>4, <4>2, <4>3 DEF Spends
      <4>5. ledger'[u][j] = ledger[u][j] /\ ledger'[u][n] = entry
        BY <2>1, <2>2, <4>4
      <4>6. entry.exchange = e /\ entry.amount = exchange[e].amount
        BY <2>3, <2>4, <4>2
      <4>7. QED
        BY <4>1, <4>3, <4>4, <4>5, <4>6
    <3>3. QED
      BY <3>1, <3>2
  <2>7. ASSUME NEW x \in Exchanges, exchange[x].status # "absent",
               NEW i \in Spends(x)
        PROVE  /\ i \in Spends(x)'
               /\ ledger'[exchange'[x].user][i] = ledger[exchange[x].user][i]
    BY <1>0, <2>2, <2>7 DEF Spends
  <2>8. ASSUME NEW x \in Exchanges, exchange[x].status # "absent",
               NEW i \in Refunds(x)
        PROVE  /\ i \in Refunds(x)'
               /\ ledger'[exchange'[x].user][i] = ledger[exchange[x].user][i]
    BY <1>0, <2>2, <2>8 DEF Refunds
  <2>9. SpendsOnRecord'
    <3> SUFFICES ASSUME NEW x \in Exchanges, exchange'[x].status # "absent"
                 PROVE  \E i \in Spends(x)' :
                   ledger'[exchange'[x].user][i].amount = -exchange'[x].amount
      BY DEF SpendsOnRecord
    <3>1. CASE exchange[x].status # "absent"
      <4>1. PICK i \in Spends(x) :
                   ledger[exchange[x].user][i].amount = -exchange[x].amount
        BY <3>1 DEF HistoryInv, SpendsOnRecord
      <4>2. QED
        BY <1>0, <2>7, <3>1, <4>1
    <3>2. CASE exchange[x].status = "absent"
      <4>1. x = e /\ r.op = "request"
        BY <2>1, <2>4, <3>2
      <4>2. exchange'[x].user = u /\ exchange'[x].amount = r.row.amount
        BY <2>5, <4>1
      <4>3. n \in Spends(x)'
        BY <2>2, <2>3, <4>1, <4>2 DEF Spends
      <4>4. QED
        BY <2>2, <2>3, <4>1, <4>2, <4>3
    <3>3. QED
      BY <3>1, <3>2
  <2>10. UndoneIsRefunded'
    <3> SUFFICES ASSUME NEW x \in Exchanges, exchange'[x].status \in Undone
                 PROVE  \E i \in Refunds(x)' :
                   ledger'[exchange'[x].user][i].amount = exchange'[x].amount
      BY DEF UndoneIsRefunded
    <3>1. CASE x # e
      <4>1. exchange[x].status \in Undone /\ exchange[x].status # "absent"
        BY <1>0, <2>1, <3>1
      <4>2. PICK i \in Refunds(x) :
                   ledger[exchange[x].user][i].amount = exchange[x].amount
        BY <4>1 DEF HistoryInv, UndoneIsRefunded
      <4>3. QED
        BY <1>0, <2>8, <4>1, <4>2
    <3>2. CASE x = e
      <4>1. r.op # "request"
        BY <2>5, <3>2 DEF Undone
      <4>2. exchange'[x].user = u /\ exchange'[x].amount = r.row.amount
        BY <1>0, <2>1, <2>4, <3>2, <4>1
      <4>3. n \in Refunds(x)'
        BY <2>2, <2>3, <3>2, <4>1, <4>2 DEF Refunds
      <4>4. QED
        BY <2>2, <2>3, <4>1, <4>2, <4>3
    <3>3. QED
      BY <3>1, <3>2
  <2>11. QED
    BY <1>1, <2>6, <2>9, <2>10 DEF HistoryInv
<1>4. QED
  BY <1>2, <1>3

LEMMA HistoryInit == Init => HistoryInv
BY DEF Init, Idle, NoRow, HistoryInv, NewIdsAreOwn, NewRowsArePending,
   CopiesKeepTheDeal, SpendsOnRecord, RefundFollowsSpend, UndoneIsRefunded,
   Undone, Busy, BusyPc

LEMMA HistoryStutter == HistoryInv /\ UNCHANGED vars => HistoryInv'
BY DEF HistoryInv, NewIdsAreOwn, NewRowsArePending, CopiesKeepTheDeal,
   SpendsOnRecord, Spends, RefundFollowsSpend, UndoneIsRefunded, Refunds, Busy,
   vars

LEMMA HistoryHolds == Spec => [](LedgerInv /\ HistoryInv)
<1> DEFINE Inv == LedgerInv /\ HistoryInv
<1>1. Init => Inv
  BY LedgerInit, HistoryInit
<1>2. Inv /\ [Next]_vars => Inv'
  BY LedgerStutter, HistoryStutter, LedgerStep, HistoryStep DEF Next
<1>3. QED
  BY <1>1, <1>2, PTL DEF Spec

\* Even when decisions on one exchange overlap, a refund answers an earlier
\* spend of its user, exchange and amount: the copy a handler refunds from has
\* the user and the amount the exchange always had.
THEOREM RefundsAnswerSpends == Spec => []RefundFollowsSpend
<1>1. LedgerInv /\ HistoryInv => RefundFollowsSpend
  BY DEF HistoryInv
<1>2. QED
  BY HistoryHolds, <1>1, PTL

\* Even when decisions on one exchange overlap, whatever shows as cancelled or
\* rejected has been refunded in full: status and ledger row commit together.
THEOREM UndoneExchangesAreRefunded == Spec => []UndoneIsRefunded
<1>1. LedgerInv /\ HistoryInv => UndoneIsRefunded
  BY DEF HistoryInv
<1>2. QED
  BY HistoryHolds, <1>1, PTL

-----------------------------------------------------------------------------
(* PointExchange implements PointOrderContract when decisions on one        *)
(* exchange do not overlap: the invariant                                   *)

\* A handler that ends, or goes on with the same exchange and the same row,
\* disturbs nobody.
LEMMA SameWork ==
  ASSUME TypeInv, SerialInv, NEW h \in Handlers, Step(h),
         UNCHANGED exchange,
         Busy(h)' => /\ Busy(h)
                     /\ req'[h].exchange = req[h].exchange
                     /\ req'[h].op = req[h].op
                     /\ req'[h].row = req[h].row
                     /\ req[h].pc = "committed" => req'[h].pc = "committed"
                     /\ req'[h].op = "request" /\ req'[h].pc = "written" =>
                          req[h].pc = "written"
  PROVE  SerialInv'
<1>1. \A g \in Handlers \ {h} : req'[g] = req[g]
  BY OthersUntouched
<1>2. NobodyElseDecides'
  BY <1>1 DEF SerialInv, NobodyElseDecides, Busy
<1>3. QED
  BY <1>2 DEF SerialInv, AbsentIsEmpty

LEMMA SerialStep ==
  ASSUME Overlap = FALSE, TypeInv, SerialInv, NEW h \in Handlers, Step(h)
  PROVE  SerialInv'
<1> DEFINE r == req[h]
<1>0. /\ req \in [Handlers -> HandlerState]
      /\ exchange \in [Exchanges -> Row]
      /\ \A g \in Handlers \ {h} : req'[g] = req[g]
      /\ None \notin Exchanges
      /\ WellFormed(r)
  BY OthersUntouched, ConstantsAssumption DEF TypeInv, TypeOK, ReferencesExist
<1>1. ASSUME NEW u \in Users, NEW s \in Sites, NEW a \in Amounts,
             RequestExchange(h, u, s, a)
      PROVE  SerialInv'
  <2>1. /\ req'[h].pc = "checked" /\ req'[h].op = "request"
        /\ req'[h].exchange = None
        /\ req'[h].row.status = "pending"
        /\ req'[h].row.amount \in LegalAmounts
        /\ UNCHANGED exchange
    BY <1>0, <1>1 DEF RequestExchange, Idle, NoRow, LegalAmounts, database
  <2>2. \A g \in Handlers \ {h} :
          Busy(g) /\ req[g].exchange # None => req[g].exchange # None
    OBVIOUS
  <2>3. QED
    BY <1>0, <2>1 DEF SerialInv, NobodyElseDecides, AbsentIsEmpty, Busy
<1>2. ASSUME NEW op \in Refunding \cup Direct, NEW actor,
             NEW e \in Exchanges, NEW from \in SUBSET Open,
             Begin(h, op, actor, e, from)
      PROVE  SerialInv'
  <2>1. /\ req'[h].pc = "checked" /\ req'[h].op = op /\ op # "request"
        /\ req'[h].exchange = e
        /\ req'[h].row = exchange[e]
        /\ exchange[e].status \in Open
        /\ \A g \in Handlers : Busy(g) => req[g].exchange # e
        /\ UNCHANGED exchange
    BY <1>0, <1>2 DEF Begin, Idle, Refunding, Direct, database
  <2>2. QED
    BY <1>0, <2>1 DEF SerialInv, NobodyElseDecides, AbsentIsEmpty, Busy
<1>3. CASE UserStarts(h) \/ AdminStarts(h) \/ ManagerStarts(h)
  BY <1>1, <1>2, <1>3
  DEF UserStarts, Cancel, AdminStarts, AdminReject, AdminApprove, AdminProcess,
      ManagerStarts, ManagerReject, ManagerApprove, ManagerProcess,
      Refunding, Direct, Open
<1>4. CASE LockProfile(h)
  BY <1>0, <1>4, SameWork DEF LockProfile, database, HandlerState, Busy, BusyPc
<1>5. CASE InsufficientPoints(h) \/ PublishExchangeEvent(h) \/ ReturnError(h)
           \/ Abort(h) \/ ReloadAndReturn(h)
  <2>1. UNCHANGED exchange /\ ~Busy(h)'
    BY <1>0, <1>5 DEF InsufficientPoints, PublishExchangeEvent, ReturnError,
       Abort, ReloadAndReturn, Idle, database, Busy, BusyPc, HandlerState
  <2>2. QED
    BY <2>1, SameWork
<1>6. CASE PublishPointUpdated(h)
  <2>1. UNCHANGED exchange /\ req'[h].pc = r.pc /\ req'[h].op = r.op
        /\ req'[h].row = r.row /\ req'[h].exchange = r.exchange
    BY <1>0, <1>6 DEF PublishPointUpdated, database, HandlerState
  <2>2. QED
    BY <2>1, SameWork DEF Busy
<1>7. CASE WriteDecision(h)
  <2>1. /\ UNCHANGED exchange /\ r.pc = "locked" /\ r.op # "request"
        /\ req'[h].op = r.op
        /\ req'[h].row = r.row /\ req'[h].exchange = r.exchange
    BY <1>0, <1>7 DEF WriteDecision, database, HandlerState, Refunding
  <2>2. QED
    BY <2>1, SameWork DEF Busy, BusyPc
<1>8. ASSUME NEW e \in Exchanges, InsertExchange(h, e) PROVE SerialInv'
  <2>1. /\ UNCHANGED exchange /\ r.pc = "locked" /\ r.op = "request"
        /\ req'[h].op = r.op /\ req'[h].row = r.row /\ req'[h].exchange = e
        /\ exchange[e].status = "absent"
        /\ \A g \in Handlers : req[g].exchange # e
    BY <1>0, <1>8 DEF InsertExchange, database, HandlerState
  <2>2. QED
    BY <1>0, <2>1 DEF SerialInv, NobodyElseDecides, AbsentIsEmpty, Busy, BusyPc
<1>9. CASE UpdateDirectly(h) \/ Commit(h)
  <2>1. /\ Busy(h) /\ r.exchange \in Exchanges
        /\ \A e \in Exchanges \ {r.exchange} : exchange'[e] = exchange[e]
        /\ exchange'[r.exchange] = NewRow(h, exchange[r.exchange])
        /\ req'[h].pc = "committed" /\ req'[h].exchange = r.exchange
    BY <1>0, <1>9 DEF UpdateDirectly, Commit, HandlerState, Busy, BusyPc,
                      WellFormed, Direct
  <2>2. exchange'[r.exchange].status # "absent"
    BY <2>1, TypeStep, NewRowNotAbsent DEF TypeInv, TypeOK
  <2>3. \A g \in Handlers \ {h} :
          Busy(g) => req[g].exchange # r.exchange
    BY <1>0, <2>1 DEF SerialInv, NobodyElseDecides
  <2>4. \A g \in Handlers \ {h} : Busy(g) /\ (req[g].op # "request"
             \/ req[g].pc = "written") => req[g].exchange \in Exchanges
    BY DEF TypeInv, ReferencesExist, WellFormed, Busy
  <2>5. AbsentIsEmpty'
    BY <2>1, <2>2 DEF SerialInv, AbsentIsEmpty
  <2>6. NobodyElseDecides'
    <3> SUFFICES ASSUME NEW g \in Handlers
                 PROVE
        /\ Busy(g)' /\ req'[g].exchange # None =>
             \A k \in Handlers \ {g} : Busy(k)' => req'[k].exchange # req'[g].exchange
        /\ Busy(g)' /\ req'[g].op # "request" /\ req'[g].pc # "committed" =>
             /\ exchange'[req'[g].exchange] = req'[g].row
             /\ req'[g].row.status \in Open
        /\ Busy(g)' /\ req'[g].op = "request" /\ req'[g].pc # "committed" =>
             /\ req'[g].row.status = "pending"
             /\ req'[g].row.amount \in LegalAmounts
             /\ req'[g].pc = "written" =>
                  exchange'[req'[g].exchange].status = "absent"
      BY DEF NobodyElseDecides, LegalAmounts
    <3>1. CASE g = h
      BY <1>0, <2>1, <2>3, <3>1 DEF Busy
    <3>2. CASE g # h
      <4>1. req'[g] = req[g] /\ (Busy(g)' <=> Busy(g))
        BY <1>0, <3>2 DEF Busy
      <4>2. Busy(g) /\ req[g].exchange # None =>
              \A k \in Handlers \ {g} : Busy(k)' => req'[k].exchange # req[g].exchange
        BY <1>0, <2>1, <2>3, <3>2 DEF SerialInv, NobodyElseDecides, Busy
      <4>3. QED
        BY <2>1, <2>3, <2>4, <3>2, <4>1, <4>2 DEF SerialInv, NobodyElseDecides
    <3>3. QED
      BY <3>1, <3>2
  <2>7. QED
    BY <2>5, <2>6 DEF SerialInv
<1>10. QED
  BY <1>3, <1>4, <1>5, <1>6, <1>7, <1>8, <1>9 DEF Step, Continue

-----------------------------------------------------------------------------
(* Steps of the code as steps of the contract *)

LEMMA DealStates ==
  /\ DealState("absent") = "none"
  /\ \A st \in Open : DealState(st) = "open"
  /\ DealState("completed") = "completed"
  /\ \A st \in Undone : DealState(st) = "undone"
BY DEF DealState, Open, Undone

\* A handler's write changes the deal of its own exchange only.
LEMMA DealsAfterWrite ==
  ASSUME TypeInv, NEW h \in Handlers, req[h].exchange \in Exchanges,
         exchange' = [exchange EXCEPT ![req[h].exchange] = NewRow(h, @)]
  PROVE  LET e == req[h].exchange
             row == NewRow(h, exchange[e])
         IN  Deals' = [Deals EXCEPT ![e] =
               [state |-> DealState(row.status), user |-> row.user,
                amount |-> row.amount]]
BY DEF Deals, TypeInv, TypeOK

LEMMA DirectIsContract ==
  ASSUME TypeInv, SerialInv, NEW h \in Handlers, UpdateDirectly(h)
  PROVE  [Contract!ContractNext]_(Contract!contractVars)
<1> DEFINE r == req[h]
           e == r.exchange
           row == NewRow(h, exchange[e])
<1>1. /\ r \in HandlerState /\ r.op \in Direct /\ r.op # "request"
      /\ Busy(h) /\ e \in Exchanges
      /\ exchange[e] \in Row /\ exchange[e].status \in Open
      /\ UNCHANGED points
      /\ exchange' = [exchange EXCEPT ![e] = NewRow(h, @)]
  BY DEF UpdateDirectly, TypeInv, TypeOK, ReferencesExist, WellFormed, Busy,
         BusyPc, Direct, SerialInv, NobodyElseDecides
<1>2. /\ row.status = Outcome(r.op)
      /\ row.user = exchange[e].user /\ row.amount = exchange[e].amount
  BY <1>1, NewRowFields
<1>3. Deals[e] = [state |-> "open", user |-> exchange[e].user,
                  amount |-> exchange[e].amount]
  BY <1>1, DealStates DEF Deals
<1>4. Deals' = [Deals EXCEPT ![e] =
        [state |-> DealState(Outcome(r.op)), user |-> exchange[e].user,
         amount |-> exchange[e].amount]]
  BY <1>1, <1>2, DealsAfterWrite
<1>5. CASE r.op \in {"adminProcess", "managerProcess"}
  <2>1. DealState(Outcome(r.op)) = "open"
    BY <1>5, DealStates DEF Outcome, Open
  <2>2. Deals' = Deals
    BY <1>3, <1>4, <2>1 DEF Deals
  <2>3. QED
    BY <1>1, <2>2 DEF Contract!contractVars
<1>6. CASE r.op \in {"adminApprove", "managerApprove"}
  <2>1. DealState(Outcome(r.op)) = "completed"
    BY <1>6, DealStates DEF Outcome
  <2>2. Deals' = [Deals EXCEPT ![e].state = "completed"]
    <3>1. [Deals[e] EXCEPT !.state = "completed"] =
            [state |-> "completed", user |-> exchange[e].user,
             amount |-> exchange[e].amount]
      BY <1>3
    <3>2. QED
      BY <1>4, <2>1, <3>1
  <2>3. Contract!Complete(e)
    BY <1>1, <1>3, <2>2 DEF Contract!Complete
  <2>4. QED
    BY <1>1, <2>3 DEF Contract!ContractNext
<1>7. QED
  BY <1>1, <1>5, <1>6 DEF Direct

LEMMA CommitIsContract ==
  ASSUME LedgerInv, SerialInv, NEW h \in Handlers, Commit(h)
  PROVE  Contract!ContractNext
<1> DEFINE r == req[h]
           u == r.row.user
           a == r.row.amount
           e == r.exchange
           row == NewRow(h, exchange[e])
<1>1. /\ r \in HandlerState /\ r.row \in Row /\ r.pc = "written"
      /\ Busy(h) /\ e \in Exchanges /\ u \in Users
      /\ exchange[e] \in Row
      /\ points \in [Users -> Nat]
      /\ r.balance \in Nat /\ r.balance = points[u] + Delta(h)
      /\ points' = [points EXCEPT ![u] = r.balance]
      /\ exchange' = [exchange EXCEPT ![e] = NewRow(h, @)]
  BY DEF Commit, LedgerInv, LockedBalance, TypeInv, TypeOK, ReferencesExist,
         WellFormed, Busy, BusyPc, HandlerState
<1>2. Deals' = [Deals EXCEPT ![e] =
        [state |-> DealState(row.status), user |-> row.user,
         amount |-> row.amount]]
  BY <1>1, DealsAfterWrite DEF LedgerInv
<1>3. CASE r.op = "request"
  <2>1. /\ row = r.row /\ r.row.status = "pending" /\ a \in LegalAmounts
        /\ exchange[e] = NoRow
    BY <1>1, <1>3 DEF NewRow, SerialInv, NobodyElseDecides, AbsentIsEmpty
  <2>2. Deals[e] = Contract!NoDeal
    <3>1. Deals[e] = [state |-> DealState("absent"), user |-> None, amount |-> 0]
      BY <1>1, <2>1 DEF Deals, NoRow
    <3>2. QED
      BY <3>1, DealStates DEF Contract!NoDeal
  <2>3. Deals' = [Deals EXCEPT ![e] =
                    [state |-> "open", user |-> u, amount |-> a]]
    BY <1>2, <2>1, DealStates DEF Open
  <2>4. r.balance = points[u] - a /\ a \in Nat
    BY <1>1, <1>3 DEF Delta, Row
  <2>5. points[u] >= a /\ points' = [points EXCEPT ![u] = @ - a]
    <3>1. points[u] \in Nat /\ points[u] - a \in Nat
      BY <1>1, <2>4
    <3>2. points[u] >= a
      BY <2>4, <3>1
    <3>3. QED
      BY <1>1, <2>4, <3>2
  <2>6. Contract!Ask(u, e, a)
    BY <1>1, <2>2, <2>3, <2>5 DEF Contract!Ask
  <2>7. QED
    BY <1>1, <2>1, <2>6 DEF Contract!ContractNext
<1>4. CASE r.op # "request"
  <2>1. exchange[e] = r.row /\ r.row.status \in Open
    BY <1>1, <1>4 DEF SerialInv, NobodyElseDecides
  <2>2. /\ row.status = Outcome(r.op) /\ row.user = u /\ row.amount = a
    BY <1>1, <1>4, <2>1, NewRowFields DEF LedgerInv
  <2>3. r.op \in Refunding
    BY <1>1, <1>4
    DEF LedgerInv, TypeInv, ReferencesExist, WellFormed, HandlerState, Ops
  <2>4. Outcome(r.op) \in Undone
    BY <2>3 DEF Refunding, Outcome, Undone
  <2>5. Deals[e] = [state |-> "open", user |-> u, amount |-> a]
    BY <1>1, <2>1, DealStates DEF Deals
  <2>6. Deals' = [Deals EXCEPT ![e].state = "undone"]
    <3>1. DealState(row.status) = "undone"
      BY <2>2, <2>4, DealStates
    <3>2. [Deals[e] EXCEPT !.state = "undone"] =
            [state |-> "undone", user |-> u, amount |-> a]
      BY <2>5
    <3>3. QED
      BY <1>2, <2>2, <3>1, <3>2
  <2>7. points' = [points EXCEPT ![Deals[e].user] = @ + Deals[e].amount]
    BY <1>1, <1>4, <2>5 DEF Delta
  <2>8. Contract!Undo(e)
    BY <2>5, <2>6, <2>7 DEF Contract!Undo
  <2>9. QED
    BY <1>1, <2>8 DEF Contract!ContractNext
<1>5. QED
  BY <1>3, <1>4

LEMMA OtherStepsChangeNothing ==
  ASSUME TypeInv, NEW h \in Handlers, Step(h), ~Commit(h), ~UpdateDirectly(h)
  PROVE  UNCHANGED <<points, exchange>>
BY DEF Step, UserStarts, RequestExchange, Cancel, Begin, AdminStarts,
   AdminReject, AdminApprove, AdminProcess, ManagerStarts, ManagerReject,
   ManagerApprove, ManagerProcess, Continue, LockProfile, InsufficientPoints,
   InsertExchange, WriteDecision, ReloadAndReturn, PublishPointUpdated,
   PublishExchangeEvent, ReturnError, Abort, database

\* When decisions on one exchange do not overlap, every behaviour of the
\* handlers is one of the contract: an exchange takes its points once, and they
\* come back once or never.
THEOREM ExchangeRefines ==
  ASSUME Overlap = FALSE PROVE Spec => ImplementsContract
<1> DEFINE Inv == LedgerInv /\ SerialInv
<1>1. Init => Inv /\ Contract!ContractInit
  <2> SUFFICES ASSUME Init PROVE Inv /\ Contract!ContractInit
    OBVIOUS
  <2>1. LedgerInv
    BY LedgerInit
  <2>2. SerialInv
    BY DEF Init, Idle, SerialInv, NobodyElseDecides, AbsentIsEmpty, Busy, BusyPc
  <2>3. Deals = [e \in Exchanges |-> Contract!NoDeal]
    BY DealStates DEF Init, Deals, NoRow, Contract!NoDeal
  <2>4. QED
    BY <2>1, <2>2, <2>3 DEF Init, Contract!ContractInit
<1>2. Inv /\ [Next]_vars => Inv' /\ [Contract!ContractNext]_(Contract!contractVars)
  <2> SUFFICES ASSUME Inv, [Next]_vars
               PROVE  Inv' /\ [Contract!ContractNext]_(Contract!contractVars)
    OBVIOUS
  <2>1. CASE UNCHANGED vars
    <3>1. LedgerInv'
      BY <2>1, LedgerStutter
    <3>2. SerialInv'
      BY <2>1 DEF SerialInv, NobodyElseDecides, AbsentIsEmpty, Busy, vars
    <3>3. UNCHANGED Contract!contractVars
      BY <2>1 DEF Contract!contractVars, Deals, vars
    <3>4. QED
      BY <3>1, <3>2, <3>3
  <2>2. ASSUME NEW h \in Handlers, Step(h)
        PROVE  Inv' /\ [Contract!ContractNext]_(Contract!contractVars)
    <3>1. Inv'
      BY <2>2, LedgerStep, SerialStep DEF LedgerInv
    <3>2. CASE Commit(h)
      BY <3>1, <3>2, CommitIsContract
    <3>3. CASE UpdateDirectly(h)
      BY <3>1, <3>3, DirectIsContract DEF LedgerInv
    <3>4. CASE ~Commit(h) /\ ~UpdateDirectly(h)
      <4>1. UNCHANGED <<points, exchange>>
        BY <2>2, <3>4, OtherStepsChangeNothing DEF LedgerInv
      <4>2. UNCHANGED Contract!contractVars
        BY <4>1 DEF Contract!contractVars, Deals
      <4>3. QED
        BY <3>1, <4>2
    <3>5. QED
      BY <3>2, <3>3, <3>4
  <2>3. QED
    BY <2>1, <2>2 DEF Next
<1>3. QED
  BY <1>1, <1>2, PTL DEF Spec, ImplementsContract, Contract!ContractSpec

-----------------------------------------------------------------------------
(* One decision, one refund, one message *)

\* Without overlap a write finds the exchange open, or (for a request) absent.
LEMMA WritesDecideOnce ==
  ASSUME LedgerInv, SerialInv, HistoryInv, NEW h \in Handlers,
         Commit(h) \/ UpdateDirectly(h)
  PROVE  LET e == req[h].exchange
         IN  /\ Busy(h) /\ e \in Exchanges
             /\ exchange[e].status \notin Undone
             /\ exchange'[e].status = Outcome(req[h].op)
             /\ \A x \in Exchanges \ {e} : exchange'[x] = exchange[x]
             /\ req'[h].pc = "committed"
             /\ req'[h].op = req[h].op /\ req'[h].exchange = e
<1> DEFINE r == req[h]
           e == r.exchange
<1>1. /\ Busy(h) /\ e \in Exchanges /\ r.pc # "committed"
      /\ r \in HandlerState /\ exchange[e] \in Row
      /\ exchange'[e] = NewRow(h, exchange[e])
      /\ \A x \in Exchanges \ {e} : exchange'[x] = exchange[x]
      /\ req'[h].pc = "committed" /\ req'[h].op = r.op /\ req'[h].exchange = e
      /\ r.op = "request" => r.pc = "written"
  BY DEF Commit, UpdateDirectly, LedgerInv, TypeInv, TypeOK, ReferencesExist,
         WellFormed, Busy, BusyPc, HandlerState, Direct
<1>2. CASE r.op = "request"
  BY <1>1, <1>2 DEF NewRow, Outcome, Undone, HistoryInv, NewIdsAreOwn,
                    NewRowsArePending
<1>3. CASE r.op # "request"
  <2>1. exchange[e].status \in Open
    BY <1>1, <1>3 DEF SerialInv, NobodyElseDecides
  <2>2. exchange'[e].status = Outcome(r.op)
    BY <1>1, <1>3, NewRowFields DEF LedgerInv
  <2>3. QED
    BY <1>1, <2>1, <2>2 DEF Open, Undone
<1>4. QED
  BY <1>2, <1>3

LEMMA OnlyWritesChangeExchanges ==
  ASSUME NEW h \in Handlers, Step(h), ~Commit(h), ~UpdateDirectly(h)
  PROVE  UNCHANGED exchange
BY DEF Step, UserStarts, RequestExchange, Cancel, Begin, AdminStarts,
   AdminReject, AdminApprove, AdminProcess, ManagerStarts, ManagerReject,
   ManagerApprove, ManagerProcess, Continue, LockProfile, InsufficientPoints,
   InsertExchange, WriteDecision, ReloadAndReturn, PublishPointUpdated,
   PublishExchangeEvent, ReturnError, Abort, database

DecisionInv == DecisionStands /\ AnnouncesOwnDecision

LEMMA DecisionStep ==
  ASSUME LedgerInv, SerialInv, HistoryInv, DecisionInv,
         NEW h \in Handlers, Step(h)
  PROVE  DecisionInv'
<1> DEFINE r == req[h]
<1>0. /\ TypeInv /\ req \in [Handlers -> HandlerState] /\ r \in HandlerState
      /\ None \notin Exchanges
      /\ \A g \in Handlers \ {h} : req'[g] = req[g]
      /\ \A g \in Handlers : req[g].pc = "committed" =>
                               Busy(g) /\ req[g].exchange \in Exchanges
  BY OthersUntouched, ConstantsAssumption
  DEF LedgerInv, TypeInv, TypeOK, ReferencesExist, WellFormed, Busy, BusyPc
\* The others: their exchange is not written, their state stays.
<1>1. ASSUME NEW g \in Handlers \ {h}, req[g].pc = "committed"
      PROVE  exchange'[req[g].exchange] = exchange[req[g].exchange]
  <2>1. CASE Commit(h) \/ UpdateDirectly(h)
    <3>1. /\ Busy(h)
          /\ \A x \in Exchanges \ {r.exchange} : exchange'[x] = exchange[x]
      BY <2>1, WritesDecideOnce
    <3>2. req[g].exchange # r.exchange
      BY <1>0, <1>1, <3>1 DEF SerialInv, NobodyElseDecides
    <3>3. QED
      BY <1>0, <1>1, <3>1, <3>2
  <2>2. QED
    BY <2>1, OnlyWritesChangeExchanges
<1>2. SUFFICES /\ req'[h].pc = "committed" =>
                    exchange'[req'[h].exchange].status = Outcome(req'[h].op)
               /\ req'[h].pc = "returned" => req'[h].shown = Outcome(req'[h].op)
  <2>1. /\ DecisionStands' <=> \A g \in Handlers : req'[g].pc = "committed" =>
             exchange'[req'[g].exchange].status = Outcome(req'[g].op)
        /\ AnnouncesOwnDecision' <=> \A g \in Handlers :
             req'[g].pc = "returned" => req'[g].shown = Outcome(req'[g].op)
    BY DEF DecisionStands, AnnouncesOwnDecision, Outcome
  <2>2. \A g \in Handlers \ {h} :
          /\ req'[g].pc = "committed" =>
               exchange'[req'[g].exchange].status = Outcome(req'[g].op)
          /\ req'[g].pc = "returned" => req'[g].shown = Outcome(req'[g].op)
    BY <1>0, <1>1 DEF DecisionInv, DecisionStands, AnnouncesOwnDecision
  <2>3. QED
    BY <2>1, <2>2 DEF DecisionInv
<1>3. CASE Commit(h) \/ UpdateDirectly(h)
  BY <1>3, WritesDecideOnce
<1>4. CASE ReloadAndReturn(h)
  BY <1>0, <1>4
  DEF ReloadAndReturn, HandlerState, DecisionInv, DecisionStands
<1>5. CASE PublishPointUpdated(h)
  <2>1. PICK outcome : req' = [req EXCEPT ![h].note = outcome]
    BY <1>5 DEF PublishPointUpdated
  <2>2. /\ req'[h].pc = r.pc /\ req'[h].op = r.op /\ req'[h].shown = r.shown
        /\ req'[h].exchange = r.exchange
    BY <1>0, <2>1 DEF HandlerState
  <2>3. UNCHANGED exchange
    BY <1>5 DEF PublishPointUpdated, database
  <2>4. QED
    BY <2>2, <2>3 DEF DecisionInv, DecisionStands, AnnouncesOwnDecision
<1>6. CASE UserStarts(h) \/ AdminStarts(h) \/ ManagerStarts(h)
  <2>1. ASSUME NEW u \in Users, NEW s \in Sites, NEW a \in Amounts,
               RequestExchange(h, u, s, a)
        PROVE  req'[h].pc = "checked"
    BY <1>0, <2>1 DEF RequestExchange, Idle
  <2>2. ASSUME NEW op, NEW actor, NEW e, NEW from, Begin(h, op, actor, e, from)
        PROVE  req'[h].pc = "checked"
    BY <1>0, <2>2 DEF Begin, Idle
  <2>3. QED
    BY <1>6, <2>1, <2>2
    DEF UserStarts, Cancel, AdminStarts, AdminReject, AdminApprove,
        AdminProcess, ManagerStarts, ManagerReject, ManagerApprove,
        ManagerProcess
<1>7. CASE InsufficientPoints(h) \/ PublishExchangeEvent(h) \/ ReturnError(h)
  BY <1>0, <1>7 DEF InsufficientPoints, PublishExchangeEvent, ReturnError, Idle
<1>8. CASE LockProfile(h) \/ WriteDecision(h) \/ Abort(h)
  BY <1>0, <1>8 DEF LockProfile, WriteDecision, Abort, HandlerState
<1>9. ASSUME NEW e \in Exchanges, InsertExchange(h, e)
      PROVE  req'[h].pc = "written"
  BY <1>0, <1>9 DEF InsertExchange, HandlerState
<1>10. QED
  BY <1>3, <1>4, <1>5, <1>6, <1>7, <1>8, <1>9 DEF Step, Continue

LEMMA OnceStep ==
  ASSUME LedgerInv, SerialInv, HistoryInv, RefundsAreOnce,
         NEW h \in Handlers, Step(h)
  PROVE  RefundsAreOnce'
<1> DEFINE r == req[h]
           u == r.row.user
           e == r.exchange
           n == Len(ledger[u]) + 1
<1>0. /\ TypeInv
      /\ ledger \in [Users -> Seq(Entry)] /\ ledger' \in [Users -> Seq(Entry)]
      /\ exchange \in [Exchanges -> Row]
      /\ \A v \in Users : \A i \in 1..Len(ledger[v]) :
           ledger[v][i].exchange \in Exchanges
      /\ Commit(h) \/ UpdateDirectly(h) =>
           /\ Busy(h) /\ e \in Exchanges
           /\ exchange[e].status \notin Undone
           /\ exchange'[e].status = Outcome(r.op)
           /\ \A x \in Exchanges \ {e} : exchange'[x] = exchange[x]
  <2>1. TypeInv /\ TypeInv'
    BY TypeStep DEF LedgerInv
  <2>2. ASSUME NEW v \in Users, NEW i \in 1..Len(ledger[v])
        PROVE  ledger[v][i].exchange \in Exchanges
    <3>1. ledger[v] \in Seq(Entry)
      BY <2>1 DEF TypeInv, TypeOK
    <3>2. ledger[v][i] \in Entry
      BY <3>1
    <3>3. QED
      BY <3>2 DEF Entry
  <2>3. QED
    BY <2>1, <2>2, WritesDecideOnce DEF TypeInv, TypeOK
\* Refunds already there are of other exchanges than the one being written.
<1>1. ASSUME NEW v \in Users, NEW i \in 1..Len(ledger[v]),
             ledger[v][i].type = "refund"
      PROVE  /\ exchange'[ledger[v][i].exchange] =
                  exchange[ledger[v][i].exchange]
             /\ Commit(h) => ledger[v][i].exchange # e
  <2>1. exchange[ledger[v][i].exchange].status \in Undone
    BY <1>1 DEF RefundsAreOnce
  <2>2. QED
    BY <1>0, <2>1, OnlyWritesChangeExchanges
<1>2. CASE ~Commit(h)
  <2>1. UNCHANGED ledger
    BY <1>0, <1>2, OnlyCommitsMovePoints
  <2>2. QED
    BY <1>1, <2>1 DEF RefundsAreOnce
<1>3. CASE Commit(h)
  <2>1. /\ u \in Users
        /\ LedgerEntry(h) \in Entry
        /\ ledger' = [ledger EXCEPT ![u] = Append(@, LedgerEntry(h))]
        /\ exchange'[e] = NewRow(h, exchange[e]) /\ exchange[e] \in Row
    BY <1>0, <1>3, CommitWrites
  <2>2. /\ \A v \in Users : \A i \in 1..Len(ledger[v]) :
             ledger'[v][i] = ledger[v][i]
        /\ Len(ledger[u]) \in Nat
        /\ Len(ledger'[u]) = n
        /\ ledger'[u][n] = LedgerEntry(h)
        /\ \A v \in Users \ {u} : ledger'[v] = ledger[v]
    BY <1>0, <2>1, LedgerGrows
  <2>3. /\ LedgerEntry(h).exchange = e
        /\ LedgerEntry(h).type = "refund" => r.op # "request"
    BY DEF LedgerEntry
  <2>4. r.op # "request" =>
          exchange'[e].user = u /\ exchange'[e].status \in Undone
    <3> SUFFICES ASSUME r.op # "request"
                 PROVE  exchange'[e].user = u /\ exchange'[e].status \in Undone
      OBVIOUS
    <3>1. u = exchange[e].user
      BY <1>0, <1>3 DEF HistoryInv, CopiesKeepTheDeal
    <3>2. exchange'[e].user = exchange[e].user
      BY <1>0, <2>1, NewRowFields
    <3>3. r.op \in Refunding
      BY <1>3 DEF Commit, LedgerInv, TypeInv, TypeOK, ReferencesExist,
                  WellFormed, HandlerState, Ops
    <3>4. exchange'[e].status \in Undone
      BY <1>0, <1>3, <3>3 DEF Refunding, Outcome, Undone
    <3>5. QED
      BY <3>1, <3>2, <3>4
  <2> SUFFICES ASSUME NEW v \in Users, NEW i \in 1..Len(ledger'[v]),
                      ledger'[v][i].type = "refund"
               PROVE  /\ exchange'[ledger'[v][i].exchange].user = v
                      /\ exchange'[ledger'[v][i].exchange].status \in Undone
                      /\ \A j \in 1..Len(ledger'[v]) :
                           ledger'[v][j].type = "refund"
                             /\ ledger'[v][j].exchange = ledger'[v][i].exchange
                           => j = i
    BY DEF RefundsAreOnce
  <2> HIDE DEF n
  <2>5. \A j \in 1..Len(ledger'[v]) : j \in 1..Len(ledger[v]) \/ (v = u /\ j = n)
    BY <1>0, <2>2 DEF n
  <2>6. CASE i \in 1..Len(ledger[v])
    <3>1. ledger[v][i].type = "refund" /\ ledger'[v][i] = ledger[v][i]
      BY <2>2, <2>6
    <3>2. /\ exchange'[ledger[v][i].exchange].user = v
          /\ exchange'[ledger[v][i].exchange].status \in Undone
          /\ ledger[v][i].exchange # e
      BY <1>1, <1>3, <2>6, <3>1 DEF RefundsAreOnce
    <3>3. ASSUME NEW j \in 1..Len(ledger'[v]), ledger'[v][j].type = "refund",
                 ledger'[v][j].exchange = ledger'[v][i].exchange
          PROVE  j = i
      <4>1. j \in 1..Len(ledger[v])
        BY <2>2, <2>3, <2>5, <3>1, <3>2, <3>3
      <4>2. ledger'[v][j] = ledger[v][j]
        BY <2>2, <4>1
      <4>3. QED
        BY <2>6, <3>1, <3>3, <4>1, <4>2 DEF RefundsAreOnce
    <3>4. QED
      BY <3>1, <3>2, <3>3
  <2>7. CASE i \notin 1..Len(ledger[v])
    <3>1. v = u /\ i = n /\ ledger'[v][i] = LedgerEntry(h)
      BY <2>2, <2>5, <2>7
    <3>2. /\ exchange'[ledger'[v][i].exchange].user = v
          /\ exchange'[ledger'[v][i].exchange].status \in Undone
          /\ ledger'[v][i].exchange = e
      BY <2>3, <2>4, <3>1
    <3>3. ASSUME NEW j \in 1..Len(ledger'[v]), ledger'[v][j].type = "refund",
                 ledger'[v][j].exchange = ledger'[v][i].exchange
          PROVE  j = i
      <4>1. CASE j \in 1..Len(ledger[v])
        <5>1. ledger[v][j].type = "refund" /\ ledger[v][j].exchange = e
          BY <2>2, <3>2, <3>3, <4>1
        <5>2. QED
          BY <1>1, <1>3, <4>1, <5>1
      <4>2. QED
        BY <2>5, <3>1, <4>1
    <3>4. QED
      BY <3>2, <3>3
  <2>8. QED
    BY <2>6, <2>7
<1>4. QED
  BY <1>2, <1>3

OneDecisionInv ==
  LedgerInv /\ SerialInv /\ HistoryInv /\ DecisionInv /\ RefundsAreOnce

LEMMA OneDecisionHolds ==
  ASSUME Overlap = FALSE PROVE Spec => []OneDecisionInv
<1>1. Init => OneDecisionInv
  <2> SUFFICES ASSUME Init PROVE OneDecisionInv
    OBVIOUS
  <2>1. SerialInv /\ DecisionInv
    BY DEF Init, Idle, SerialInv, NobodyElseDecides, AbsentIsEmpty, Busy, BusyPc,
           DecisionInv, DecisionStands, AnnouncesOwnDecision
  <2>2. RefundsAreOnce
    BY DEF Init, RefundsAreOnce
  <2>3. QED
    BY <2>1, <2>2, LedgerInit, HistoryInit DEF OneDecisionInv
<1>2. OneDecisionInv /\ [Next]_vars => OneDecisionInv'
  <2> SUFFICES ASSUME OneDecisionInv, [Next]_vars PROVE OneDecisionInv'
    OBVIOUS
  <2>1. CASE UNCHANGED vars
    <3>1. SerialInv'
      BY <2>1 DEF OneDecisionInv, SerialInv, NobodyElseDecides, AbsentIsEmpty,
                  Busy, vars
    <3>2. DecisionInv' /\ RefundsAreOnce'
      BY <2>1 DEF OneDecisionInv, DecisionInv, DecisionStands,
                  AnnouncesOwnDecision, RefundsAreOnce, vars
    <3>3. QED
      BY <2>1, <3>1, <3>2, LedgerStutter, HistoryStutter DEF OneDecisionInv
  <2>2. ASSUME NEW h \in Handlers, Step(h) PROVE OneDecisionInv'
    BY <2>2, LedgerStep, SerialStep, HistoryStep, DecisionStep, OnceStep
    DEF OneDecisionInv, LedgerInv
  <2>3. QED
    BY <2>1, <2>2 DEF Next
<1>3. QED
  BY <1>1, <1>2, PTL DEF Spec

\* When decisions on one exchange do not overlap, the message a handler sends
\* shows the status it wrote, though the payload is a second read of the row.
THEOREM MessagesShowTheDecision ==
  ASSUME Overlap = FALSE PROVE Spec => []AnnouncesOwnDecision
<1>1. OneDecisionInv => AnnouncesOwnDecision
  BY DEF OneDecisionInv, DecisionInv
<1>2. QED
  BY OneDecisionHolds, <1>1, PTL

\* When decisions on one exchange do not overlap, points come back once for a
\* cancelled or rejected exchange, and never for an open or completed one.
THEOREM RefundedOnceIffUndone ==
  ASSUME Overlap = FALSE PROVE Spec => []RefundedIffUndone
<1>1. OneDecisionInv => RefundedIffUndone
  <2> SUFFICES ASSUME OneDecisionInv, NEW e \in Exchanges,
                      exchange[e].status # "absent"
               PROVE  Cardinality(Refunds(e)) =
                        IF exchange[e].status \in Undone THEN 1 ELSE 0
    BY DEF RefundedIffUndone
  <2> DEFINE u == exchange[e].user
  <2>1. u \in Users
    BY DEF OneDecisionInv, LedgerInv, TypeInv, ReferencesExist
  <2>2. \A i, j \in Refunds(e) : i = j /\ exchange[e].status \in Undone
    BY <2>1 DEF Refunds, OneDecisionInv, RefundsAreOnce
  <2>3. CASE exchange[e].status \in Undone
    <3>1. PICK i : i \in Refunds(e)
      BY <2>3 DEF OneDecisionInv, HistoryInv, UndoneIsRefunded
    <3>2. Refunds(e) = {i}
      BY <2>2, <3>1
    <3>3. QED
      BY <2>3, <3>2, FS_Singleton
  <2>4. CASE exchange[e].status \notin Undone
    <3>1. Refunds(e) = {}
      BY <2>2, <2>4
    <3>2. QED
      BY <2>4, <3>1, FS_EmptySet
  <2>5. QED
    BY <2>3, <2>4
<1>2. QED
  BY OneDecisionHolds, <1>1, PTL

-----------------------------------------------------------------------------
(* Sums over finite sets, by induction on the set: the theorems of the        *)
(* library about well-founded relations take sets, not predicates.            *)

Some(T) == CHOOSE x \in T : TRUE

LEMMA LeastOf ==
  ASSUME NEW T, T \subseteq Nat, T # {}
  PROVE  \E m \in T : \A k \in T : m <= k
<1>1. IsWellFoundedOn({ss \in Nat \X Nat : ss[1] < ss[2]}, Nat)
  BY NatLessThanWellFounded DEF OpToRel
<1>2. PICK m \in T : \A k \in T : <<k, m>> \notin {ss \in Nat \X Nat : ss[1] < ss[2]}
  BY <1>1, WFMin
<1>3. ASSUME NEW k \in T PROVE m <= k
  <2>1. m \in Nat /\ k \in Nat /\ <<k, m>> \in Nat \X Nat
    OBVIOUS
  <2>2. ~(k < m)
    BY <1>2, <2>1
  <2>3. QED
    BY <2>1, <2>2
<1>4. QED
  BY <1>3

\* A set that has zero, and with each number the next, has all of them.
LEMMA CountedSets ==
  ASSUME NEW G, 0 \in G, \A n \in Nat : n \in G => n + 1 \in G
  PROVE  Nat \subseteq G
<1>1. SUFFICES ASSUME Nat \ G # {} PROVE FALSE
  OBVIOUS
<1>2. PICK m \in Nat \ G : \A k \in Nat \ G : m <= k
  BY <1>1, LeastOf
<1>3. m # 0 /\ m - 1 \in Nat /\ m - 1 \notin Nat \ G
  BY <1>2
<1>4. QED
  BY <1>3

\* What SumFunctionOnSet folds: the sum over each subset, from those over smaller
\* ones; and that there is such a function.
Terms(w, f, S) == [T \in SUBSET S |-> IF T = {} THEN 0 ELSE w[Some(T)] + f[T \ {Some(T)}]]

Iter(w, S) == CHOOSE f : f = Terms(w, f, S)

LEMMA SumDef == \A w, S : SumFunctionOnSet(w, S) = Iter(w, S)[S]
BY DEF SumFunctionOnSet, FoldFunctionOnSet, MapThenFoldSet, Some, Terms, Iter

LEMMA SomeIsIn == \A T : T # {} => Some(T) \in T
BY DEF Some

\* A set without the element that is chosen first is smaller by one.
LEMMA SmallerSet ==
  ASSUME NEW T, IsFiniteSet(T), T # {}
  PROVE  /\ Some(T) \in T
         /\ IsFiniteSet(T \ {Some(T)})
         /\ Cardinality(T) \in Nat /\ Cardinality(T) # 0
         /\ Cardinality(T \ {Some(T)}) = Cardinality(T) - 1
<1>1. Some(T) \in T
  BY SomeIsIn
<1>2. Cardinality(T) \in Nat /\ Cardinality(T) # 0
  BY FS_CardinalityType, FS_EmptySet
<1>3. QED
  BY <1>1, <1>2, FS_RemoveElement

LEMMA IterExists ==
  ASSUME NEW w, NEW S, IsFiniteSet(S)
  PROVE  Iter(w, S) = Terms(w, Iter(w, S), S)
<1> DEFINE upto(f, n) == \A T \in SUBSET S : Cardinality(T) <= n => f[T] = Terms(w, f, S)[T]
           G == {n \in Nat : \E f : f = [T \in SUBSET S |-> f[T]] /\ upto(f, n)}
<1>0. \A T \in SUBSET S : IsFiniteSet(T) /\ Cardinality(T) \in Nat
  BY FS_Subset, FS_CardinalityType
<1>1. 0 \in G
  <2>1. PICK f : f = [T \in SUBSET S |-> 0]
    OBVIOUS
  <2>2. upto(f, 0)
    BY <1>0, <2>1, FS_EmptySet DEF Terms
  <2>3. QED
    BY <2>1, <2>2
<1>2. ASSUME NEW n \in Nat, n \in G PROVE n + 1 \in G
  <2>1. PICK f : f = [T \in SUBSET S |-> f[T]] /\ upto(f, n)
    BY <1>2
  <2>2. PICK g : g = Terms(w, f, S)
    OBVIOUS
  <2>3. ASSUME NEW T \in SUBSET S, Cardinality(T) <= n + 1
        PROVE  g[T] = Terms(w, g, S)[T]
    <3>1. CASE T = {}
      BY <2>2, <3>1 DEF Terms
    <3>2. CASE T # {}
      <4>1. PICK U : U = T \ {Some(T)}
        OBVIOUS
      <4>2. U \in SUBSET S /\ Cardinality(U) <= n
        BY <1>0, <2>3, <3>2, <4>1, SmallerSet
      <4>3. g[U] = f[U]
        BY <2>1, <2>2, <4>2
      <4>4. QED
        BY <2>2, <3>2, <4>1, <4>2, <4>3 DEF Terms
    <3>3. QED
      BY <3>1, <3>2
  <2>4. g = [T \in SUBSET S |-> g[T]]
    BY <2>2 DEF Terms
  <2>5. upto(g, n + 1) /\ n + 1 \in Nat
    BY <2>3
  <2> HIDE DEF upto
  <2>6. QED
    BY <2>4, <2>5, Zenon
<1>3. Cardinality(S) \in G
  <2> HIDE DEF G
  <2>1. Nat \subseteq G
    BY <1>1, <1>2, CountedSets
  <2>2. QED
    BY <1>0, <2>1
<1>4. PICK f : f = [T \in SUBSET S |-> f[T]] /\ upto(f, Cardinality(S))
  BY <1>3
<1>5. \A T \in SUBSET S : Cardinality(T) <= Cardinality(S)
  BY FS_Subset
<1>7. f = Terms(w, f, S)
  BY <1>4, <1>5 DEF Terms
<1>8. QED
  BY <1>7 DEF Iter

LEMMA ProperSubset ==
  ASSUME NEW T, NEW U, U \subseteq T, U # T
  PROVE  \E x \in T : x \notin U
OBVIOUS

\* Induction on the subsets of a finite set.
LEMMA SubsetInduction ==
  ASSUME NEW S, IsFiniteSet(S), NEW G,
         \A T \in SUBSET S : (\A U \in SUBSET T : U # T => U \in G) => T \in G
  PROVE  \A T \in SUBSET S : T \in G
<1> DEFINE bad == {T \in SUBSET S : T \notin G}
           sizes == {Cardinality(T) : T \in bad}
<1>0. \A T \in SUBSET S : IsFiniteSet(T) /\ Cardinality(T) \in Nat
  BY FS_Subset, FS_CardinalityType
<1>1. SUFFICES ASSUME bad # {} PROVE FALSE
  OBVIOUS
<1>2. sizes \subseteq Nat /\ sizes # {}
  BY <1>0, <1>1
<1>3. PICK m \in sizes : \A k \in sizes : m <= k
  <2> HIDE DEF sizes
  <2>1. QED
    BY <1>2, LeastOf
<1>4. PICK T \in bad : m = Cardinality(T)
  BY <1>3
<1>5. ASSUME NEW U \in SUBSET T, U # T PROVE U \in G
  <2>1. Cardinality(U) < Cardinality(T)
    <3>1. IsFiniteSet(T)
      BY <1>0, <1>4
    <3>2. PICK x \in T : x \notin U
      BY <1>5, ProperSubset
    <3>3. /\ Cardinality(T \ {x}) = Cardinality(T) - 1
          /\ IsFiniteSet(T \ {x})
      BY <3>1, <3>2, FS_RemoveElement
    <3>4. U \subseteq T \ {x}
      BY <3>2
    <3>5. Cardinality(U) <= Cardinality(T \ {x})
      BY <3>3, <3>4, FS_Subset
    <3>6. Cardinality(U) \in Nat /\ Cardinality(T) \in Nat
      BY <1>0, <1>4
    <3>7. QED
      BY <3>3, <3>5, <3>6
  <2>2. Cardinality(U) \in Nat /\ Cardinality(T) \in Nat /\ U \in SUBSET S
    BY <1>0, <1>4
  <2>3. QED
    BY <1>3, <1>4, <2>1, <2>2
<1>6. T \in G
  BY <1>4, <1>5
<1>7. QED
  BY <1>4, <1>6

LEMMA IterAgrees ==
  ASSUME NEW S, IsFiniteSet(S), NEW R \in SUBSET S, NEW w, NEW v, \A x \in R : w[x] = v[x]
  PROVE  Iter(w, S)[R] = Iter(v, R)[R]
<1> DEFINE G == {T \in SUBSET R : Iter(w, S)[T] = Iter(v, R)[T]}
<1>0. IsFiniteSet(R)
  BY FS_Subset
<1>1. Iter(w, S) = Terms(w, Iter(w, S), S) /\ Iter(v, R) = Terms(v, Iter(v, R), R)
  BY <1>0, IterExists
<1>2. ASSUME NEW T \in SUBSET R, \A U \in SUBSET T : U # T => U \in G
      PROVE  T \in G
  <2>1. PICK f, g : f = Iter(w, S) /\ g = Iter(v, R)
    OBVIOUS
  <2>2. f = Terms(w, f, S) /\ g = Terms(v, g, R)
    BY <1>1, <2>1
  <2>3. T = {} => f[T] = g[T]
    BY <2>2 DEF Terms
  <2>4. ASSUME T # {} PROVE f[T] = g[T]
    <3>1. PICK x : x = Some(T)
      OBVIOUS
    <3>2. x \in T
      BY <2>4, <3>1, SomeIsIn
    <3>3. f[T \ {x}] = g[T \ {x}]
      BY <1>2, <2>1, <3>2
    <3>4. /\ f[T] = w[x] + f[T \ {x}]
          /\ g[T] = v[x] + g[T \ {x}]
      BY <2>2, <2>4, <3>1, <3>2 DEF Terms
    <3>5. QED
      BY <3>2, <3>3, <3>4
  <2>5. QED
    BY <2>1, <2>3, <2>4
<1>3. R \in G
  <2> HIDE DEF G
  <2>1. QED
    BY <1>0, <1>2, SubsetInduction
<1>4. QED
  BY <1>3

\* A sum depends on what is added only.
LEMMA SumsAgree ==
  ASSUME NEW S, IsFiniteSet(S), NEW w, NEW v, \A x \in S : w[x] = v[x]
  PROVE  SumFunctionOnSet(w, S) = SumFunctionOnSet(v, S)
BY IterAgrees, SumDef

LEMMA SumUnfolds ==
  ASSUME NEW S, IsFiniteSet(S), NEW w
  PROVE  /\ S = {} => SumFunctionOnSet(w, S) = 0
         /\ S # {} => SumFunctionOnSet(w, S) =
                        w[Some(S)] + SumFunctionOnSet(w, S \ {Some(S)})
<1>1. PICK f : f = Iter(w, S)
  OBVIOUS
<1>2. f = Terms(w, f, S) /\ SumFunctionOnSet(w, S) = f[S]
  BY <1>1, IterExists, SumDef
<1>3. PICK R : R = S \ {Some(S)}
  OBVIOUS
<1>4. f[R] = SumFunctionOnSet(w, R)
  BY <1>1, <1>3, IterAgrees, SumDef
<1>5. f[S] = IF S = {} THEN 0 ELSE w[Some(S)] + f[R]
  BY <1>2, <1>3 DEF Terms
<1>6. QED
  BY <1>2, <1>3, <1>4, <1>5

LEMMA SumIsNumber ==
  ASSUME NEW S, IsFiniteSet(S), NEW w, \A x \in S : w[x] \in Int
  PROVE  SumFunctionOnSet(w, S) \in Int
<1> DEFINE G == {T \in SUBSET S : SumFunctionOnSet(w, T) \in Int}
<1>1. ASSUME NEW T \in SUBSET S, \A U \in SUBSET T : U # T => U \in G
      PROVE  T \in G
  <2>1. IsFiniteSet(T)
    BY FS_Subset
  <2>2. CASE T = {}
    BY <2>1, <2>2, SumUnfolds
  <2>3. CASE T # {}
    <3>1. PICK x \in T : x = Some(T)
      BY <2>3, SomeIsIn
    <3>2. SumFunctionOnSet(w, T \ {x}) \in Int /\ w[x] \in Int
      BY <1>1
    <3>3. QED
      BY <2>1, <2>3, <3>1, <3>2, SumUnfolds
  <2>4. QED
    BY <2>2, <2>3
<1>2. S \in G
  <2> HIDE DEF G
  <2>1. QED
    BY <1>1, SubsetInduction
<1>3. QED
  BY <1>2

\* Any element may be the first to be added.
LEMMA SumTakesOut ==
  ASSUME NEW S, IsFiniteSet(S), NEW w, \A x \in S : w[x] \in Int, NEW y \in S
  PROVE  SumFunctionOnSet(w, S) = w[y] + SumFunctionOnSet(w, S \ {y})
<1> DEFINE sum(T) == SumFunctionOnSet(w, T)
           G == {T \in SUBSET S : \A z \in T : sum(T) = w[z] + sum(T \ {z})}
<1>1. ASSUME NEW T \in SUBSET S, \A U \in SUBSET T : U # T => U \in G
      PROVE  T \in G
  <2>1. ASSUME NEW z \in T PROVE sum(T) = w[z] + sum(T \ {z})
    <3>0. IsFiniteSet(T) /\ \A U \in SUBSET T : IsFiniteSet(U) /\ sum(U) \in Int
      <4>1. \A U \in SUBSET T : IsFiniteSet(U)
        BY FS_Subset
      <4>2. QED
        BY <4>1, SumIsNumber
    <3>1. PICK x \in T : x = Some(T)
      BY <2>1, SomeIsIn
    <3>2. sum(T) = w[x] + sum(T \ {x})
      BY <2>1, <3>0, <3>1, SumUnfolds
    <3>3. CASE x # z
      <4>1. PICK A, B, C : A = T \ {x} /\ B = T \ {z} /\ C = A \ {z}
        OBVIOUS
      <4>2. C = B \ {x} /\ A # T /\ B # T /\ A \in SUBSET T /\ B \in SUBSET T /\ C \in SUBSET T
            /\ z \in A /\ x \in B
        BY <3>3, <4>1
      <4>3. sum(A) = w[z] + sum(C) /\ sum(B) = w[x] + sum(C)
        BY <1>1, <4>1, <4>2
      <4>4. w[x] \in Int /\ w[z] \in Int /\ sum(C) \in Int
        BY <3>0, <4>2
      <4> HIDE DEF sum
      <4>5. QED
        BY <3>2, <4>1, <4>3, <4>4
    <3>4. CASE x = z
      BY <3>2, <3>4
    <3>5. QED
      BY <3>3, <3>4
  <2>2. QED
    BY <2>1
<1>2. S \in G
  <2> HIDE DEF G
  <2>1. QED
    BY <1>1, SubsetInduction
<1>3. QED
  BY <1>2

-----------------------------------------------------------------------------
(* The contract conserves points *)

LEMMA ContractSums ==
  /\ \A w, S : Contract!SumFunctionOnSet(w, S) = SumFunctionOnSet(w, S)
  /\ \A S : Contract!IsFiniteSet(S) <=> IsFiniteSet(S)
<1>1. ASSUME NEW w, NEW S PROVE Contract!SumFunctionOnSet(w, S) = SumFunctionOnSet(w, S)
  BY DEF Contract!SumFunctionOnSet, Contract!FoldFunctionOnSet, Contract!MapThenFoldSet,
         SumFunctionOnSet, FoldFunctionOnSet, MapThenFoldSet
<1>2. ASSUME NEW S PROVE Contract!IsFiniteSet(S) <=> IsFiniteSet(S)
  BY DEF Contract!IsFiniteSet, IsFiniteSet
<1>3. QED
  BY <1>1, <1>2

ContractAssumptions == None \notin Users /\ LegalAmounts \subseteq Nat /\ InitialPoints \in Int

\* What is held depends on the orders that hold something only.
LEMMA HeldIs ==
  ASSUME NEW d, d = Deals, NEW u \in Users
  PROVE  /\ Contract!HeldBy(u) = {o \in Exchanges : d[o].user = u /\ d[o].state # "undone"}
         /\ Contract!Held(u) = SumFunctionOnSet([o \in Exchanges |-> d[o].amount], Contract!HeldBy(u))
BY ContractSums DEF Contract!HeldBy, Contract!Held

LEMMA HeldIsThen ==
  ASSUME NEW d, d = Deals', NEW u \in Users
  PROVE  /\ Contract!HeldBy(u)' = {o \in Exchanges : d[o].user = u /\ d[o].state # "undone"}
         /\ Contract!Held(u)' = SumFunctionOnSet([o \in Exchanges |-> d[o].amount], Contract!HeldBy(u)')
BY ContractSums DEF Contract!HeldBy, Contract!Held

LEMMA AskConserves ==
  ASSUME ContractAssumptions, Contract!ContractInv,
         NEW o \in Exchanges, NEW u \in Users, NEW a \in LegalAmounts, Contract!Ask(u, o, a)
  PROVE  Contract!ContractInv'
<1>1. PICK d, e, p, q : d = Deals /\ e = Deals' /\ p = points /\ q = points'
  OBVIOUS
<1>2. /\ p \in [Users -> Int]
      /\ \A x \in Exchanges : d[x] \in Contract!Deal \cup {Contract!NoDeal}
      /\ \A v \in Users : IsFiniteSet(Contract!HeldBy(v)) /\ p[v] + Contract!Held(v) = InitialPoints
  BY <1>1, ContractSums DEF Contract!ContractInv, Contract!Conserved
<1>3. PICK r : r = [state |-> "open", user |-> u, amount |-> a]
  OBVIOUS
<1>4. /\ d[o] = Contract!NoDeal /\ q = [p EXCEPT ![u] = @ - a] /\ e = [d EXCEPT ![o] = r]
      /\ a \in Nat
  BY <1>1, <1>3 DEF Contract!Ask, ContractAssumptions
<1>5. r \in Contract!Deal /\ r.user = u /\ r.state = "open" /\ r.amount = a
  BY <1>3, <1>4 DEF Contract!Deal
<1>6. DOMAIN d = Exchanges
  BY <1>1 DEF Deals
<1>7. e[o] = r /\ \A x \in Exchanges \ {o} : e[x] = d[x]
  BY <1>4, <1>6
<1>8. d[o].user = None /\ None \notin Users
  BY <1>4 DEF Contract!NoDeal, ContractAssumptions
<1>9. q[u] = p[u] - a /\ q \in [Users -> Int] /\ \A v \in Users \ {u} : q[v] = p[v]
  BY <1>2, <1>4
<1>10. ASSUME NEW v \in Users
       PROVE  /\ IsFiniteSet(Contract!HeldBy(v)')
              /\ q[v] + Contract!Held(v)' = InitialPoints
  <2>1. PICK A, B, w, z : /\ A = Contract!HeldBy(v) /\ B = Contract!HeldBy(v)'
                          /\ w = [x \in Exchanges |-> d[x].amount]
                          /\ z = [x \in Exchanges |-> e[x].amount]
    OBVIOUS
  <2>2. /\ A = {x \in Exchanges : d[x].user = v /\ d[x].state # "undone"}
        /\ B = {x \in Exchanges : e[x].user = v /\ e[x].state # "undone"}
        /\ Contract!Held(v) = SumFunctionOnSet(w, A)
        /\ Contract!Held(v)' = SumFunctionOnSet(z, B)
    BY <1>1, <2>1, HeldIs, HeldIsThen
  <2>3. o \notin A /\ \A x \in A : w[x] = z[x]
    BY <1>7, <1>8, <2>1, <2>2
  <2>4. IsFiniteSet(A) /\ p[v] + SumFunctionOnSet(w, A) = InitialPoints
    BY <1>2, <2>1, <2>2
  <2>5. SumFunctionOnSet(w, A) = SumFunctionOnSet(z, A)
    BY <2>3, <2>4, SumsAgree
  <2>6. \A x \in A : w[x] \in Int
    BY <1>2, <1>8, <2>1, <2>2 DEF Contract!Deal, Contract!NoDeal
  <2>7. SumFunctionOnSet(w, A) \in Int
    BY <2>4, <2>6, SumIsNumber
  <2>8. CASE v = u
    <3>1. B = A \cup {o} /\ B \ {o} = A /\ z[o] = a
      BY <1>5, <1>7, <2>1, <2>2, <2>3, <2>8
    <3>2. IsFiniteSet(B)
      BY <2>4, <3>1, FS_AddElement
    <3>3. \A x \in B : z[x] \in Int
      BY <1>4, <2>3, <2>6, <3>1
    <3>4. SumFunctionOnSet(z, B) = a + SumFunctionOnSet(z, A)
      BY <3>1, <3>2, <3>3, SumTakesOut
    <3>5. QED
      BY <1>2, <1>4, <1>9, <2>1, <2>2, <2>4, <2>5, <2>7, <2>8, <3>2, <3>4
  <2>9. CASE v # u
    <3>1. B = A
      BY <1>5, <1>7, <1>8, <2>2, <2>9
    <3>2. QED
      BY <1>9, <2>1, <2>2, <2>4, <2>5, <2>9, <3>1
  <2>10. QED
    BY <2>8, <2>9
<1>11. \A x \in Exchanges : e[x] \in Contract!Deal \cup {Contract!NoDeal}
  BY <1>2, <1>5, <1>7
<1>12. (Contract!ContractInv)'
  BY <1>1, <1>9, <1>10, <1>11, ContractSums DEF Contract!ContractInv, Contract!Conserved, Contract!Deal, Contract!NoDeal
<1>13. QED
  BY <1>12

\* An order that was open ends: completed, it holds what it held; undone, its
\* points are with its user again.
LEMMA EndConserves ==
  ASSUME ContractAssumptions, Contract!ContractInv, NEW o \in Exchanges,
         Contract!Complete(o) \/ Contract!Undo(o)
  PROVE  Contract!ContractInv'
<1>1. PICK d, e, p, q : d = Deals /\ e = Deals' /\ p = points /\ q = points'
  OBVIOUS
<1>2. /\ p \in [Users -> Int]
      /\ \A x \in Exchanges : d[x] \in Contract!Deal \cup {Contract!NoDeal}
      /\ \A v \in Users : IsFiniteSet(Contract!HeldBy(v)) /\ p[v] + Contract!Held(v) = InitialPoints
  BY <1>1, ContractSums DEF Contract!ContractInv, Contract!Conserved
<1>3. PICK s \in {"completed", "undone"} :
        /\ d[o].state = "open" /\ e = [d EXCEPT ![o].state = s]
        /\ q = IF s = "completed" THEN p ELSE [p EXCEPT ![d[o].user] = @ + d[o].amount]
  BY <1>1 DEF Contract!Complete, Contract!Undo
<1>4. PICK r : r = d[o]
  OBVIOUS
<1>5. r \in Contract!Deal /\ r.state = "open" /\ r.user \in Users /\ r.amount \in Nat
  BY <1>2, <1>3, <1>4 DEF Contract!Deal, Contract!NoDeal
<1>6. DOMAIN d = Exchanges
  BY <1>1 DEF Deals
<1>7. /\ e[o].user = r.user /\ e[o].amount = r.amount /\ e[o].state = s
      /\ e[o] \in Contract!Deal /\ \A x \in Exchanges \ {o} : e[x] = d[x]
  <2>1. e[o] = [r EXCEPT !.state = s] /\ \A x \in Exchanges \ {o} : e[x] = d[x]
    BY <1>3, <1>4, <1>6
  <2>2. QED
    BY <1>3, <1>5, <2>1 DEF Contract!Deal
<1>9. /\ q \in [Users -> Int]
      /\ \A v \in Users : q[v] = IF s = "undone" /\ v = r.user THEN p[v] + r.amount ELSE p[v]
  BY <1>2, <1>3, <1>4, <1>5
<1>10. ASSUME NEW v \in Users
       PROVE  /\ IsFiniteSet(Contract!HeldBy(v)')
              /\ q[v] + Contract!Held(v)' = InitialPoints
  <2>1. PICK A, B, w, z : /\ A = Contract!HeldBy(v) /\ B = Contract!HeldBy(v)'
                          /\ w = [x \in Exchanges |-> d[x].amount]
                          /\ z = [x \in Exchanges |-> e[x].amount]
    OBVIOUS
  <2>2. /\ A = {x \in Exchanges : d[x].user = v /\ d[x].state # "undone"}
        /\ B = {x \in Exchanges : e[x].user = v /\ e[x].state # "undone"}
        /\ Contract!Held(v) = SumFunctionOnSet(w, A)
        /\ Contract!Held(v)' = SumFunctionOnSet(z, B)
    BY <1>1, <2>1, HeldIs, HeldIsThen
  <2>3. \A x \in Exchanges : w[x] = z[x]
    BY <1>4, <1>7, <2>1
  <2>4. IsFiniteSet(A) /\ p[v] + SumFunctionOnSet(w, A) = InitialPoints
    BY <1>2, <2>1, <2>2
  <2>6. \A x \in A : w[x] \in Int
    BY <1>2, <2>1, <2>2 DEF Contract!Deal, Contract!NoDeal
  <2>7. SumFunctionOnSet(w, A) \in Int
    BY <2>4, <2>6, SumIsNumber
  <2>8. CASE s = "undone" /\ v = r.user
    <3>1. o \in A /\ B = A \ {o} /\ w[o] = r.amount
      BY <1>4, <1>5, <1>7, <2>1, <2>2, <2>8
    <3>2. IsFiniteSet(B)
      BY <2>4, <3>1, FS_Subset
    <3>3. SumFunctionOnSet(w, A) = r.amount + SumFunctionOnSet(w, B)
      BY <2>4, <2>6, <3>1, SumTakesOut
    <3>4. SumFunctionOnSet(w, B) = SumFunctionOnSet(z, B)
      BY <2>2, <2>3, <3>2, SumsAgree
    <3>5. SumFunctionOnSet(w, B) \in Int
      BY <2>6, <3>1, <3>2, SumIsNumber
    <3>6. p[v] \in Int /\ q[v] = p[v] + r.amount
      BY <1>2, <1>9, <2>8
    <3>7. QED
      BY <1>5, <2>1, <2>2, <2>4, <3>2, <3>3, <3>4, <3>5, <3>6
  <2>9. CASE ~(s = "undone" /\ v = r.user)
    <3>1. B = A
      <4>1. o \in A <=> o \in B
        BY <1>3, <1>4, <1>5, <1>7, <2>2, <2>9
      <4>2. \A x : x \in A <=> x \in B
        BY <1>7, <2>2, <4>1
      <4>3. QED
        BY <4>2, Zenon
    <3>2. SumFunctionOnSet(w, A) = SumFunctionOnSet(z, A)
      BY <2>2, <2>3, <2>4, SumsAgree
    <3>3. q[v] = p[v]
      BY <1>9, <2>9
    <3>4. QED
      BY <2>1, <2>2, <2>4, <3>1, <3>2, <3>3
  <2>10. QED
    BY <2>8, <2>9
<1>11. \A x \in Exchanges : e[x] \in Contract!Deal \cup {Contract!NoDeal}
  BY <1>2, <1>7
<1>12. QED
  BY <1>1, <1>9, <1>10, <1>11, ContractSums DEF Contract!ContractInv, Contract!Conserved, Contract!Deal, Contract!NoDeal

LEMMA ContractBegins == ASSUME ContractAssumptions, Contract!ContractInit PROVE Contract!ContractInv
<1>1. PICK d : d = Deals
  OBVIOUS
<1>2. d = [o \in Exchanges |-> Contract!NoDeal] /\ points = [u \in Users |-> InitialPoints]
  BY <1>1 DEF Contract!ContractInit
<1>3. ASSUME NEW u \in Users PROVE IsFiniteSet(Contract!HeldBy(u)) /\ Contract!Held(u) = 0
  <2>1. Contract!HeldBy(u) = {}
    <3>1. \A o \in Exchanges : d[o].user = None /\ u # None
      BY <1>2 DEF Contract!NoDeal, ContractAssumptions
    <3>2. Contract!HeldBy(u) = {o \in Exchanges : d[o].user = u /\ d[o].state # "undone"}
      BY <1>1 DEF Contract!HeldBy
    <3>3. QED
      BY <3>1, <3>2
  <2>2. QED
    BY <1>1, <2>1, HeldIs, FS_EmptySet, SumUnfolds
<1>4. QED
  BY <1>1, <1>2, <1>3, ContractSums
  DEF Contract!ContractInv, Contract!Conserved, ContractAssumptions, Contract!NoDeal

LEMMA ContractConserves ==
  ASSUME ContractAssumptions PROVE Contract!ContractSpec => []Contract!ContractInv
<1>1. ContractAssumptions /\ Contract!ContractInit => Contract!ContractInv
  BY ContractBegins
<1>2. ASSUME Contract!ContractInv, Contract!ContractNext PROVE Contract!ContractInv'
  BY <1>2, AskConserves, EndConserves DEF Contract!ContractNext
<1>3. ASSUME Contract!ContractInv, UNCHANGED Contract!contractVars PROVE Contract!ContractInv'
  BY <1>3 DEF Contract!contractVars, Contract!ContractInv, Contract!Conserved, Contract!HeldBy, Contract!Held, Contract!NoDeal, Contract!Deal
<1>4. QED
  BY <1>1, <1>2, <1>3, PTL DEF Contract!ContractSpec

\* Points are neither made nor lost as long as decisions on one exchange do not
\* overlap: what a user has, and what the exchanges that were not undone hold.
THEOREM PointsAreConserved ==
  ASSUME Overlap = FALSE PROVE Spec => []PointsConserved
<1>1. ContractAssumptions
  <2>1. None \notin Users /\ InitialPoints \in Int /\ Amounts \subseteq Nat
    BY ConstantsAssumption
  <2>2. LegalAmounts \subseteq Amounts
    BY DEF LegalAmounts
  <2>3. QED
    BY <2>1, <2>2 DEF ContractAssumptions
<1>2. Spec => Contract!ContractSpec
  BY ExchangeRefines DEF ImplementsContract
<1>3. Contract!ContractSpec => []Contract!ContractInv
  BY <1>1, ContractConserves
<1>4. Contract!ContractInv => PointsConserved
  BY DEF PointsConserved, Contract!ContractInv
<1>5. QED
  BY <1>2, <1>3, <1>4, PTL
=============================================================================
