---------------------- MODULE GifticonRedemptionProofs ----------------------
(* Theorems about GifticonRedemption, for every value of its constants.     *)
EXTENDS GifticonRedemption, TLAPS

Step(h) == Starts(h) \/ Continue(h) \/ Abort(h)

\* The steps of a handler that neither commit nor take or free a lock.
Quiet(h) == Starts(h) \/ InsufficientPoints(h) \/ WriteDecision(h)
            \/ UpdateDirectly(h) \/ (\E r \in Redemptions : InsertRedemption(h, r))

-----------------------------------------------------------------------------
(* Types *)

LEMMA BlankTypes ==
  /\ NoRow \in Row /\ NoGifticon \in Gifticon
  /\ Idle \in HandlerState /\ WellFormed(Idle)
  /\ Idle.pc = "idle" /\ Idle.op = "redeem" /\ Idle.redemption = None
<1>1. NoRow \in Row
  BY DEF NoRow, Row, Status
<1>2. Idle \in HandlerState
  BY <1>1 DEF Idle, HandlerState
<1>3. WellFormed(Idle)
  BY DEF Idle, WellFormed
<1>4. QED
  BY <1>1, <1>2, <1>3 DEF Idle, NoGifticon, Gifticon

LEMMA DeltaType ==
  ASSUME TypeOK, NEW h \in Handlers
  PROVE  /\ Delta(h) \in Int
         /\ \A n \in Int : ClampToZero(n) \in Nat
BY DEF TypeOK, HandlerState, Row, Delta, ClampToZero

\* A decision's row: its own status, the same user, gifticon and price.
LEMMA NewRowFields ==
  ASSUME TypeOK, NEW h \in Handlers, NEW row \in Row
  PROVE  /\ NewRow(h, row) \in Row
         /\ req[h].op = "redeem" => NewRow(h, row) = req[h].row
         /\ req[h].op # "redeem" =>
              /\ NewRow(h, row).user = row.user
              /\ NewRow(h, row).pointsUsed = row.pointsUsed
              /\ NewRow(h, row).status \in {"completed"} \cup Undone
              /\ NewRow(h, row).status = "completed" <=> req[h].op = "approve"
<1> DEFINE r == req[h]
<1>1. r.row \in Row /\ r.op \in {"redeem", "approve", "cancel", "reject"}
  BY DEF TypeOK, HandlerState, Refunding
<1>2. CASE r.op = "redeem"
  BY <1>1, <1>2 DEF NewRow
<1>3. CASE r.op = "approve"
  BY <1>3 DEF NewRow, Row, Status, Undone
<1>4. CASE r.op = "cancel"
  BY <1>4 DEF NewRow, Row, Status, Undone
<1>5. CASE r.op = "reject"
  BY <1>5 DEF NewRow, Row, Status, Undone
<1>6. QED
  BY <1>1, <1>2, <1>3, <1>4, <1>5

\* What every step of a handler leaves alone.
LEMMA OthersUntouched ==
  ASSUME TypeOK, NEW h \in Handlers, Step(h)
  PROVE  /\ \A k \in Handlers \ {h} : req'[k] = req[k]
         /\ UNCHANGED gifticon
BY DEF TypeOK, Step, Starts, Redeem, CancelRedemption, RejectRedemption,
   ApproveRedemption, Begin, Continue, LockProfile, InsufficientPoints,
   InsertRedemption, WriteDecision, UpdateDirectly, Commit, Abort, catalogue

LEMMA CatalogueStep ==
  ASSUME TypeOK, EditCatalogue
  PROVE  UNCHANGED orders /\ gifticon' \in [Gifticons -> Gifticon]
<1>1. PICK g \in Gifticons :
           \/ \E new \in Gifticon : CreateGifticon(g, new) \/ UpdateGifticon(g, new)
           \/ DeleteGifticon(g)
           \/ TimePasses(g)
  BY DEF EditCatalogue
<1>2. gifticon[g] \in Gifticon
  BY DEF TypeOK
<1>3. CASE TimePasses(g)
  BY <1>2, <1>3 DEF TimePasses, TypeOK, Gifticon
<1>4. CASE DeleteGifticon(g)
  BY <1>4, BlankTypes DEF DeleteGifticon, TypeOK
<1>5. ASSUME NEW new \in Gifticon, CreateGifticon(g, new) \/ UpdateGifticon(g, new)
      PROVE  UNCHANGED orders /\ gifticon' \in [Gifticons -> Gifticon]
  BY <1>5 DEF CreateGifticon, UpdateGifticon, TypeOK
<1>6. QED
  BY <1>1, <1>3, <1>4, <1>5

\* A step that gives one handler a well-formed state, and changes no data.
LEMMA OneHandler ==
  ASSUME TypeInv, NEW h \in Handlers, NEW s \in HandlerState, WellFormed(s),
         s.pc # "idle" /\ s.op # "redeem" =>
           redemption[s.redemption].status # "absent",
         req' = [req EXCEPT ![h] = s],
         UNCHANGED <<points, ledger, gifticon, redemption>>,
         rowLock' \in [Users -> Handlers \cup {None}]
  PROVE  TypeInv'
<1>1. TypeOK'
  BY DEF TypeInv, TypeOK
<1>2. \A k \in Handlers : req'[k] = IF k = h THEN s ELSE req[k]
  BY DEF TypeInv, TypeOK
<1>3. ReferencesExist'
  BY <1>2 DEF TypeInv, ReferencesExist, Busy, WellFormed
<1>4. QED
  BY <1>1, <1>3 DEF TypeInv

\* A step that writes the new row of h's redemption, and ends the handler.
LEMMA OneWrite ==
  ASSUME TypeInv, NEW h \in Handlers, Busy(h),
         req[h].redemption \in Redemptions,
         redemption' = [redemption EXCEPT ![req[h].redemption] = NewRow(h, @)],
         req' = [req EXCEPT ![h] = Idle],
         points' \in [Users -> Nat], ledger' \in [Users -> Seq(Entry)],
         rowLock' \in [Users -> Handlers \cup {None}], UNCHANGED gifticon
  PROVE  TypeInv'
<1> DEFINE s == req[h]
           r == s.redemption
           row == NewRow(h, redemption[r])
<1>1. /\ s \in HandlerState /\ s.row \in Row /\ WellFormed(s)
      /\ redemption[r] \in Row
  BY DEF TypeInv, TypeOK, HandlerState, ReferencesExist
<1>2. row \in Row /\ row.user \in Users /\ row.status # "absent"
  <2>1. CASE s.op = "redeem"
    BY <1>1, <2>1, NewRowFields DEF WellFormed, Busy, TypeInv
  <2>2. CASE s.op # "redeem"
    BY <1>1, <2>2, NewRowFields DEF Busy, TypeInv, ReferencesExist, Undone
  <2>3. QED
    BY <2>1, <2>2
<1>3. \A x \in Redemptions : redemption'[x] = IF x = r THEN row ELSE redemption[x]
  BY DEF TypeInv, TypeOK
<1>4. \A k \in Handlers : req'[k] = IF k = h THEN Idle ELSE req[k]
  BY DEF TypeInv, TypeOK
<1>5. TypeOK'
  BY <1>2, BlankTypes DEF TypeInv, TypeOK
<1>6. \A k \in Handlers : WellFormed(req[k])'
  BY <1>4, BlankTypes DEF TypeInv, ReferencesExist, WellFormed
<1>7. \A k \in Handlers :
        Busy(k)' /\ req'[k].op # "redeem" =>
          redemption'[req'[k].redemption].status # "absent"
  BY <1>2, <1>3, <1>4, BlankTypes DEF TypeInv, ReferencesExist, WellFormed, Busy
<1>8. \A x \in Redemptions :
        redemption'[x].status # "absent" => redemption'[x].user \in Users
  BY <1>2, <1>3 DEF TypeInv, ReferencesExist
<1>9. QED
  BY <1>5, <1>6, <1>7, <1>8 DEF TypeInv, ReferencesExist, WellFormed, Busy

LEMMA TypeStep ==
  ASSUME TypeInv, NEW h \in Handlers, Step(h) PROVE TypeInv'
<1> DEFINE s == req[h]
<1>0. /\ TypeOK
      /\ s \in HandlerState
      /\ s.row \in Row
      /\ WellFormed(s)
      /\ Busy(h) /\ s.op # "redeem" => redemption[s.redemption].status # "absent"
      /\ rowLock \in [Users -> Handlers \cup {None}]
      /\ [rowLock EXCEPT ![s.row.user] = None]
            \in [Users -> Handlers \cup {None}]
      /\ [rowLock EXCEPT ![s.row.user] = h]
            \in [Users -> Handlers \cup {None}]
  BY DEF TypeInv, TypeOK, HandlerState, ReferencesExist
<1>1. ASSUME NEW u \in Users, NEW g \in Gifticons, Redeem(h, u, g)
      PROVE  TypeInv'
  <2> DEFINE row == [status |-> "pending", user |-> u, gifticon |-> g,
                     pointsUsed |-> gifticon[g].price]
             s2 == [Idle EXCEPT !.pc = "checked", !.row = row]
  <2>1. row \in Row /\ row.user = u /\ row.status # "absent"
    <3>1. gifticon[g] \in Gifticon
      BY <1>0 DEF TypeOK
    <3>2. gifticon[g].price \in Nat
      <4>1. gifticon[g].price \in Prices \cup {0}
        BY <3>1 DEF Gifticon
      <4>2. \A p \in Prices \cup {0} : p \in Nat
        BY ConstantsAssumption
      <4>3. QED
        BY <4>1, <4>2
    <3>3. QED
      BY <3>2 DEF Row, Status
  <2>2. /\ s2 \in HandlerState /\ s2.op = "redeem" /\ s2.pc = "checked"
        /\ s2.row = row
    BY <2>1, BlankTypes DEF Idle, HandlerState
  <2>3. req' = [req EXCEPT ![h] = s2]
    BY <1>1 DEF Redeem
  <2> HIDE DEF s2
  <2>4. WellFormed(s2)
    BY <2>1, <2>2 DEF WellFormed
  <2>5. QED
    BY <1>0, <1>1, <2>2, <2>3, <2>4, OneHandler DEF Redeem
<1>2. ASSUME NEW op \in {"approve"} \cup Refunding, NEW r \in Redemptions,
             Begin(h, op, r)
      PROVE  TypeInv'
  <2> DEFINE s2 == [Idle EXCEPT !.pc = "checked", !.op = op, !.redemption = r,
                                !.row = redemption[r]]
  <2>1. redemption[r] \in Row
    BY <1>0 DEF TypeOK
  <2>2. /\ s2 \in HandlerState /\ s2.redemption = r /\ s2.pc = "checked"
        /\ s2.row = redemption[r]
    BY <2>1, BlankTypes DEF Idle, HandlerState
  <2>3. redemption[r].status # "absent" /\ redemption[r].user \in Users
    BY <1>2 DEF Begin, TypeInv, ReferencesExist
  <2>4. WellFormed(s2)
    BY <2>2, <2>3 DEF WellFormed
  <2>5. req' = [req EXCEPT ![h] = s2]
    BY <1>2 DEF Begin
  <2> HIDE DEF s2
  <2>6. QED
    BY <1>0, <1>2, <2>2, <2>3, <2>4, <2>5, OneHandler DEF Begin
<1>3. CASE Starts(h)
  BY <1>1, <1>2, <1>3 DEF Starts, CancelRedemption, RejectRedemption,
                          ApproveRedemption, Refunding
<1>4. CASE LockProfile(h)
  <2> DEFINE s2 == [s EXCEPT !.pc = "locked",
                      !.balance = ClampToZero(points[s.row.user] + Delta(h))]
  <2>1. points[s.row.user] + Delta(h) \in Int
    BY <1>0, <1>4, DeltaType DEF LockProfile, TypeOK, WellFormed
  <2>2. s2 \in HandlerState
    BY <1>0, <2>1, DeltaType DEF HandlerState
  <2>3. WellFormed(s2)
    BY <1>0, <1>4 DEF WellFormed, LockProfile, HandlerState
  <2>4. req' = [req EXCEPT ![h] = s2]
    BY <1>0, <1>4 DEF LockProfile, TypeOK
  <2>5. s2.op # "redeem" => redemption[s2.redemption].status # "absent"
    BY <1>0, <1>4 DEF LockProfile, Busy, HandlerState
  <2>6. QED
    BY <1>0, <1>4, <2>2, <2>3, <2>4, <2>5, OneHandler DEF LockProfile, catalogue
<1>5. CASE InsufficientPoints(h) \/ Abort(h)
  BY <1>0, <1>5, BlankTypes, OneHandler DEF InsufficientPoints, Abort, catalogue
<1>6. ASSUME NEW r \in Redemptions, InsertRedemption(h, r) PROVE TypeInv'
  <2> DEFINE s2 == [s EXCEPT !.pc = "written", !.redemption = r]
  <2>1. s2 \in HandlerState /\ s2.op = "redeem"
    BY <1>0, <1>6 DEF HandlerState, InsertRedemption
  <2>2. WellFormed(s2)
    BY <1>0, <1>6 DEF WellFormed, InsertRedemption, HandlerState
  <2>3. req' = [req EXCEPT ![h] = s2]
    BY <1>0, <1>6 DEF InsertRedemption, TypeOK
  <2>4. QED
    BY <1>0, <1>6, <2>1, <2>2, <2>3, OneHandler DEF InsertRedemption, catalogue
<1>7. CASE WriteDecision(h)
  <2> DEFINE s2 == [s EXCEPT !.pc = "written"]
  <2>1. s2 \in HandlerState
    BY <1>0 DEF HandlerState
  <2>2. WellFormed(s2) /\ redemption[s2.redemption].status # "absent"
    BY <1>0, <1>7 DEF WellFormed, WriteDecision, HandlerState, Busy, Refunding
  <2>3. req' = [req EXCEPT ![h] = s2]
    BY <1>0, <1>7 DEF WriteDecision, TypeOK
  <2>4. QED
    BY <1>0, <1>7, <2>1, <2>2, <2>3, OneHandler DEF WriteDecision, catalogue
<1>8. CASE UpdateDirectly(h)
  <2>1. Busy(h) /\ s.redemption \in Redemptions
    BY <1>0, <1>8 DEF UpdateDirectly, Busy, WellFormed
  <2>2. QED
    BY <1>0, <1>8, <2>1, OneWrite DEF UpdateDirectly, TypeOK
<1>9. CASE Commit(h)
  <2>1. Busy(h) /\ s.redemption \in Redemptions /\ s.row.user \in Users
    BY <1>0, <1>9 DEF Commit, Busy, WellFormed
  <2>2. LedgerEntry(h) \in Entry
    BY <1>0, <2>1, DeltaType DEF LedgerEntry, Entry, HandlerState
  <2>3. ledger' \in [Users -> Seq(Entry)]
    BY <1>0, <1>9, <2>1, <2>2 DEF Commit, TypeOK
  <2>4. points' \in [Users -> Nat]
    BY <1>0, <1>9 DEF Commit, TypeOK, HandlerState
  <2>5. QED
    BY <1>0, <1>9, <2>1, <2>3, <2>4, OneWrite DEF Commit
<1>10. QED
  BY <1>3, <1>4, <1>5, <1>6, <1>7, <1>8, <1>9 DEF Step, Continue

LEMMA CatalogueKeepsTypes ==
  ASSUME TypeInv, EditCatalogue PROVE TypeInv'
<1>1. UNCHANGED orders /\ gifticon' \in [Gifticons -> Gifticon]
  BY CatalogueStep DEF TypeInv
<1>2. QED
  BY <1>1 DEF orders, TypeInv, TypeOK, ReferencesExist, WellFormed, Busy

LEMMA TypingInit == Init => TypeInv
<1>1. << >> \in Seq(Entry)
  OBVIOUS
<1>2. NoRow.status = "absent"
  BY DEF NoRow
<1>3. QED
  BY <1>1, <1>2, BlankTypes, ConstantsAssumption
  DEF Init, TypeInv, TypeOK, ReferencesExist, Busy

LEMMA TypingStutter == TypeInv /\ UNCHANGED vars => TypeInv'
BY DEF TypeInv, TypeOK, ReferencesExist, WellFormed, Busy, vars

\* The type invariant: rows, ledgers and handlers keep their types, and
\* handlers in progress name users and redemptions that exist.
THEOREM Typing == Spec => []TypeOK
<1>1. TypeInv /\ [Next]_vars => TypeInv'
  BY TypingStutter, TypeStep, CatalogueKeepsTypes DEF Next, Step
<1>2. TypeInv => TypeOK
  BY DEF TypeInv
<1>3. QED
  BY TypingInit, <1>1, <1>2, PTL DEF Spec

-----------------------------------------------------------------------------
(* The ledger *)

LedgerInv == TypeInv /\ LockedBalance /\ LedgerChained

\* A quiet step leaves balances, ledgers and locks alone, and a handler that
\* is in its transaction afterwards was in it before, with the same balance.
LEMMA QuietStep ==
  ASSUME TypeInv, NEW h \in Handlers, Quiet(h)
  PROVE  /\ UNCHANGED <<points, ledger, rowLock>>
         /\ \A k \in Handlers :
              req'[k].pc \in {"locked", "written"} =>
                /\ req[k].pc \in {"locked", "written"}
                /\ req'[k].row = req[k].row
                /\ req'[k].op = req[k].op
                /\ req'[k].balance = req[k].balance
<1>0. req \in [Handlers -> HandlerState]
  BY DEF TypeInv, TypeOK
<1> DEFINE Kept == \A k \in Handlers :
              req'[k].pc \in {"locked", "written"} =>
                /\ req[k].pc \in {"locked", "written"}
                /\ req'[k].row = req[k].row
                /\ req'[k].op = req[k].op
                /\ req'[k].balance = req[k].balance
<1>1. CASE Starts(h)
  <2>1. /\ UNCHANGED <<points, ledger, rowLock>>
        /\ \E s : s.pc = "checked" /\ req' = [req EXCEPT ![h] = s]
    BY <1>1 DEF Starts, Redeem, CancelRedemption, RejectRedemption,
       ApproveRedemption, Begin, Idle
  <2>2. QED
    BY <1>0, <2>1
<1>2. CASE InsufficientPoints(h) \/ UpdateDirectly(h)
  BY <1>0, <1>2 DEF InsufficientPoints, UpdateDirectly, Idle, catalogue
<1>3. CASE WriteDecision(h)
  BY <1>0, <1>3 DEF WriteDecision, HandlerState, catalogue
<1>4. ASSUME NEW r \in Redemptions, InsertRedemption(h, r)
      PROVE  UNCHANGED <<points, ledger, rowLock>> /\ Kept
  BY <1>0, <1>4 DEF InsertRedemption, HandlerState, catalogue
<1>5. QED
  BY <1>1, <1>2, <1>3, <1>4 DEF Quiet

\* A row appended to a chained ledger continues the chain, if it starts from
\* the current balance.
LEMMA ChainGrows ==
  ASSUME TypeOK, LedgerChained, NEW u \in Users, NEW entry \in Entry,
         entry.balanceAfter = points[u] + entry.amount,
         points' = [points EXCEPT ![u] = entry.balanceAfter],
         ledger' = [ledger EXCEPT ![u] = Append(@, entry)]
  PROVE  LedgerChained'
<1> SUFFICES ASSUME NEW v \in Users
             PROVE  /\ points'[v] = CurrentBalance(v)'
                    /\ \A i \in 1..Len(ledger'[v]) :
                         ledger'[v][i].balanceAfter =
                           BalanceBefore(v, i)' + ledger'[v][i].amount
  BY DEF LedgerChained
<1>0. /\ points \in [Users -> Nat]
      /\ ledger \in [Users -> Seq(Entry)]
      /\ points[v] = CurrentBalance(v)
      /\ \A i \in 1..Len(ledger[v]) :
           ledger[v][i].balanceAfter = BalanceBefore(v, i) + ledger[v][i].amount
  BY DEF TypeOK, LedgerChained
<1>1. CASE v # u
  BY <1>0, <1>1 DEF CurrentBalance, BalanceBefore
<1>2. CASE v = u
  <2> DEFINE old == ledger[v]
             new == ledger'[v]
  <2>1. /\ new = Append(old, entry)
        /\ old \in Seq(Entry)
        /\ points'[v] = entry.balanceAfter
    BY <1>0, <1>2
  <2>2. /\ Len(new) = Len(old) + 1
        /\ Len(old) \in Nat
        /\ new[Len(old) + 1] = entry
        /\ \A i \in 1..Len(old) : new[i] = old[i]
        /\ new # << >>
    BY <2>1
  <2>3. points'[v] = CurrentBalance(v)'
    BY <2>1, <2>2 DEF CurrentBalance
  <2>4. \A i \in 1..(Len(old) + 1) :
          i = Len(old) + 1 => BalanceBefore(v, i)' = points[v]
    <3>1. CASE old = << >>
      BY <1>0, <2>2, <3>1 DEF BalanceBefore, CurrentBalance
    <3>2. CASE old # << >>
      <4>1. Len(old) \in 1..Len(old) /\ Len(old) + 1 # 1
        BY <2>1, <2>2, <3>2
      <4>2. QED
        BY <1>0, <2>2, <3>2, <4>1 DEF BalanceBefore, CurrentBalance
    <3>3. QED
      BY <3>1, <3>2
  <2>5. \A i \in 1..Len(old) : BalanceBefore(v, i)' = BalanceBefore(v, i)
    BY <2>2 DEF BalanceBefore
  <2>6. ASSUME NEW i \in 1..Len(new)
        PROVE  new[i].balanceAfter = BalanceBefore(v, i)' + new[i].amount
    <3>1. CASE i \in 1..Len(old)
      BY <1>0, <2>2, <2>5, <3>1
    <3>2. CASE i = Len(old) + 1
      BY <1>2, <2>2, <2>4, <3>2
    <3>3. QED
      BY <2>2, <3>1, <3>2
  <2>7. QED
    BY <2>3, <2>6
<1>3. QED
  BY <1>1, <1>2

LEMMA LedgerStep ==
  ASSUME LedgerInv, NEW h \in Handlers, Step(h) PROVE LedgerInv'
<1> DEFINE s == req[h]
           u == s.row.user
<1>0. /\ TypeInv /\ TypeInv'
      /\ req \in [Handlers -> HandlerState] /\ s \in HandlerState /\ s.row \in Row
      /\ rowLock \in [Users -> Handlers \cup {None}]
      /\ points \in [Users -> Nat]
      /\ None \notin Handlers
      /\ \A k \in Handlers : Busy(k) => req[k].row.user \in Users
      /\ WellFormed(s)
  BY TypeStep, ConstantsAssumption
  DEF LedgerInv, TypeInv, TypeOK, ReferencesExist, WellFormed, Busy, HandlerState
<1>1. CASE Quiet(h)
  <2>1. LockedBalance'
    BY <1>0, <1>1, QuietStep DEF LedgerInv, LockedBalance, Delta
  <2>2. LedgerChained'
    BY <1>0, <1>1, QuietStep
    DEF LedgerInv, LedgerChained, CurrentBalance, BalanceBefore
  <2>3. QED
    BY <1>0, <2>1, <2>2 DEF LedgerInv
<1>2. CASE LockProfile(h)
  <2>1. /\ UNCHANGED <<points, ledger>>
        /\ u \in Users /\ rowLock[u] = None
        /\ rowLock' = [rowLock EXCEPT ![u] = h]
        /\ \A k \in Handlers \ {h} : req'[k] = req[k]
        /\ req'[h].row = s.row /\ req'[h].op = s.op
        /\ req'[h].balance = ClampToZero(points[u] + Delta(h))
    BY <1>0, <1>2 DEF LockProfile, catalogue, HandlerState, Busy
  <2>2. points[u] + Delta(h) >= 0
    BY <1>0, <1>2, <2>1 DEF LockProfile, Delta, HandlerState, Row
  <2>3. req'[h].balance = points[u] + Delta(h)
    <3>1. points[u] + Delta(h) \in Int
      BY <1>0, <2>1, DeltaType DEF TypeInv
    <3>2. QED
      BY <2>1, <2>2, <3>1 DEF ClampToZero
  <2>4. \A k \in Handlers : Delta(k)' = Delta(k)
    BY <1>0, <2>1 DEF Delta
  <2>5. LockedBalance'
    BY <1>0, <2>1, <2>3, <2>4 DEF LedgerInv, LockedBalance
  <2>6. LedgerChained'
    BY <2>1 DEF LedgerInv, LedgerChained, CurrentBalance, BalanceBefore
  <2>7. QED
    BY <1>0, <2>5, <2>6 DEF LedgerInv
<1>3. ASSUME req' = [req EXCEPT ![h] = Idle],
             s.pc \in {"locked", "written"},
             rowLock' = [rowLock EXCEPT ![u] = None],
             \A v \in Users \ {u} : points'[v] = points[v]
      PROVE  LockedBalance'
  <2> SUFFICES ASSUME NEW k \in Handlers, req'[k].pc \in {"locked", "written"}
               PROVE  /\ rowLock'[req'[k].row.user] = k
                      /\ req'[k].balance = points'[req'[k].row.user] + Delta(k)'
    BY DEF LockedBalance
  <2>1. k # h /\ req'[k] = req[k]
    BY <1>0, <1>3, BlankTypes
  <2>2. req[k].row.user \in Users /\ rowLock[req[k].row.user] = k
    BY <1>0, <2>1 DEF LedgerInv, LockedBalance, Busy
  <2>3. u \in Users /\ rowLock[u] = h
    BY <1>0, <1>3 DEF LedgerInv, LockedBalance, Busy
  <2>4. req[k].row.user # u
    BY <2>1, <2>2, <2>3
  <2>5. QED
    BY <1>0, <1>3, <2>1, <2>2, <2>4 DEF LedgerInv, LockedBalance, Delta
<1>4. CASE Abort(h)
  <2>1. LockedBalance'
    BY <1>3, <1>4 DEF Abort, catalogue
  <2>2. LedgerChained'
    BY <1>4 DEF Abort, catalogue, LedgerInv, LedgerChained, CurrentBalance,
                BalanceBefore
  <2>3. QED
    BY <1>0, <2>1, <2>2 DEF LedgerInv
<1>5. CASE Commit(h)
  <2>1. /\ s.pc = "written" /\ u \in Users
        /\ s.balance = points[u] + Delta(h)
        /\ s.redemption \in Redemptions
    BY <1>0, <1>5 DEF Commit, LedgerInv, LockedBalance, WellFormed
  <2>2. LockedBalance'
    BY <1>0, <1>3, <1>5 DEF Commit
  <2>3. LedgerEntry(h) \in Entry
    BY <1>0, <2>1, DeltaType DEF LedgerEntry, Entry, HandlerState, TypeInv
  <2>4. LedgerChained'
    BY <1>0, <1>5, <2>1, <2>3, ChainGrows
    DEF Commit, LedgerEntry, LedgerInv, TypeInv
  <2>5. QED
    BY <1>0, <2>2, <2>4 DEF LedgerInv
<1>6. QED
  BY <1>1, <1>2, <1>4, <1>5 DEF Step, Continue, Quiet

LEMMA CatalogueKeepsLedger ==
  ASSUME LedgerInv, EditCatalogue PROVE LedgerInv'
<1>1. UNCHANGED orders /\ TypeInv'
  BY CatalogueStep, CatalogueKeepsTypes DEF LedgerInv, TypeInv
<1>2. QED
  BY <1>1 DEF orders, LedgerInv, LockedBalance, LedgerChained, CurrentBalance,
              BalanceBefore, Delta

LEMMA LedgerInit == Init => LedgerInv
<1>1. Init => LockedBalance /\ LedgerChained
  BY ConstantsAssumption
  DEF Init, Idle, LockedBalance, LedgerChained, CurrentBalance
<1>2. QED
  BY TypingInit, <1>1 DEF LedgerInv

LEMMA LedgerStutter == LedgerInv /\ UNCHANGED vars => LedgerInv'
BY TypingStutter DEF LedgerInv, LockedBalance, LedgerChained, CurrentBalance,
   BalanceBefore, Delta, vars

\* However redemptions, refunds and edits of the catalogue interleave, the
\* ledger of every user is a chain that ends in the points the profile shows.
THEOREM LedgerIsAChain == Spec => []LedgerChained
<1>1. LedgerInv /\ [Next]_vars => LedgerInv'
  BY LedgerStutter, LedgerStep, CatalogueKeepsLedger DEF Next, Step
<1>2. LedgerInv => LedgerChained
  BY DEF LedgerInv
<1>3. QED
  BY LedgerInit, <1>1, <1>2, PTL DEF Spec

-----------------------------------------------------------------------------
(* What was paid *)

\* A ledger that grows by one row keeps the rows it has.
LEMMA LedgerGrows ==
  ASSUME ledger \in [Users -> Seq(Entry)], NEW u \in Users, NEW entry \in Entry,
         ledger' = [ledger EXCEPT ![u] = Append(@, entry)]
  PROVE  /\ \A v \in Users : \A i \in 1..Len(ledger[v]) :
              i \in 1..Len(ledger'[v]) /\ ledger'[v][i] = ledger[v][i]
         /\ Len(ledger[u]) \in Nat
         /\ Len(ledger'[u]) = Len(ledger[u]) + 1
         /\ ledger'[u][Len(ledger[u]) + 1] = entry
         /\ \A v \in Users \ {u} : ledger'[v] = ledger[v]
<1> DEFINE old == ledger[u]
           new == ledger'[u]
<1>1. old \in Seq(Entry) /\ new = Append(old, entry)
  OBVIOUS
<1>2. /\ Len(new) = Len(old) + 1
      /\ Len(old) \in Nat
      /\ new[Len(old) + 1] = entry
      /\ \A i \in 1..Len(old) : new[i] = old[i]
  BY <1>1
<1>3. \A v \in Users \ {u} : ledger'[v] = ledger[v]
  OBVIOUS
<1>4. \A i \in 1..Len(old) : i \in 1..Len(new)
  BY <1>2
<1>5. QED
  BY <1>2, <1>3, <1>4

\* What a handler's write does to the rows of redemptions.
LEMMA WriteEffect ==
  ASSUME TypeInv, NEW h \in Handlers, Commit(h) \/ UpdateDirectly(h)
  PROVE  LET s == req[h]
             r == s.redemption
         IN  /\ Busy(h) /\ r \in Redemptions /\ s.row.user \in Users
             /\ s.op = "redeem" => s.pc = "written"
             /\ redemption[r] \in Row
             /\ redemption'[r] = NewRow(h, redemption[r])
             /\ \A x \in Redemptions \ {r} : redemption'[x] = redemption[x]
             /\ req'[h] = Idle
             /\ s.op # "redeem" => redemption[r].status # "absent"
BY DEF Commit, UpdateDirectly, TypeInv, TypeOK, ReferencesExist, WellFormed,
       Busy, HandlerState

LEMMA OnlyWritesChangeRows ==
  ASSUME NEW h \in Handlers, Step(h), ~Commit(h), ~UpdateDirectly(h)
  PROVE  UNCHANGED redemption
BY DEF Step, Starts, Redeem, CancelRedemption, RejectRedemption,
   ApproveRedemption, Begin, Continue, LockProfile, InsufficientPoints,
   InsertRedemption, WriteDecision, Abort, catalogue

LEMMA OnlyCommitsWriteLedgers ==
  ASSUME NEW h \in Handlers, Step(h), ~Commit(h)
  PROVE  UNCHANGED <<points, ledger>>
BY DEF Step, Starts, Redeem, CancelRedemption, RejectRedemption,
   ApproveRedemption, Begin, Continue, LockProfile, InsufficientPoints,
   InsertRedemption, WriteDecision, UpdateDirectly, Abort, catalogue

\* A redemption that exists keeps its user and what was paid.
LEMMA DealsStay ==
  ASSUME TypeInv, NewIdsAreOwn, NEW h \in Handlers, Step(h)
  PROVE  \A r \in Redemptions :
           redemption[r].status # "absent" =>
             /\ redemption'[r].status # "absent"
             /\ redemption'[r].user = redemption[r].user
             /\ redemption'[r].pointsUsed = redemption[r].pointsUsed
<1>1. CASE Commit(h) \/ UpdateDirectly(h)
  <2> SUFFICES ASSUME NEW r \in Redemptions, redemption[r].status # "absent"
               PROVE  /\ redemption'[r].status # "absent"
                      /\ redemption'[r].user = redemption[r].user
                      /\ redemption'[r].pointsUsed = redemption[r].pointsUsed
    OBVIOUS
  <2>1. CASE r # req[h].redemption
    BY <1>1, <2>1, WriteEffect
  <2>2. CASE r = req[h].redemption
    <3>1. req[h].op # "redeem"
      BY <1>1, <2>2, WriteEffect DEF NewIdsAreOwn
    <3>2. QED
      BY <1>1, <2>2, <3>1, WriteEffect, NewRowFields DEF TypeInv, Undone
  <2>3. QED
    BY <2>1, <2>2
<1>2. CASE ~(Commit(h) \/ UpdateDirectly(h))
  BY <1>2, OnlyWritesChangeRows
<1>3. QED
  BY <1>1, <1>2

LEMMA CopiesStep ==
  ASSUME TypeInv, NewIdsAreOwn, CopiesKeepTheDeal, NEW h \in Handlers, Step(h)
  PROVE  NewIdsAreOwn' /\ CopiesKeepTheDeal'
<1> DEFINE s == req[h]
<1>0. /\ TypeInv' /\ TypeOK
      /\ req \in [Handlers -> HandlerState] /\ s \in HandlerState
      /\ None \notin Redemptions
      /\ \A k \in Handlers \ {h} : req'[k] = req[k]
      /\ \A k \in Handlers : Busy(k) /\ req[k].op # "redeem" =>
           /\ req[k].redemption \in Redemptions
           /\ redemption[req[k].redemption].status # "absent"
  BY OthersUntouched, TypeStep, ConstantsAssumption
  DEF TypeInv, TypeOK, ReferencesExist, WellFormed, Busy
<1>1. \A k \in Handlers \ {h} :
        Busy(k)' /\ req'[k].op # "redeem" =>
          /\ req'[k].row.user = redemption'[req'[k].redemption].user
          /\ req'[k].row.pointsUsed =
               redemption'[req'[k].redemption].pointsUsed
  BY <1>0, DealsStay DEF CopiesKeepTheDeal, Busy
\* A handler that goes on with the redemption and the row it has.
<1>2. ASSUME req'[h].redemption = s.redemption, req'[h].row = s.row,
             req'[h].op = s.op, Busy(h)' => Busy(h),
             req'[h].pc = "written" /\ s.op = "redeem" => s.pc = "written",
             UNCHANGED redemption
      PROVE  NewIdsAreOwn' /\ CopiesKeepTheDeal'
  <2>1. NewIdsAreOwn'
    BY <1>0, <1>2 DEF NewIdsAreOwn
  <2>2. CopiesKeepTheDeal'
    BY <1>0, <1>1, <1>2 DEF CopiesKeepTheDeal, Busy
  <2>3. QED
    BY <2>1, <2>2
\* A handler that ends, or starts to redeem.
<1>3. ASSUME req'[h].redemption = None, req'[h].op = "redeem",
             req'[h].pc # "written",
             \A k \in Handlers \ {h} :
               req[k].pc = "written" /\ req[k].op = "redeem" =>
                 redemption'[req[k].redemption] = redemption[req[k].redemption]
      PROVE  NewIdsAreOwn' /\ CopiesKeepTheDeal'
  <2>1. NewIdsAreOwn'
    <3> SUFFICES ASSUME NEW k \in Handlers, req'[k].pc = "written",
                        req'[k].op = "redeem"
                 PROVE  /\ redemption'[req'[k].redemption].status = "absent"
                        /\ \A g \in Handlers \ {k} :
                             req'[g].redemption # req'[k].redemption
      BY DEF NewIdsAreOwn
    <3>1. k # h /\ req'[k] = req[k]
      BY <1>0, <1>3
    <3>2. req[k].redemption \in Redemptions
      BY <1>0, <3>1 DEF TypeInv, ReferencesExist, WellFormed
    <3>3. QED
      BY <1>0, <1>3, <3>1, <3>2 DEF NewIdsAreOwn
  <2>2. CopiesKeepTheDeal'
    BY <1>0, <1>1, <1>3 DEF CopiesKeepTheDeal
  <2>3. QED
    BY <2>1, <2>2
<1>4. ASSUME NEW u \in Users, NEW g \in Gifticons, Redeem(h, u, g)
      PROVE  NewIdsAreOwn' /\ CopiesKeepTheDeal'
  <2>1. /\ req'[h].redemption = None /\ req'[h].op = "redeem"
        /\ req'[h].pc = "checked" /\ UNCHANGED redemption
    BY <1>0, <1>4 DEF Redeem, Idle
  <2>2. QED
    BY <1>3, <2>1
<1>5. ASSUME NEW op \in {"approve"} \cup Refunding, NEW r \in Redemptions,
             Begin(h, op, r)
      PROVE  NewIdsAreOwn' /\ CopiesKeepTheDeal'
  <2>1. /\ req'[h].op = op /\ op # "redeem"
        /\ req'[h].redemption = r
        /\ req'[h].row = redemption[r]
        /\ redemption[r].status = "pending"
        /\ UNCHANGED redemption
    BY <1>0, <1>5 DEF Begin, Idle, Refunding
  <2>2. NewIdsAreOwn'
    BY <1>0, <2>1 DEF NewIdsAreOwn
  <2>3. CopiesKeepTheDeal'
    BY <1>0, <1>1, <2>1 DEF CopiesKeepTheDeal
  <2>4. QED
    BY <2>2, <2>3
<1>6. CASE Starts(h)
  BY <1>4, <1>5, <1>6 DEF Starts, CancelRedemption, RejectRedemption,
                          ApproveRedemption, Refunding
<1>7. CASE InsufficientPoints(h) \/ Abort(h)
  <2>1. /\ req'[h] = Idle /\ UNCHANGED redemption
    BY <1>0, <1>7 DEF InsufficientPoints, Abort, catalogue
  <2>2. QED
    BY <1>3, <2>1, BlankTypes
<1>8. CASE LockProfile(h)
  BY <1>0, <1>2, <1>8 DEF LockProfile, HandlerState, Busy, catalogue
<1>9. CASE WriteDecision(h)
  BY <1>0, <1>2, <1>9 DEF WriteDecision, HandlerState, Busy, Refunding, catalogue
<1>10. ASSUME NEW r \in Redemptions, InsertRedemption(h, r)
       PROVE  NewIdsAreOwn' /\ CopiesKeepTheDeal'
  <2>1. /\ UNCHANGED redemption
        /\ req'[h].op = "redeem" /\ req'[h].redemption = r
        /\ redemption[r].status = "absent"
        /\ \A k \in Handlers : req[k].redemption # r
    BY <1>0, <1>10 DEF InsertRedemption, HandlerState, catalogue
  <2>2. NewIdsAreOwn'
    BY <1>0, <2>1 DEF NewIdsAreOwn
  <2>3. CopiesKeepTheDeal'
    BY <1>0, <1>1, <2>1 DEF CopiesKeepTheDeal
  <2>4. QED
    BY <2>2, <2>3
<1>11. CASE UpdateDirectly(h) \/ Commit(h)
  <2>1. /\ s.redemption \in Redemptions /\ req'[h] = Idle
        /\ \A x \in Redemptions \ {s.redemption} : redemption'[x] = redemption[x]
    BY <1>11, WriteEffect
  <2>2. ASSUME NEW k \in Handlers \ {h}, req[k].pc = "written",
               req[k].op = "redeem"
        PROVE  redemption'[req[k].redemption] = redemption[req[k].redemption]
    <3>1. req[k].redemption # s.redemption
      BY <2>2 DEF NewIdsAreOwn
    <3>2. req[k].redemption \in Redemptions
      BY <2>2 DEF TypeInv, ReferencesExist, WellFormed
    <3>3. QED
      BY <2>1, <3>1, <3>2
  <2>3. QED
    BY <1>3, <2>1, <2>2, BlankTypes
<1>12. QED
  BY <1>6, <1>7, <1>8, <1>9, <1>10, <1>11 DEF Step, Continue

LEMMA HistoryStep ==
  ASSUME TypeInv, HistoryInv, NEW h \in Handlers, Step(h)
  PROVE  HistoryInv'
<1>0. /\ TypeOK
      /\ ledger \in [Users -> Seq(Entry)]
      /\ \A r \in Redemptions : redemption[r].status # "absent" =>
           /\ redemption[r].user \in Users
           /\ redemption'[r].status # "absent"
           /\ redemption'[r].user = redemption[r].user
           /\ redemption'[r].pointsUsed = redemption[r].pointsUsed
  BY DealsStay DEF HistoryInv, TypeInv, TypeOK, ReferencesExist
<1>1. NewIdsAreOwn' /\ CopiesKeepTheDeal'
  BY CopiesStep DEF HistoryInv
<1>2. CASE ~Commit(h)
  <2>1. UNCHANGED ledger
    BY <1>2, OnlyCommitsWriteLedgers
  <2>2. \A r \in Redemptions : redemption'[r].status # "absent" =>
                                 redemption[r].status # "absent"
    <3>1. CASE UpdateDirectly(h)
      <4>1. req[h].op # "redeem"
        BY <3>1 DEF UpdateDirectly
      <4>2. QED
        BY <3>1, <4>1, WriteEffect
    <3>2. CASE ~UpdateDirectly(h)
      BY <1>2, <3>2, OnlyWritesChangeRows
    <3>3. QED
      BY <3>1, <3>2
  <2>3. SpendsOnRecord'
    BY <1>0, <2>1, <2>2 DEF HistoryInv, SpendsOnRecord
  <2>4. RefundIsWhatWasPaid'
    BY <2>1 DEF HistoryInv, RefundIsWhatWasPaid
  <2>5. QED
    BY <1>1, <2>3, <2>4 DEF HistoryInv
<1>3. CASE Commit(h)
  <2> DEFINE s == req[h]
             u == s.row.user
             r == s.redemption
             entry == LedgerEntry(h)
             n == Len(ledger[u]) + 1
  <2>1. /\ u \in Users /\ r \in Redemptions /\ Busy(h)
        /\ s \in HandlerState /\ s.row \in Row /\ redemption[r] \in Row
        /\ redemption'[r] = NewRow(h, redemption[r])
        /\ \A x \in Redemptions \ {r} : redemption'[x] = redemption[x]
        /\ ledger' = [ledger EXCEPT ![u] = Append(@, entry)]
    BY <1>3, WriteEffect DEF Commit, TypeInv, TypeOK, HandlerState
  <2>2. entry \in Entry
    BY <1>0, <2>1, DeltaType DEF LedgerEntry, Entry, HandlerState
  <2>3. /\ \A v \in Users : \A i \in 1..Len(ledger[v]) :
             i \in 1..Len(ledger'[v]) /\ ledger'[v][i] = ledger[v][i]
        /\ Len(ledger[u]) \in Nat
        /\ Len(ledger'[u]) = n
        /\ ledger'[u][n] = entry
        /\ n \in 1..Len(ledger'[u])
        /\ \A v \in Users \ {u} : ledger'[v] = ledger[v]
    BY <1>0, <2>1, <2>2, LedgerGrows
  <2>4. /\ entry.redemption = r
        /\ entry.type = IF s.op = "redeem" THEN "spend" ELSE "refund"
        /\ entry.amount =
             IF s.op = "redeem" THEN -s.row.pointsUsed ELSE s.row.pointsUsed
    BY DEF LedgerEntry, Delta
  <2>5. s.op # "redeem" =>
          /\ redemption[r].status # "absent"
          /\ u = redemption[r].user
          /\ s.row.pointsUsed = redemption[r].pointsUsed
    BY <1>3, <2>1, WriteEffect DEF HistoryInv, CopiesKeepTheDeal
  <2>6. s.op = "redeem" => redemption'[r] = s.row
    BY <1>0, <2>1, NewRowFields
  <2> HIDE DEF entry
  <2>7. RefundIsWhatWasPaid'
    <3> SUFFICES ASSUME NEW v \in Users, NEW i \in 1..Len(ledger'[v]),
                        ledger'[v][i].type = "refund"
                 PROVE  \E j \in 1..(i - 1) :
                          /\ ledger'[v][j].type = "spend"
                          /\ ledger'[v][j].redemption = ledger'[v][i].redemption
                          /\ ledger'[v][j].amount = -ledger'[v][i].amount
      BY DEF RefundIsWhatWasPaid
    <3>1. CASE i \in 1..Len(ledger[v])
      <4>1. PICK j \in 1..(i - 1) :
              /\ ledger[v][j].type = "spend"
              /\ ledger[v][j].redemption = ledger[v][i].redemption
              /\ ledger[v][j].amount = -ledger[v][i].amount
        BY <2>3, <3>1 DEF HistoryInv, RefundIsWhatWasPaid
      <4>2. j \in 1..Len(ledger[v])
        BY <1>0, <3>1
      <4>3. QED
        BY <2>3, <3>1, <4>1, <4>2
    <3>2. CASE i \notin 1..Len(ledger[v])
      <4>1. v = u /\ i = n
        BY <1>0, <2>3, <3>2
      <4>2. s.op # "redeem"
        BY <2>3, <2>4, <4>1
      <4>3. PICK j \in 1..Len(ledger[u]) :
              /\ ledger[u][j].redemption = r
              /\ ledger[u][j].type = "spend"
              /\ ledger[u][j].amount = -redemption[r].pointsUsed
        BY <2>1, <2>5, <4>2 DEF HistoryInv, SpendsOnRecord
      <4>4. ledger'[u][j] = ledger[u][j] /\ j \in 1..(n - 1)
        BY <2>1, <2>3
      <4>5. entry.redemption = r /\ entry.amount = redemption[r].pointsUsed
        BY <2>4, <2>5, <4>2
      <4>6. QED
        BY <2>3, <4>1, <4>3, <4>4, <4>5
    <3>3. QED
      BY <3>1, <3>2
  <2>8. SpendsOnRecord'
    <3> SUFFICES ASSUME NEW x \in Redemptions, redemption'[x].status # "absent"
                 PROVE  \E i \in 1..Len(ledger'[redemption'[x].user]) :
                   /\ ledger'[redemption'[x].user][i].redemption = x
                   /\ ledger'[redemption'[x].user][i].type = "spend"
                   /\ ledger'[redemption'[x].user][i].amount =
                        -redemption'[x].pointsUsed
      BY DEF SpendsOnRecord
    <3>1. CASE redemption[x].status # "absent"
      <4>1. PICK i \in 1..Len(ledger[redemption[x].user]) :
                   /\ ledger[redemption[x].user][i].redemption = x
                   /\ ledger[redemption[x].user][i].type = "spend"
                   /\ ledger[redemption[x].user][i].amount =
                        -redemption[x].pointsUsed
        BY <3>1 DEF HistoryInv, SpendsOnRecord
      <4>2. QED
        BY <1>0, <2>3, <3>1, <4>1
    <3>2. CASE redemption[x].status = "absent"
      <4>1. x = r /\ s.op = "redeem"
        BY <2>1, <2>5, <3>2
      <4>2. redemption'[x].user = u /\ redemption'[x].pointsUsed = s.row.pointsUsed
        BY <2>6, <4>1
      <4>3. QED
        BY <2>3, <2>4, <4>1, <4>2
    <3>3. QED
      BY <3>1, <3>2
  <2>9. QED
    BY <1>1, <2>7, <2>8 DEF HistoryInv
<1>4. QED
  BY <1>2, <1>3

LEMMA CatalogueKeepsHistory ==
  ASSUME TypeInv, HistoryInv, EditCatalogue PROVE HistoryInv'
<1>1. UNCHANGED orders
  BY CatalogueStep DEF TypeInv
<1>2. QED
  BY <1>1 DEF orders, HistoryInv, NewIdsAreOwn, CopiesKeepTheDeal,
              SpendsOnRecord, RefundIsWhatWasPaid, Busy

LEMMA HistoryInit == Init => HistoryInv
BY DEF Init, Idle, NoRow, HistoryInv, NewIdsAreOwn, CopiesKeepTheDeal,
   SpendsOnRecord, RefundIsWhatWasPaid, Busy

LEMMA HistoryStutter == HistoryInv /\ UNCHANGED vars => HistoryInv'
BY DEF HistoryInv, NewIdsAreOwn, CopiesKeepTheDeal, SpendsOnRecord,
   RefundIsWhatWasPaid, Busy, vars

\* Whatever admins make of the price in between, and even when decisions on one
\* redemption overlap, a refund gives back what that redemption took.
THEOREM RefundsAreWhatWasPaid == Spec => []RefundIsWhatWasPaid
<1> DEFINE Inv == TypeInv /\ HistoryInv
<1>1. Init => Inv
  BY TypingInit, HistoryInit
<1>2. Inv /\ [Next]_vars => Inv'
  BY TypingStutter, TypeStep, CatalogueKeepsTypes, HistoryStutter, HistoryStep,
     CatalogueKeepsHistory DEF Next, Step
<1>3. Inv => RefundIsWhatWasPaid
  BY DEF HistoryInv
<1>4. QED
  BY <1>1, <1>2, <1>3, PTL DEF Spec

-----------------------------------------------------------------------------
(* The contract, when decisions on one redemption do not overlap            *)

\* A step that reads and writes no redemption, and after which h has the
\* redemption and the row it had, or has ended.
LEMMA SameWork ==
  ASSUME TypeInv, SerialInv, NEW h \in Handlers,
         \A k \in Handlers \ {h} : req'[k] = req[k],
         UNCHANGED redemption,
         \/ req'[h] = Idle
         \/ /\ req'[h].redemption = req[h].redemption
            /\ req'[h].op = req[h].op
            /\ req'[h].row = req[h].row
            /\ Busy(h)
            /\ req'[h].op = "redeem" => req'[h].pc # "written"
  PROVE  SerialInv'
<1>1. NobodyElseDecides'
  BY BlankTypes DEF SerialInv, NobodyElseDecides, Busy
<1>2. QED
  BY <1>1 DEF SerialInv, AbsentIsEmpty

LEMMA SerialStep ==
  ASSUME Overlap = FALSE, TypeInv, SerialInv, NEW h \in Handlers, Step(h)
  PROVE  SerialInv'
<1> DEFINE s == req[h]
<1>0. /\ TypeOK
      /\ req \in [Handlers -> HandlerState] /\ s \in HandlerState
      /\ redemption \in [Redemptions -> Row]
      /\ \A k \in Handlers \ {h} : req'[k] = req[k]
      /\ None \notin Redemptions
      /\ WellFormed(s)
  BY OthersUntouched, ConstantsAssumption DEF TypeInv, TypeOK, ReferencesExist
<1>1. ASSUME NEW u \in Users, NEW g \in Gifticons, Redeem(h, u, g)
      PROVE  SerialInv'
  <2>1. gifticon[g].price \in Prices \cup {0}
    BY <1>0 DEF TypeOK, Gifticon
  <2>2. /\ req'[h].pc = "checked" /\ req'[h].op = "redeem"
        /\ req'[h].redemption = None
        /\ req'[h].row.status = "pending"
        /\ req'[h].row.pointsUsed = gifticon[g].price
        /\ UNCHANGED redemption
    BY <1>0, <1>1 DEF Redeem, Idle
  <2>3. NobodyElseDecides'
    BY <1>0, <2>1, <2>2 DEF SerialInv, NobodyElseDecides, Busy
  <2>4. QED
    BY <2>2, <2>3 DEF SerialInv, AbsentIsEmpty
<1>2. ASSUME NEW op \in {"approve"} \cup Refunding, NEW r \in Redemptions,
             Begin(h, op, r)
      PROVE  SerialInv'
  <2>1. /\ req'[h].op = op /\ op # "redeem"
        /\ req'[h].redemption = r
        /\ req'[h].row = redemption[r]
        /\ redemption[r].status = "pending"
        /\ \A k \in Handlers : req[k].redemption # r
        /\ UNCHANGED redemption
    BY <1>0, <1>2 DEF Begin, Idle, Refunding
  <2>2. NobodyElseDecides'
    BY <1>0, <2>1 DEF SerialInv, NobodyElseDecides, Busy
  <2>3. QED
    BY <2>1, <2>2 DEF SerialInv, AbsentIsEmpty
<1>3. CASE Starts(h)
  BY <1>1, <1>2, <1>3 DEF Starts, CancelRedemption, RejectRedemption,
                          ApproveRedemption, Refunding
<1>4. CASE LockProfile(h)
  BY <1>0, <1>4, SameWork DEF LockProfile, catalogue, HandlerState, Busy
<1>5. CASE InsufficientPoints(h) \/ Abort(h)
  BY <1>0, <1>5, SameWork DEF InsufficientPoints, Abort, catalogue
<1>6. CASE WriteDecision(h)
  BY <1>0, <1>6, SameWork
  DEF WriteDecision, catalogue, HandlerState, Refunding, Busy
<1>7. ASSUME NEW r \in Redemptions, InsertRedemption(h, r) PROVE SerialInv'
  <2>1. /\ UNCHANGED redemption /\ Busy(h)
        /\ s.op = "redeem" /\ req'[h].op = "redeem"
        /\ req'[h].row = s.row /\ req'[h].redemption = r
        /\ redemption[r].status = "absent"
        /\ \A k \in Handlers : req[k].redemption # r
    BY <1>0, <1>7 DEF InsertRedemption, catalogue, HandlerState, Busy
  <2>2. NobodyElseDecides'
    BY <1>0, <2>1 DEF SerialInv, NobodyElseDecides, Busy
  <2>3. QED
    BY <2>1, <2>2 DEF SerialInv, AbsentIsEmpty
<1>8. CASE UpdateDirectly(h) \/ Commit(h)
  <2> DEFINE r == s.redemption
  <2>1. /\ Busy(h) /\ r \in Redemptions
        /\ redemption[r] \in Row
        /\ redemption'[r] = NewRow(h, redemption[r])
        /\ \A x \in Redemptions \ {r} : redemption'[x] = redemption[x]
        /\ req'[h] = Idle
    BY <1>8, WriteEffect
  <2>2. redemption'[r].status # "absent"
    <3>1. CASE s.op = "redeem"
      BY <1>0, <2>1, <3>1, NewRowFields DEF SerialInv, NobodyElseDecides
    <3>2. CASE s.op # "redeem"
      BY <1>0, <2>1, <3>2, NewRowFields DEF Undone
    <3>3. QED
      BY <3>1, <3>2
  <2>3. \A k \in Handlers \ {h} : req[k].redemption # r
    BY <1>0, <2>1 DEF SerialInv, NobodyElseDecides
  <2>4. \A k \in Handlers \ {h} :
          Busy(k) /\ (req[k].op # "redeem" \/ req[k].pc = "written") =>
            redemption'[req[k].redemption] = redemption[req[k].redemption]
    BY <2>1, <2>3 DEF TypeInv, ReferencesExist, WellFormed, Busy
  <2>5. NobodyElseDecides'
    BY <1>0, <2>1, <2>4, BlankTypes DEF SerialInv, NobodyElseDecides, Busy
  <2>6. AbsentIsEmpty'
    BY <2>1, <2>2 DEF SerialInv, AbsentIsEmpty
  <2>7. QED
    BY <2>5, <2>6 DEF SerialInv
<1>9. QED
  BY <1>3, <1>4, <1>5, <1>6, <1>7, <1>8 DEF Step, Continue

LEMMA DealStates ==
  /\ DealState("absent") = "none"
  /\ DealState("pending") = "open"
  /\ DealState("completed") = "completed"
  /\ \A st \in Undone : DealState(st) = "undone"
BY DEF DealState, Undone

\* A handler's write changes the deal of its own redemption only.
LEMMA DealsAfterWrite ==
  ASSUME TypeInv, NEW h \in Handlers, req[h].redemption \in Redemptions,
         redemption' = [redemption EXCEPT ![req[h].redemption] = NewRow(h, @)]
  PROVE  LET r == req[h].redemption
             row == NewRow(h, redemption[r])
         IN  Deals' = [Deals EXCEPT ![r] =
               [state |-> DealState(row.status), user |-> row.user,
                amount |-> row.pointsUsed]]
BY DEF Deals, TypeInv, TypeOK

LEMMA ApprovalIsContract ==
  ASSUME TypeInv, SerialInv, NEW h \in Handlers, UpdateDirectly(h)
  PROVE  Contract!ContractNext
<1> DEFINE s == req[h]
           r == s.redemption
           row == NewRow(h, redemption[r])
<1>1. /\ Busy(h) /\ r \in Redemptions /\ s.op = "approve"
      /\ redemption[r] \in Row /\ redemption[r].status = "pending"
      /\ UNCHANGED points
      /\ redemption' = [redemption EXCEPT ![r] = NewRow(h, @)]
  BY WriteEffect DEF UpdateDirectly, SerialInv, NobodyElseDecides
<1>2. /\ row.status = "completed"
      /\ row.user = redemption[r].user
      /\ row.pointsUsed = redemption[r].pointsUsed
  BY <1>1, NewRowFields DEF TypeInv
<1>3. Deals[r] = [state |-> "open", user |-> redemption[r].user,
                  amount |-> redemption[r].pointsUsed]
  BY <1>1, DealStates DEF Deals
<1>4. Deals' = [Deals EXCEPT ![r].state = "completed"]
  <2>1. [Deals[r] EXCEPT !.state = "completed"] =
          [state |-> "completed", user |-> redemption[r].user,
           amount |-> redemption[r].pointsUsed]
    BY <1>3
  <2>2. Deals' = [Deals EXCEPT ![r] =
          [state |-> DealState(row.status), user |-> row.user,
           amount |-> row.pointsUsed]]
    BY <1>1, DealsAfterWrite
  <2>3. DealState(row.status) = "completed"
    BY <1>2, DealStates
  <2>4. QED
    BY <1>2, <2>1, <2>2, <2>3
<1>5. Contract!Complete(r)
  BY <1>1, <1>3, <1>4 DEF Contract!Complete
<1>6. QED
  BY <1>1, <1>5 DEF Contract!ContractNext

LEMMA CommitIsContract ==
  ASSUME LedgerInv, SerialInv, NEW h \in Handlers, Commit(h)
  PROVE  Contract!ContractNext
<1> DEFINE s == req[h]
           u == s.row.user
           a == s.row.pointsUsed
           r == s.redemption
           row == NewRow(h, redemption[r])
<1>1. /\ s \in HandlerState /\ s.row \in Row /\ s.pc = "written"
      /\ Busy(h) /\ r \in Redemptions /\ u \in Users
      /\ redemption[r] \in Row
      /\ points \in [Users -> Nat]
      /\ s.balance \in Nat /\ s.balance = points[u] + Delta(h)
      /\ points' = [points EXCEPT ![u] = s.balance]
      /\ redemption' = [redemption EXCEPT ![r] = NewRow(h, @)]
  BY WriteEffect
  DEF Commit, LedgerInv, LockedBalance, TypeInv, TypeOK, HandlerState
<1>2. Deals' = [Deals EXCEPT ![r] =
        [state |-> DealState(row.status), user |-> row.user,
         amount |-> row.pointsUsed]]
  BY <1>1, DealsAfterWrite DEF LedgerInv
<1>3. CASE s.op = "redeem"
  <2>1. /\ row = s.row /\ s.row.status = "pending" /\ a \in Prices \cup {0}
        /\ redemption[r] = NoRow
    BY <1>1, <1>3, NewRowFields
    DEF SerialInv, NobodyElseDecides, AbsentIsEmpty, LedgerInv, TypeInv
  <2>2. Deals[r] = Contract!NoDeal
    <3>1. Deals[r] = [state |-> DealState("absent"), user |-> None, amount |-> 0]
      BY <1>1, <2>1 DEF Deals, NoRow
    <3>2. QED
      BY <3>1, DealStates DEF Contract!NoDeal
  <2>3. Deals' = [Deals EXCEPT ![r] =
                    [state |-> "open", user |-> u, amount |-> a]]
    BY <1>2, <2>1, DealStates
  <2>4. s.balance = points[u] - a /\ a \in Nat
    BY <1>1, <1>3 DEF Delta, Row
  <2>5. points[u] >= a /\ points' = [points EXCEPT ![u] = @ - a]
    <3>1. points[u] \in Nat /\ points[u] - a \in Nat
      BY <1>1, <2>4
    <3>2. points[u] >= a
      BY <2>4, <3>1
    <3>3. QED
      BY <1>1, <2>4, <3>2
  <2>6. Contract!Ask(u, r, a)
    BY <1>1, <2>2, <2>3, <2>5 DEF Contract!Ask
  <2>7. QED
    BY <1>1, <2>1, <2>6 DEF Contract!ContractNext
<1>4. CASE s.op # "redeem"
  <2>1. redemption[r] = s.row /\ s.row.status = "pending"
    BY <1>1, <1>4 DEF SerialInv, NobodyElseDecides
  <2>2. s.op # "approve"
    BY <1>1 DEF LedgerInv, TypeInv, ReferencesExist, WellFormed
  <2>3. row.status \in Undone /\ row.user = u /\ row.pointsUsed = a
    BY <1>1, <1>4, <2>1, <2>2, NewRowFields DEF LedgerInv, TypeInv
  <2>4. Deals[r] = [state |-> "open", user |-> u, amount |-> a]
    BY <1>1, <2>1, DealStates DEF Deals
  <2>5. Deals' = [Deals EXCEPT ![r].state = "undone"]
    <3>1. DealState(row.status) = "undone"
      BY <2>3, DealStates
    <3>2. [Deals[r] EXCEPT !.state = "undone"] =
            [state |-> "undone", user |-> u, amount |-> a]
      BY <2>4
    <3>3. QED
      BY <1>2, <2>3, <3>1, <3>2
  <2>6. points' = [points EXCEPT ![Deals[r].user] = @ + Deals[r].amount]
    BY <1>1, <1>4, <2>4 DEF Delta
  <2>7. Contract!Undo(r)
    BY <2>4, <2>5, <2>6 DEF Contract!Undo
  <2>8. QED
    BY <1>1, <2>7 DEF Contract!ContractNext
<1>5. QED
  BY <1>3, <1>4

\* When decisions on one redemption do not overlap, every behaviour of handlers
\* and admins is one of the contract: a redemption takes its price once, and it
\* comes back once or never, whatever the catalogue does.
THEOREM RedemptionRefines ==
  ASSUME Overlap = FALSE PROVE Spec => ImplementsContract
<1> DEFINE Inv == LedgerInv /\ SerialInv
<1>1. Init => Inv /\ Contract!ContractInit
  <2> SUFFICES ASSUME Init PROVE Inv /\ Contract!ContractInit
    OBVIOUS
  <2>1. LedgerInv
    BY LedgerInit
  <2>2. SerialInv
    BY DEF Init, Idle, SerialInv, NobodyElseDecides, AbsentIsEmpty, Busy
  <2>3. Deals = [r \in Redemptions |-> Contract!NoDeal]
    BY DealStates DEF Init, Deals, NoRow, Contract!NoDeal
  <2>4. QED
    BY <2>1, <2>2, <2>3 DEF Init, Contract!ContractInit
<1>2. Inv /\ [Next]_vars => Inv' /\ [Contract!ContractNext]_(Contract!contractVars)
  <2> SUFFICES ASSUME Inv, [Next]_vars
               PROVE  Inv' /\ [Contract!ContractNext]_(Contract!contractVars)
    OBVIOUS
  <2>1. ASSUME UNCHANGED orders, LedgerInv'
        PROVE  Inv' /\ UNCHANGED Contract!contractVars
    <3>1. SerialInv'
      BY <2>1 DEF SerialInv, NobodyElseDecides, AbsentIsEmpty, Busy, orders
    <3>2. UNCHANGED Contract!contractVars
      BY <2>1 DEF Contract!contractVars, Deals, orders
    <3>3. QED
      BY <2>1, <3>1, <3>2
  <2>2. CASE UNCHANGED vars
    <3>1. UNCHANGED orders /\ LedgerInv'
      BY <2>2, LedgerStutter DEF vars, orders
    <3>2. QED
      BY <2>1, <3>1
  <2>3. CASE EditCatalogue
    <3>1. UNCHANGED orders /\ LedgerInv'
      BY <2>3, CatalogueStep, CatalogueKeepsLedger DEF LedgerInv, TypeInv
    <3>2. QED
      BY <2>1, <3>1
  <2>4. ASSUME NEW h \in Handlers, Step(h)
        PROVE  Inv' /\ [Contract!ContractNext]_(Contract!contractVars)
    <3>1. Inv'
      BY <2>4, LedgerStep, SerialStep DEF LedgerInv
    <3>2. CASE Commit(h)
      BY <3>1, <3>2, CommitIsContract
    <3>3. CASE UpdateDirectly(h)
      BY <3>1, <3>3, ApprovalIsContract DEF LedgerInv
    <3>4. CASE ~Commit(h) /\ ~UpdateDirectly(h)
      <4>1. UNCHANGED <<points, redemption>>
        BY <2>4, <3>4, OnlyWritesChangeRows, OnlyCommitsWriteLedgers
      <4>2. UNCHANGED Contract!contractVars
        BY <4>1 DEF Contract!contractVars, Deals
      <4>3. QED
        BY <3>1, <4>2
    <3>5. QED
      BY <3>2, <3>3, <3>4
  <2>5. QED
    BY <2>2, <2>3, <2>4 DEF Next, Step
<1>3. QED
  BY <1>1, <1>2, PTL DEF Spec, ImplementsContract, Contract!ContractSpec
=============================================================================
