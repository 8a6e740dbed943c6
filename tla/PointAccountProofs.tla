------------------------ MODULE PointAccountProofs ------------------------
(* Theorems about PointAccount, for every value of its constants. *)
EXTENDS PointAccount, TLAPS

-----------------------------------------------------------------------------
(* The inductive invariants *)

\* Who holds the lock: a locking writer from its read on, anyone from its
\* UPDATE on; and what a locking writer has read still stands.
LockInv ==
  /\ \A w \in Writers : Working(w) /\ work[w].op \in Locking =>
       rowLock = w /\ work[w].seen = points
  /\ \A w \in Writers : work[w].pc = "written" /\ work[w].dirty => rowLock = w

OnRecord(rows, n) ==
  \/ n = InitialPoints
  \/ \E i \in 1..Len(rows) : rows[i].balanceAfter = n

\* What writers have seen is on record, and so is what a removal will save.
RecordInv ==
  /\ OnRecord(ledger, points)
  /\ \A w \in Writers : Working(w) => OnRecord(ledger, work[w].seen)
  /\ \A w \in Writers : Working(w) /\ work[w].op = "remove" /\ work[w].pc # "read"
       => OnRecord(ledger, NewBalance(work[w]))

Chained ==
  \A i \in 1..Len(ledger) :
    ledger[i].balanceAfter = BalanceBefore(i) + ledger[i].amount

\* A removal whose ledger row is there and whose balance is not saved yet.
Ahead(w) == Working(w) /\ work[w].op = "remove" /\ work[w].pc # "read"

AloneInv ==
  clean =>
    /\ Chained
    /\ \A v, w \in Writers : Working(v) /\ Working(w) => v = w
    /\ (\A w \in Writers : ~Ahead(w)) => points = CurrentBalance
    /\ \A w \in Writers : Working(w) => work[w].seen = points
    /\ \A w \in Writers : Ahead(w) => CurrentBalance = NewBalance(work[w])
    /\ \A w \in Writers :
         work[w].pc \in {"compared", "written"} /\ ~work[w].dirty =>
           NewBalance(work[w]) = points

-----------------------------------------------------------------------------
(* Types *)

LEMMA BalanceType ==
  ASSUME NEW k \in Work
  PROVE  NewBalance(k) \in Nat /\ EntryOf(k) \in Entry
<1>1. k.seen \in Nat /\ k.amount \in Nat
      /\ k.op \in {"spend", "refund", "earn", "charge", "fine", "adjust",
                   "award", "remove", "touch"}
  BY DEF Work, Locking, Unlocked, Rewarding
<1>2. \A n \in Int : ClampToZero(n) \in Nat
  BY DEF ClampToZero
<1>3. NewBalance(k) \in Nat
  BY <1>1, <1>2 DEF NewBalance
<1>4. QED
  BY <1>1, <1>3 DEF EntryOf, Entry

LEMMA Appended ==
  ASSUME NEW l \in Seq(Entry), NEW e \in Entry
  PROVE  /\ Append(l, e) \in Seq(Entry)
         /\ Len(Append(l, e)) = Len(l) + 1
         /\ Len(l) \in Nat
         /\ Append(l, e)[Len(l) + 1] = e
         /\ \A i \in 1..Len(l) : Append(l, e)[i] = l[i]
         /\ Append(l, e) # << >>
OBVIOUS

\* A writer that starts, whichever way it reads.
LEMMA Started ==
  ASSUME TypeOK, NEW w \in Writers, NEW op \in Locking \cup Unlocked, NEW a \in Nat,
         Starts(w, op), work' = [work EXCEPT ![w] = Begun(op, a)]
  PROVE  /\ work' \in [Writers -> Work]
         /\ clean' \in BOOLEAN
         /\ work'[w] = Begun(op, a)
         /\ \A v \in Writers \ {w} : work'[v] = work[v]
<1>1. /\ points \in Nat /\ work \in [Writers -> Work] /\ clean \in BOOLEAN
  BY DEF TypeOK
<1>2. Begun(op, a) \in Work
  BY <1>1 DEF Begun, Work
<1>3. clean' \in BOOLEAN
  BY <1>1 DEF Starts
<1>4. QED
  BY <1>1, <1>2, <1>3

\* A writer at rest, after it committed or broke off.
LEMMA Rested ==
  ASSUME TypeOK, NEW w \in Writers, work' = [work EXCEPT ![w] = Idle]
  PROVE  /\ work' \in [Writers -> Work]
         /\ work'[w] = Idle
         /\ ~Working(w)'
         /\ \A v \in Writers \ {w} : work'[v] = work[v]
<1>1. work \in [Writers -> Work]
  BY DEF TypeOK
<1>2. Idle \in Work
  BY DEF Idle, Work, Unlocked
<1>3. QED
  BY <1>1, <1>2 DEF Working, Idle

\* A writer on its way: only its pc, and perhaps its dirty flag, change.
LEMMA MovedOn ==
  ASSUME TypeOK, NEW w \in Writers,
         NEW pc \in {"recorded", "compared", "written"}, NEW dirty \in BOOLEAN,
         \/ work' = [work EXCEPT ![w].dirty = dirty, ![w].pc = pc]
         \/ work' = [work EXCEPT ![w].pc = pc] /\ dirty = work[w].dirty
  PROVE  /\ work' \in [Writers -> Work]
         /\ work'[w].pc = pc /\ work'[w].dirty = dirty
         /\ work'[w].op = work[w].op
         /\ work'[w].seen = work[w].seen
         /\ NewBalance(work'[w]) = NewBalance(work[w])
         /\ \A v \in Writers \ {w} : work'[v] = work[v]
<1>1. work \in [Writers -> Work]
  BY DEF TypeOK
<1>2. work[w] \in Work
  BY <1>1
<1> DEFINE k == [work[w] EXCEPT !.pc = pc, !.dirty = dirty]
<1>3. /\ k \in Work
      /\ k.pc = pc /\ k.dirty = dirty
      /\ k.op = work[w].op /\ k.seen = work[w].seen /\ k.amount = work[w].amount
  BY <1>2 DEF Work
<1>4. work' = [work EXCEPT ![w] = k]
  <2>1. CASE work' = [work EXCEPT ![w].dirty = dirty, ![w].pc = pc]
    BY <1>1, <1>2, <2>1 DEF Work
  <2>2. CASE work' = [work EXCEPT ![w].pc = pc] /\ dirty = work[w].dirty
    BY <1>1, <1>2, <2>2 DEF Work
  <2>3. QED
    BY <2>1, <2>2
<1> HIDE DEF k
<1>5. /\ work' \in [Writers -> Work]
      /\ work'[w] = k
      /\ \A v \in Writers \ {w} : work'[v] = work[v]
  BY <1>1, <1>3, <1>4
<1>6. NewBalance(k) = NewBalance(work[w])
  BY <1>3 DEF NewBalance
<1>7. QED
  BY <1>3, <1>5, <1>6

\* The steps that leave the balance alone, between the read and the commit.
MidStep(w) == RecordRemoval(w) \/ Compare(w) \/ Update(w)

LEMMA Midway ==
  ASSUME TypeOK, NEW w \in Writers, MidStep(w)
  PROVE  /\ work' \in [Writers -> Work]
         /\ points' = points /\ clean' = clean
         /\ Working(w) /\ Working(w)'
         /\ work'[w].pc # "read"
         /\ work'[w].op = work[w].op
         /\ work'[w].seen = work[w].seen
         /\ NewBalance(work'[w]) = NewBalance(work[w])
         /\ EntryOf(work'[w]) = EntryOf(work[w])
         /\ \A v \in Writers \ {w} : work'[v] = work[v]
<1>1. work[w] \in Work
  BY DEF TypeOK
<1>2. points' = points /\ clean' = clean /\ Working(w)
  BY DEF MidStep, RecordRemoval, Compare, Update, Working
<1>3. \E pc \in {"recorded", "compared", "written"}, dirty \in BOOLEAN :
        \/ work' = [work EXCEPT ![w].dirty = dirty, ![w].pc = pc]
        \/ work' = [work EXCEPT ![w].pc = pc] /\ dirty = work[w].dirty
  <2>1. CASE RecordRemoval(w)
    BY <1>1, <2>1 DEF RecordRemoval, Work
  <2>2. CASE Compare(w)
    <3> DEFINE dirty == ~SkipsSave(work[w]) /\ NewBalance(work[w]) # points
               pc == IF dirty \/ work[w].op = "touch" THEN "compared" ELSE "written"
    <3>1. pc \in {"recorded", "compared", "written"} /\ dirty \in BOOLEAN
      OBVIOUS
    <3>2. work' = [work EXCEPT ![w].dirty = dirty, ![w].pc = pc]
      BY <2>2 DEF Compare
    <3> HIDE DEF dirty, pc
    <3>3. QED
      BY <3>1, <3>2
  <2>3. CASE Update(w)
    BY <1>1, <2>3 DEF Update, Work
  <2>4. QED
    BY <2>1, <2>2, <2>3 DEF MidStep
<1>4. PICK pc \in {"recorded", "compared", "written"}, dirty \in BOOLEAN :
        \/ work' = [work EXCEPT ![w].dirty = dirty, ![w].pc = pc]
        \/ work' = [work EXCEPT ![w].pc = pc] /\ dirty = work[w].dirty
  BY <1>3
<1>5. /\ work' \in [Writers -> Work]
      /\ work'[w].pc = pc
      /\ work'[w].op = work[w].op
      /\ work'[w].seen = work[w].seen
      /\ NewBalance(work'[w]) = NewBalance(work[w])
      /\ \A v \in Writers \ {w} : work'[v] = work[v]
  BY <1>4, MovedOn
<1>6. EntryOf(work'[w]) = EntryOf(work[w])
  BY <1>5 DEF EntryOf
<1>7. QED
  BY <1>2, <1>4, <1>5, <1>6 DEF Working

\* The steps of Next, without the bound on the length of the ledger.
LEMMA Steps ==
  ASSUME Next
  PROVE  \E w \in Writers :
           \/ \E op \in Locking, a \in Nat : ReadUnderLock(w, op, a)
           \/ \E op \in Unlocked, a \in Nat : Read(w, op, a)
           \/ MidStep(w)
           \/ Commit(w)
           \/ Abort(w)
<1>1. /\ Rewarding \cup {"adjust", "award", "remove", "touch"} \subseteq Unlocked
      /\ 0 \in Nat /\ Amounts \subseteq Nat
  BY ConstantsAssumption DEF Unlocked
<1>2. QED
  BY <1>1 DEF Next, MidStep, RewardPoints, UpdateUser, AssignBadge, RemoveBadge,
              SyncUserIps

LEMMA TypingStep == TypeOK /\ Next => TypeOK'
<1> SUFFICES ASSUME TypeOK, Next
             PROVE  TypeOK'
  OBVIOUS
<1>1. PICK w \in Writers :
        \/ \E op \in Locking, a \in Nat : ReadUnderLock(w, op, a)
        \/ \E op \in Unlocked, a \in Nat : Read(w, op, a)
        \/ MidStep(w)
        \/ Commit(w)
        \/ Abort(w)
  BY Steps
<1>2. /\ points \in Nat /\ ledger \in Seq(Entry)
      /\ rowLock \in Writers \cup {None}
      /\ work \in [Writers -> Work] /\ clean \in BOOLEAN
      /\ work[w] \in Work
  BY DEF TypeOK
<1>3. EntryOf(work[w]) \in Entry /\ NewBalance(work[w]) \in Nat
  BY <1>2, BalanceType
<1>4. Append(ledger, EntryOf(work[w])) \in Seq(Entry)
  BY <1>2, <1>3
<1>5. ASSUME NEW op \in Locking, NEW a \in Nat, ReadUnderLock(w, op, a)
      PROVE  TypeOK'
  <2>1. work' \in [Writers -> Work] /\ clean' \in BOOLEAN
    BY <1>5, Started DEF ReadUnderLock
  <2>2. QED
    BY <1>2, <1>5, <2>1 DEF ReadUnderLock, TypeOK
<1>6. ASSUME NEW op \in Unlocked, NEW a \in Nat, Read(w, op, a)
      PROVE  TypeOK'
  <2>1. work' \in [Writers -> Work] /\ clean' \in BOOLEAN
    BY <1>6, Started DEF Read
  <2>2. QED
    BY <1>2, <1>6, <2>1 DEF Read, TypeOK
<1>7. CASE MidStep(w)
  <2>1. /\ ledger' \in {ledger, Append(ledger, EntryOf(work[w]))}
        /\ rowLock' \in {rowLock, w}
    BY <1>7 DEF MidStep, RecordRemoval, Compare, Update
  <2>2. /\ work' \in [Writers -> Work] /\ points' = points /\ clean' = clean
    BY <1>7, Midway
  <2>3. QED
    BY <1>2, <1>4, <2>1, <2>2 DEF TypeOK
<1>8. CASE Commit(w)
  <2>1. work' \in [Writers -> Work]
    BY <1>8, Rested DEF Commit
  <2>2. QED
    BY <1>2, <1>3, <1>4, <1>8, <2>1 DEF Commit, Release, TypeOK
<1>9. CASE Abort(w)
  <2>1. work' \in [Writers -> Work]
    BY <1>9, Rested DEF Abort
  <2>2. QED
    BY <1>2, <1>9, <2>1 DEF Abort, Release, TypeOK
<1>10. QED
  BY <1>1, <1>5, <1>6, <1>7, <1>8, <1>9

\* Type correctness, and so no negative balance, for any number of writers.
THEOREM Typing == Spec => []TypeOK
<1>1. Init => TypeOK
  <2>1. Idle \in Work
    BY DEF Idle, Work, Unlocked
  <2>2. QED
    BY <2>1, ConstantsAssumption DEF Init, TypeOK
<1>2. TypeOK /\ [Next]_vars => TypeOK'
  <2>1. TypeOK /\ UNCHANGED vars => TypeOK'
    BY DEF TypeOK, vars
  <2>2. QED
    BY <2>1, TypingStep
<1>3. QED
  BY <1>1, <1>2, PTL DEF Spec

-----------------------------------------------------------------------------
(* A locked read stays fresh *)

LEMMA LockStep == TypeOK /\ LockInv /\ Next => LockInv'
<1> SUFFICES ASSUME TypeOK, LockInv, Next
             PROVE  LockInv'
  OBVIOUS
<1>1. PICK w \in Writers :
        \/ \E op \in Locking, a \in Nat : ReadUnderLock(w, op, a)
        \/ \E op \in Unlocked, a \in Nat : Read(w, op, a)
        \/ MidStep(w)
        \/ Commit(w)
        \/ Abort(w)
  BY Steps
<1>2. None \notin Writers
  BY ConstantsAssumption
<1>3. ASSUME NEW op \in Locking, NEW a \in Nat, ReadUnderLock(w, op, a)
      PROVE  LockInv'
  <2>1. /\ work'[w] = Begun(op, a)
        /\ \A v \in Writers \ {w} : work'[v] = work[v]
    BY <1>3, Started DEF ReadUnderLock
  <2>2. rowLock = None /\ rowLock' = w /\ points' = points
    BY <1>3 DEF ReadUnderLock
  <2>3. work'[w].pc = "read" /\ work'[w].seen = points
    BY <2>1 DEF Begun
  <2>4. QED
    BY <1>2, <2>1, <2>2, <2>3 DEF LockInv, Working
<1>4. ASSUME NEW op \in Unlocked, NEW a \in Nat, Read(w, op, a)
      PROVE  LockInv'
  <2>1. /\ work'[w] = Begun(op, a)
        /\ \A v \in Writers \ {w} : work'[v] = work[v]
    BY <1>4, Started DEF Read
  <2>2. rowLock' = rowLock /\ points' = points
    BY <1>4 DEF Read
  <2>3. work'[w].pc = "read" /\ work'[w].op \notin Locking
    BY <2>1 DEF Begun, Locking, Unlocked, Rewarding
  <2>4. QED
    BY <2>1, <2>2, <2>3 DEF LockInv, Working
<1>5. CASE MidStep(w)
  <2>1. /\ points' = points
        /\ work'[w].op = work[w].op /\ work'[w].seen = work[w].seen
        /\ Working(w)
        /\ \A v \in Writers \ {w} : work'[v] = work[v]
    BY <1>5, Midway
  <2>2. rowLock' = rowLock \/ (rowLock \in {None, w} /\ rowLock' = w)
    BY <1>5 DEF MidStep, RecordRemoval, Compare, Update
  <2>3. work'[w].pc = "written" /\ work'[w].dirty => rowLock' = w
    <3>1. work[w] \in Work /\ work \in [Writers -> Work]
      BY DEF TypeOK
    <3>2. CASE RecordRemoval(w)
      BY <3>1, <3>2 DEF RecordRemoval, Work
    <3>3. CASE Compare(w)
      BY <3>1, <3>3 DEF Compare, Work
    <3>4. CASE Update(w)
      BY <3>4 DEF Update
    <3>5. QED
      BY <1>5, <3>2, <3>3, <3>4 DEF MidStep
  <2>4. QED
    BY <1>2, <2>1, <2>2, <2>3 DEF LockInv, Working
<1>6. CASE Commit(w)
  <2>1. /\ ~Working(w)'
        /\ work'[w] = Idle
        /\ \A v \in Writers \ {w} : work'[v] = work[v]
    BY <1>6, Rested DEF Commit
  <2>2. /\ work[w].pc = "written"
        /\ rowLock' = IF rowLock = w THEN None ELSE rowLock
        /\ ~work[w].dirty => points' = points
    BY <1>6 DEF Commit, Release
  <2>3. ASSUME NEW v \in Writers \ {w}, Working(v), work[v].op \in Locking
        PROVE  rowLock' = v /\ work[v].seen = points'
    <3>1. rowLock = v /\ work[v].seen = points
      BY <2>3 DEF LockInv
    <3>2. ~work[w].dirty
      BY <2>2, <2>3, <3>1 DEF LockInv
    <3>3. QED
      BY <2>2, <2>3, <3>1, <3>2
  <2>4. QED
    BY <2>1, <2>2, <2>3 DEF LockInv, Working, Idle
<1>7. CASE Abort(w)
  <2>1. /\ ~Working(w)'
        /\ work'[w] = Idle
        /\ \A v \in Writers \ {w} : work'[v] = work[v]
    BY <1>7, Rested DEF Abort
  <2>2. /\ rowLock' = IF rowLock = w THEN None ELSE rowLock
        /\ points' = points
    BY <1>7 DEF Abort, Release
  <2>3. QED
    BY <2>1, <2>2 DEF LockInv, Working, Idle
<1>8. QED
  BY <1>1, <1>3, <1>4, <1>5, <1>6, <1>7

\* For any number of writers, with and without locks: what a spend or a refund
\* has read under the lock is the balance until it commits.
THEOREM LockedReads == Spec => []LockedReadIsFresh
<1>1. Init => LockInv
  BY DEF Init, LockInv, Working, Idle
<1>2. TypeOK /\ LockInv /\ [Next]_vars => LockInv'
  <2>1. LockInv /\ UNCHANGED vars => LockInv'
    BY DEF LockInv, Working, vars
  <2>2. QED
    BY <2>1, LockStep
<1>3. LockInv => LockedReadIsFresh
  BY DEF LockInv, LockedReadIsFresh
<1>4. QED
  BY <1>1, <1>2, <1>3, Typing, PTL DEF Spec

-----------------------------------------------------------------------------
(* Every balance is on record *)

LEMMA RecordsStay ==
  ASSUME TypeOK, NEW e \in Entry, ledger' \in {ledger, Append(ledger, e)}
  PROVE  \A n \in Nat : OnRecord(ledger, n) => OnRecord(ledger', n)
<1>1. ledger \in Seq(Entry)
  BY DEF TypeOK
<1>2. CASE ledger' = ledger
  BY <1>2 DEF OnRecord
<1>3. CASE ledger' = Append(ledger, e)
  <2>1. /\ Len(ledger') = Len(ledger) + 1 /\ Len(ledger) \in Nat
        /\ \A i \in 1..Len(ledger) : ledger'[i] = ledger[i]
    BY <1>1, <1>3, Appended
  <2>2. QED
    BY <2>1 DEF OnRecord
<1>4. QED
  BY <1>2, <1>3

LEMMA RecordAdded ==
  ASSUME TypeOK, NEW e \in Entry, ledger' = Append(ledger, e)
  PROVE  OnRecord(ledger', e.balanceAfter)
<1>1. ledger \in Seq(Entry)
  BY DEF TypeOK
<1>2. /\ Len(ledger') = Len(ledger) + 1 /\ Len(ledger) \in Nat
      /\ ledger'[Len(ledger) + 1] = e
  BY <1>1, Appended
<1>3. Len(ledger) + 1 \in 1..Len(ledger')
  BY <1>2
<1>4. QED
  BY <1>2, <1>3 DEF OnRecord

\* A balance for which no ledger row is written is the one that was seen.
LEMMA UnrecordedIsSeen ==
  ASSUME NEW k \in Work, ~Records(k)
  PROVE  NewBalance(k) = k.seen
BY DEF Records, NewBalance, Work

LEMMA RecordStep == TypeOK /\ RecordInv /\ Next => RecordInv'
<1> SUFFICES ASSUME TypeOK, RecordInv, Next
             PROVE  RecordInv'
  OBVIOUS
<1>1. PICK w \in Writers :
        \/ \E op \in Locking, a \in Nat : ReadUnderLock(w, op, a)
        \/ \E op \in Unlocked, a \in Nat : Read(w, op, a)
        \/ MidStep(w)
        \/ Commit(w)
        \/ Abort(w)
  BY Steps
<1>2. /\ points \in Nat /\ work \in [Writers -> Work] /\ work[w] \in Work
      /\ EntryOf(work[w]) \in Entry /\ NewBalance(work[w]) \in Nat
      /\ EntryOf(work[w]).balanceAfter = NewBalance(work[w])
      /\ \A v \in Writers : work[v].seen \in Nat /\ NewBalance(work[v]) \in Nat
  <2>1. points \in Nat /\ work \in [Writers -> Work]
    BY DEF TypeOK
  <2>2. \A v \in Writers : work[v] \in Work /\ work[v].seen \in Nat
    BY <2>1 DEF Work
  <2>3. QED
    BY <2>1, <2>2, BalanceType DEF EntryOf
<1>3. ASSUME NEW op, NEW a, work'[w] = Begun(op, a),
             \A v \in Writers \ {w} : work'[v] = work[v],
             points' = points, ledger' = ledger
      PROVE  RecordInv'
  <2>1. work'[w].pc = "read" /\ work'[w].seen = points
    BY <1>3 DEF Begun
  <2>2. \A n : OnRecord(ledger', n) <=> OnRecord(ledger, n)
    BY <1>3 DEF OnRecord
  <2>3. QED
    BY <1>3, <2>1, <2>2 DEF RecordInv, Working
<1>4. ASSUME NEW op \in Locking, NEW a \in Nat, ReadUnderLock(w, op, a)
      PROVE  RecordInv'
  <2>1. /\ work'[w] = Begun(op, a)
        /\ \A v \in Writers \ {w} : work'[v] = work[v]
    BY <1>4, Started DEF ReadUnderLock
  <2>2. QED
    BY <1>3, <1>4, <2>1 DEF ReadUnderLock
<1>5. ASSUME NEW op \in Unlocked, NEW a \in Nat, Read(w, op, a)
      PROVE  RecordInv'
  <2>1. /\ work'[w] = Begun(op, a)
        /\ \A v \in Writers \ {w} : work'[v] = work[v]
    BY <1>5, Started DEF Read
  <2>2. QED
    BY <1>3, <1>5, <2>1 DEF Read
<1>6. CASE MidStep(w)
  <2>1. /\ points' = points
        /\ Working(w) /\ Working(w)'
        /\ work'[w].op = work[w].op /\ work'[w].seen = work[w].seen
        /\ NewBalance(work'[w]) = NewBalance(work[w])
        /\ \A v \in Writers \ {w} : work'[v] = work[v]
    BY <1>6, Midway
  <2>2. ledger' \in {ledger, Append(ledger, EntryOf(work[w]))}
    BY <1>6 DEF MidStep, RecordRemoval, Compare, Update
  <2>3. \A n \in Nat : OnRecord(ledger, n) => OnRecord(ledger', n)
    BY <1>2, <2>2, RecordsStay
  <2>4. work[w].op = "remove" => OnRecord(ledger', NewBalance(work[w]))
    <3>1. CASE RecordRemoval(w)
      <4>1. ledger' = Append(ledger, EntryOf(work[w]))
        BY <3>1 DEF RecordRemoval
      <4>2. OnRecord(ledger', EntryOf(work[w]).balanceAfter)
        BY <1>2, <4>1, RecordAdded
      <4>3. QED
        BY <1>2, <2>1, <4>2 DEF OnRecord
    <3>2. CASE Compare(w) \/ Update(w)
      <4>1. work[w].op = "remove" => work[w].pc # "read"
        BY <3>2 DEF Compare, Update
      <4>2. QED
        BY <1>2, <2>1, <2>3, <4>1 DEF RecordInv
    <3>3. QED
      BY <1>6, <3>1, <3>2 DEF MidStep
  <2>5. QED
    BY <1>2, <2>1, <2>3, <2>4 DEF RecordInv, Working
<1>7. CASE Commit(w)
  <2>1. /\ ~Working(w)'
        /\ \A v \in Writers \ {w} : work'[v] = work[v]
    BY <1>7, Rested DEF Commit
  <2>2. /\ work[w].pc = "written"
        /\ points' \in {points, NewBalance(work[w])}
        /\ ledger' = IF Records(work[w]) /\ work[w].op # "remove"
                     THEN Append(ledger, EntryOf(work[w])) ELSE ledger
    BY <1>7 DEF Commit
  <2>3. \A n \in Nat : OnRecord(ledger, n) => OnRecord(ledger', n)
    BY <1>2, <2>2, RecordsStay
  <2>4. OnRecord(ledger', NewBalance(work[w]))
    <3>1. CASE Records(work[w]) /\ work[w].op # "remove"
      BY <1>2, <2>2, <3>1, RecordAdded
    <3>2. CASE work[w].op = "remove"
      BY <1>2, <2>2, <2>3, <3>2 DEF RecordInv, Working
    <3>3. CASE ~Records(work[w])
      <4>1. NewBalance(work[w]) = work[w].seen
        BY <1>2, <3>3, UnrecordedIsSeen
      <4>2. OnRecord(ledger, work[w].seen)
        BY <2>2 DEF RecordInv, Working
      <4>3. QED
        BY <1>2, <2>3, <4>1, <4>2
    <3>4. QED
      BY <3>1, <3>2, <3>3
  <2>5. OnRecord(ledger', points')
    BY <1>2, <2>2, <2>3, <2>4 DEF RecordInv
  <2>6. QED
    BY <1>2, <2>1, <2>3, <2>5 DEF RecordInv, Working
<1>8. CASE Abort(w)
  <2>1. /\ ~Working(w)'
        /\ \A v \in Writers \ {w} : work'[v] = work[v]
    BY <1>8, Rested DEF Abort
  <2>2. points' = points /\ ledger' = ledger
    BY <1>8 DEF Abort
  <2>3. QED
    BY <2>1, <2>2 DEF RecordInv, OnRecord, Working
<1>9. QED
  BY <1>1, <1>4, <1>5, <1>6, <1>7, <1>8

\* A stale save can bring an old balance back, never one that no ledger row has.
THEOREM OnlyRecordedBalances == Spec => []BalanceIsOnRecord
<1>1. Init => RecordInv
  BY DEF Init, RecordInv, OnRecord, Working, Idle
<1>2. TypeOK /\ RecordInv /\ [Next]_vars => RecordInv'
  <2>1. RecordInv /\ UNCHANGED vars => RecordInv'
    BY DEF RecordInv, OnRecord, Working, vars
  <2>2. QED
    BY <2>1, RecordStep
<1>3. RecordInv => BalanceIsOnRecord
  BY DEF RecordInv, OnRecord, BalanceIsOnRecord
<1>4. QED
  BY <1>1, <1>2, <1>3, Typing, PTL DEF Spec

-----------------------------------------------------------------------------
(* Writers one after the other *)

\* A ledger row that starts from the current balance keeps the chain.
LEMMA ChainGrows ==
  ASSUME TypeOK, Chained, NEW e \in Entry,
         e.balanceAfter = CurrentBalance + e.amount,
         ledger' = Append(ledger, e)
  PROVE  Chained' /\ CurrentBalance' = e.balanceAfter
<1>1. ledger \in Seq(Entry)
  BY DEF TypeOK
<1>2. /\ Len(ledger') = Len(ledger) + 1 /\ Len(ledger) \in Nat
      /\ ledger'[Len(ledger) + 1] = e
      /\ \A i \in 1..Len(ledger) : ledger'[i] = ledger[i]
      /\ ledger' # << >>
  BY <1>1, Appended
<1>3. CurrentBalance' = e.balanceAfter
  BY <1>2 DEF CurrentBalance
<1>4. \A i \in 1..(Len(ledger) + 1) :
        i = Len(ledger) + 1 => BalanceBefore(i)' = CurrentBalance
  <2>1. CASE ledger = << >>
    BY <1>2, <2>1 DEF BalanceBefore, CurrentBalance
  <2>2. CASE ledger # << >>
    <3>1. Len(ledger) \in 1..Len(ledger) /\ Len(ledger) + 1 # 1
      BY <1>1, <1>2, <2>2
    <3>2. QED
      BY <1>2, <2>2, <3>1 DEF BalanceBefore, CurrentBalance
  <2>3. QED
    BY <2>1, <2>2
<1>5. \A i \in 1..Len(ledger) : BalanceBefore(i)' = BalanceBefore(i)
  BY <1>2 DEF BalanceBefore
<1>6. ASSUME NEW i \in 1..Len(ledger')
      PROVE  ledger'[i].balanceAfter = BalanceBefore(i)' + ledger'[i].amount
  <2>1. CASE i \in 1..Len(ledger)
    BY <1>2, <1>5, <2>1 DEF Chained
  <2>2. CASE i = Len(ledger) + 1
    BY <1>2, <1>4, <2>2
  <2>3. QED
    BY <1>2, <2>1, <2>2
<1>7. QED
  BY <1>3, <1>6 DEF Chained

LEMMA SameLedger ==
  ASSUME ledger' = ledger
  PROVE  CurrentBalance' = CurrentBalance /\ (Chained => Chained')
BY DEF CurrentBalance, Chained, BalanceBefore

\* A save that is skipped, or finds nothing to update, leaves the balance that
\* it would have written.
LEMMA SkippedIsSame ==
  ASSUME NEW k \in Work, SkipsSave(k)
  PROVE  NewBalance(k) = k.seen
BY DEF SkipsSave, NewBalance, ClampToZero, Work, Rewarding

LEMMA AloneStep == TypeOK /\ AloneInv /\ Next => AloneInv'
<1> SUFFICES ASSUME TypeOK, AloneInv, Next, clean'
             PROVE  AloneInv'
  BY DEF AloneInv
<1>1. PICK w \in Writers :
        \/ \E op \in Locking, a \in Nat : ReadUnderLock(w, op, a)
        \/ \E op \in Unlocked, a \in Nat : Read(w, op, a)
        \/ MidStep(w)
        \/ Commit(w)
        \/ Abort(w)
  BY Steps
<1>2. /\ points \in Nat /\ clean \in BOOLEAN
      /\ work \in [Writers -> Work] /\ work[w] \in Work
      /\ EntryOf(work[w]) \in Entry /\ NewBalance(work[w]) \in Nat
      /\ work[w].seen \in Nat
      /\ EntryOf(work[w]).balanceAfter = NewBalance(work[w])
      /\ EntryOf(work[w]).amount = NewBalance(work[w]) - work[w].seen
  <2>1. points \in Nat /\ clean \in BOOLEAN /\ work \in [Writers -> Work]
    BY DEF TypeOK
  <2>2. work[w] \in Work /\ work[w].seen \in Nat
    BY <2>1 DEF Work
  <2>3. QED
    BY <2>1, <2>2, BalanceType DEF EntryOf
<1>3. clean
  <2>1. CASE \E op, a : ReadUnderLock(w, op, a) \/ Read(w, op, a)
    BY <1>2, <2>1 DEF ReadUnderLock, Read, Starts
  <2>2. CASE MidStep(w)
    BY <2>2, Midway
  <2>3. CASE Commit(w) \/ Abort(w)
    BY <1>2, <2>3 DEF Commit, Abort
  <2>4. QED
    BY <1>1, <2>1, <2>2, <2>3
<1>4. /\ Chained
      /\ \A v, u \in Writers : Working(v) /\ Working(u) => v = u
      /\ (\A v \in Writers : ~Ahead(v)) => points = CurrentBalance
      /\ \A v \in Writers : Working(v) => work[v].seen = points
      /\ \A v \in Writers : Ahead(v) => CurrentBalance = NewBalance(work[v])
      /\ \A v \in Writers :
           work[v].pc \in {"compared", "written"} /\ ~work[v].dirty =>
             NewBalance(work[v]) = points
  BY <1>3 DEF AloneInv
<1>5. ASSUME NEW op \in Locking \cup Unlocked, NEW a \in Nat, Starts(w, op),
             work' = [work EXCEPT ![w] = Begun(op, a)],
             points' = points, ledger' = ledger
      PROVE  AloneInv'
  <2>1. /\ work'[w] = Begun(op, a)
        /\ \A v \in Writers \ {w} : work'[v] = work[v]
    BY <1>5, Started
  <2>2. \A v \in Writers : ~Working(v)
    BY <1>2, <1>5 DEF Starts, Working
  <2>3. points = CurrentBalance
    BY <1>4, <2>2 DEF Ahead
  <2>4. /\ work'[w].pc = "read" /\ work'[w].seen = points
        /\ \A v \in Writers \ {w} : work'[v].pc = "idle"
    BY <2>1, <2>2 DEF Begun, Working
  <2>5. QED
    BY <1>4, <1>5, <2>3, <2>4, SameLedger DEF AloneInv, Working, Ahead
<1>6. ASSUME NEW op \in Locking, NEW a \in Nat, ReadUnderLock(w, op, a)
      PROVE  AloneInv'
  BY <1>5, <1>6 DEF ReadUnderLock
<1>7. ASSUME NEW op \in Unlocked, NEW a \in Nat, Read(w, op, a)
      PROVE  AloneInv'
  BY <1>5, <1>7 DEF Read
<1>8. CASE MidStep(w)
  <2>1. /\ points' = points
        /\ Working(w) /\ Working(w)' /\ work'[w].pc # "read"
        /\ work'[w].op = work[w].op /\ work'[w].seen = work[w].seen
        /\ NewBalance(work'[w]) = NewBalance(work[w])
        /\ \A v \in Writers \ {w} : work'[v] = work[v]
    BY <1>8, Midway
  <2>2. \A v \in Writers \ {w} : ~Working(v) /\ work'[v].pc = "idle"
    BY <1>4, <2>1 DEF Working
  <2>3. work[w].seen = points
    BY <1>4, <2>1
  <2>4. /\ Chained'
        /\ work[w].op # "remove" => CurrentBalance' = points
        /\ work[w].op = "remove" => CurrentBalance' = NewBalance(work[w])
    <3>1. CASE RecordRemoval(w)
      <4>1. /\ work[w].op = "remove" /\ work[w].pc = "read"
            /\ ledger' = Append(ledger, EntryOf(work[w]))
        BY <3>1 DEF RecordRemoval
      <4>2. points = CurrentBalance
        BY <1>4, <2>2, <4>1 DEF Ahead
      <4>3. EntryOf(work[w]).balanceAfter = CurrentBalance + EntryOf(work[w]).amount
        BY <1>2, <2>3, <4>2
      <4>4. Chained' /\ CurrentBalance' = EntryOf(work[w]).balanceAfter
        BY <1>2, <1>4, <4>1, <4>3, ChainGrows
      <4>5. QED
        BY <1>2, <4>1, <4>4
    <3>2. CASE Compare(w) \/ Update(w)
      <4>1. ledger' = ledger /\ (work[w].op = "remove" => work[w].pc # "read")
        BY <3>2 DEF Compare, Update
      <4>2. work[w].op # "remove" => points = CurrentBalance
        BY <1>4, <2>2 DEF Ahead
      <4>3. work[w].op = "remove" => CurrentBalance = NewBalance(work[w])
        BY <1>4, <2>1, <4>1 DEF Ahead
      <4>4. QED
        BY <1>4, <4>1, <4>2, <4>3, SameLedger
    <3>3. QED
      BY <1>8, <3>1, <3>2 DEF MidStep
  <2>5. work'[w].pc \in {"compared", "written"} /\ ~work'[w].dirty =>
          NewBalance(work[w]) = points
    <3>1. CASE RecordRemoval(w)
      BY <1>2, <3>1 DEF RecordRemoval, Work
    <3>2. CASE Compare(w)
      <4>1. work'[w].dirty = (~SkipsSave(work[w]) /\ NewBalance(work[w]) # points)
        BY <1>2, <3>2 DEF Compare, Work
      <4>2. SkipsSave(work[w]) => NewBalance(work[w]) = points
        BY <1>2, <2>3, SkippedIsSame
      <4>3. QED
        BY <4>1, <4>2
    <3>3. CASE Update(w)
      <4>1. work[w].pc = "compared" /\ work'[w].dirty = work[w].dirty
        BY <1>2, <3>3 DEF Update, Work
      <4>2. QED
        BY <1>4, <4>1
    <3>4. QED
      BY <1>8, <3>1, <3>2, <3>3 DEF MidStep
  <2>6. QED
    BY <1>4, <2>1, <2>2, <2>3, <2>4, <2>5 DEF AloneInv, Working, Ahead
<1>9. CASE Commit(w)
  <2>1. /\ ~Working(w)'
        /\ work'[w] = Idle
        /\ \A v \in Writers \ {w} : work'[v] = work[v]
    BY <1>9, Rested DEF Commit
  <2>2. /\ work[w].pc = "written" /\ Working(w)
        /\ points' = IF work[w].dirty THEN NewBalance(work[w]) ELSE points
        /\ ledger' = IF Records(work[w]) /\ work[w].op # "remove"
                     THEN Append(ledger, EntryOf(work[w])) ELSE ledger
    BY <1>9 DEF Commit, Working
  <2>3. \A v \in Writers : work'[v].pc = "idle"
    BY <1>4, <2>1, <2>2 DEF Working, Idle
  <2>4. points' = NewBalance(work[w]) /\ work[w].seen = points
    BY <1>4, <2>2
  <2>5. work[w].op # "remove" => points = CurrentBalance
    BY <1>4, <2>1, <2>2 DEF Ahead
  <2>6. Chained' /\ CurrentBalance' = NewBalance(work[w])
    <3>1. CASE Records(work[w]) /\ work[w].op # "remove"
      <4>1. EntryOf(work[w]).balanceAfter = CurrentBalance + EntryOf(work[w]).amount
        BY <1>2, <2>4, <2>5, <3>1
      <4>2. QED
        BY <1>2, <1>4, <2>2, <3>1, <4>1, ChainGrows
    <3>2. CASE work[w].op = "remove"
      <4>1. CurrentBalance = NewBalance(work[w])
        BY <1>4, <2>2, <3>2 DEF Ahead
      <4>2. QED
        BY <1>4, <2>2, <3>2, <4>1, SameLedger
    <3>3. CASE ~Records(work[w]) /\ work[w].op # "remove"
      <4>1. NewBalance(work[w]) = points
        BY <1>2, <2>4, <3>3, UnrecordedIsSeen
      <4>2. QED
        BY <1>4, <2>2, <2>5, <3>3, <4>1, SameLedger
    <3>4. QED
      BY <3>1, <3>2, <3>3
  <2>7. QED
    BY <2>3, <2>4, <2>6 DEF AloneInv, Working, Ahead
<1>10. CASE Abort(w)
  <2>1. /\ work'[w] = Idle
        /\ \A v \in Writers \ {w} : work'[v] = work[v]
    BY <1>10, Rested DEF Abort
  <2>2. /\ points' = points /\ ledger' = ledger /\ Working(w)
        /\ ~(work[w].op = "remove" /\ work[w].pc # "read")
    BY <1>2, <1>10 DEF Abort
  <2>3. \A v \in Writers : work'[v].pc = "idle"
    BY <1>4, <2>1, <2>2 DEF Working, Idle
  <2>4. points = CurrentBalance
    BY <1>4, <2>2 DEF Ahead
  <2>5. QED
    BY <1>4, <2>2, <2>3, <2>4, SameLedger DEF AloneInv, Working, Ahead
<1>11. QED
  BY <1>1, <1>6, <1>7, <1>8, <1>9, <1>10

\* One writer after the other, whichever they are and however often they fail
\* (except in the middle of a removal): the ledger is a chain that ends at the
\* balance.
THEOREM CleanLedgers == Spec => []CleanLedgerChained
<1>1. Init => AloneInv
  BY DEF Init, AloneInv, Chained, CurrentBalance, Working, Ahead, Idle
<1>2. TypeOK /\ AloneInv /\ [Next]_vars => AloneInv'
  <2>1. AloneInv /\ UNCHANGED vars => AloneInv'
    BY DEF AloneInv, Chained, BalanceBefore, CurrentBalance, Working, Ahead, vars
  <2>2. QED
    BY <2>1, AloneStep
<1>3. AloneInv => CleanLedgerChained
  BY DEF AloneInv, Chained, CleanLedgerChained, Ahead
<1>4. QED
  BY <1>1, <1>2, <1>3, Typing, PTL DEF Spec
=============================================================================
