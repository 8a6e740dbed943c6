---------------------------- MODULE AccountsProofs ----------------------------
(* Theorems about what MCAccounts checks, for every value of its constants:  *)
(* the part that runs is a behaviour of its component, whose theorems are in *)
(* BadgeRequestsProofs and MembershipsProofs, and for attendance, telephone  *)
(* numbers and sessions here.                                               *)
EXTENDS MCAccounts, FiniteSetTheorems, TLAPS

StatInv == Days!TypeOK /\ Days!StatsAreRows

CheckInInv == StatInv /\ Days!CheckInsAreReal /\ Days!InsertsAreAlone

DayInv == CheckInInv /\ Days!OncePerDay

AttendanceInv == DayInv /\ Days!CheckInsStand

-----------------------------------------------------------------------------
(* Attendance: numbers and ranks *)

\* An instance has the operators of FiniteSets once more, under its own name.
LEMMA SameFiniteSets ==
  ASSUME NEW S
  PROVE  /\ Days!IsFiniteSet(S) <=> IsFiniteSet(S)
         /\ Days!Cardinality(S) = Cardinality(S)
<1>1. Days!IsFiniteSet(S) <=> IsFiniteSet(S)
  BY DEF Days!IsFiniteSet, IsFiniteSet
<1>2. Days!Cardinality(S) = Cardinality(S)
  BY DEF Days!Cardinality, Cardinality
<1>3. QED
  BY <1>1, <1>2

LEMMA DayNumbers ==
  ASSUME Days!FiniteInstance
  PROVE  /\ MaxDay \in Nat /\ MaxDay >= 1
         /\ Cardinality(People) \in Nat
         /\ Days!MaxTime \in Nat
<1>1. /\ MaxDay \in Nat \ {0}
      /\ Cardinality(People) \in Nat
      /\ Cardinality(Handlers) \in Nat
  BY SameFiniteSets, FS_CardinalityType DEF Days!FiniteInstance
<1>2. MaxDay * Cardinality(People) \in Nat
  BY <1>1
<1>3. QED
  BY <1>1, <1>2, SameFiniteSets DEF Days!MaxTime

\* A rank among the rows of a day is at most the number of users: no row is
\* better than itself.
LEMMA RankIsAPlace ==
  ASSUME Days!FiniteInstance, NEW rows, DOMAIN rows \subseteq People,
         NEW u \in DOMAIN rows, rows[u].total \in Int, rows[u].streak \in Int,
         rows[u].time \in Int
  PROVE  Days!RankIn(rows, u) \in 1..Cardinality(People)
<1> DEFINE ahead == {v \in DOMAIN rows : Days!Better(rows[v], rows[u])}
<1>1. ahead \subseteq People \ {u}
  <2>1. ~Days!Better(rows[u], rows[u])
    BY DEF Days!Better
  <2>2. QED
    BY <2>1
<1>2. /\ IsFiniteSet(People \ {u})
      /\ Cardinality(People \ {u}) = Cardinality(People) - 1
  BY SameFiniteSets, FS_RemoveElement DEF Days!FiniteInstance
<1>3. IsFiniteSet(ahead) /\ Cardinality(ahead) <= Cardinality(People) - 1
  BY <1>1, <1>2, FS_Subset
<1>4. Cardinality(ahead) \in Nat /\ Cardinality(People) \in Nat
  BY <1>3, SameFiniteSets, FS_CardinalityType DEF Days!FiniteInstance
<1>5. Days!RankIn(rows, u) = 1 + Cardinality(ahead)
  BY SameFiniteSets DEF Days!RankIn
<1> HIDE DEF ahead
<1>6. QED
  BY <1>3, <1>4, <1>5

LEMMA RowsAreNoStats ==
  ASSUME NEW d \in Int, NEW row, row \in Days!RowOf(d) PROVE row # Days!NoStat
BY DEF Days!RowOf, Days!NoStat

\* A row of a day is an AttendanceStatistic.
LEMMA RowsHaveType ==
  ASSUME Days!FiniteInstance, NEW d \in Days!Days
  PROVE  Days!RowOf(d) \subseteq Days!AttendanceStatistic
<1>1. 1..d \subseteq Days!Days
  BY DayNumbers DEF Days!Days
<1>2. QED
  BY <1>1 DEF Days!RowOf, Days!AttendanceStatistic

LEMMA AttendedRows ==
  ASSUME Days!StatsAreRows, NEW u \in People, NEW d \in Days!Days, Days!Attended(u, d)
  PROVE  stat[u][d] \in Days!RowOf(d)
BY DEF Days!StatsAreRows, Days!Attended

-----------------------------------------------------------------------------
(* Jobs *)

LEMMA DayBegins ==
  ASSUME DOMAIN job = Handlers, NEW h \in Handlers, NEW j, Days!Begin(h, j)
  PROVE  /\ DOMAIN job' = Handlers
         /\ job'[h] = j
         /\ \A g \in Handlers \ {h} : job'[g] = job[g]
         /\ calm' \in BOOLEAN
<1>1. job' = [job EXCEPT ![h] = j]
  BY DEF Days!Begin
<1>2. calm' \in BOOLEAN
  BY DEF Days!Begin
<1>3. QED
  BY <1>1, <1>2

LEMMA DayEnds ==
  ASSUME DOMAIN job = Handlers, NEW h \in Handlers, Days!End(h)
  PROVE  /\ DOMAIN job' = Handlers
         /\ job'[h].op = "none"
         /\ \A g \in Handlers \ {h} : job'[g] = job[g]
         /\ calm' = calm
BY DEF Days!End, Days!Resting

-----------------------------------------------------------------------------
(* The steps *)

LEMMA CheckInStep ==
  ASSUME Days!FiniteInstance, DayInv, NEW h \in Handlers, NEW u \in People,
         Days!CheckIn(h, u)
  PROVE  DayInv'
<1> DEFINE y == Days!Yesterdays(u, day)
           j == [op |-> "insert", user |-> u, day |-> day, time |-> clock + 1,
                 total |-> y.total + 1, streak |-> y.streak + 1]
<1>0. /\ Days!TypeOK /\ Days!StatsAreRows /\ Days!CheckInsAreReal
      /\ Days!InsertsAreAlone /\ Days!OncePerDay
      /\ DOMAIN job = Handlers
      /\ day \in Days!Days /\ clock \in 0..Days!MaxTime /\ Days!MaxTime \in Nat /\ MaxDay \in Nat
      /\ day \in Nat
  BY DayNumbers DEF DayInv, CheckInInv, StatInv, Days!TypeOK, Days!CheckInsAreReal, Days!Days
<1>1. UNCHANGED <<day, stat, rewards>> /\ Days!Begin(h, j) /\ clock' \in 1..Days!MaxTime
  BY <1>0 DEF Days!CheckIn
<1>2. /\ DOMAIN job' = Handlers
      /\ job'[h] = j
      /\ \A g \in Handlers \ {h} : job'[g] = job[g]
      /\ calm' \in BOOLEAN
  BY <1>0, <1>1, DayBegins
<1>3. y.total + 1 \in 1..day /\ y.streak + 1 \in 1..day
  <2>1. CASE day = 1
    BY <2>1 DEF Days!Yesterdays, Days!NoStat
  <2>2. CASE day # 1
    <3>1. day - 1 \in Days!Days /\ y = stat[u][day - 1]
      BY <1>0, <2>2 DEF Days!Yesterdays, Days!Days
    <3>2. y \in Days!RowOf(day - 1) \cup {Days!NoStat}
      BY <1>0, <3>1 DEF Days!StatsAreRows
    <3>3. y.total \in 0..(day - 1) /\ y.streak \in 0..(day - 1)
      <4>1. CASE y = Days!NoStat
        BY <1>0, <2>2, <4>1 DEF Days!NoStat, Days!Days
      <4>2. CASE y \in Days!RowOf(day - 1)
        <5>1. y.total \in 1..(day - 1) /\ y.streak \in 1..(day - 1)
          BY <4>2 DEF Days!RowOf
        <5>2. QED
          BY <1>0, <5>1
      <4>3. QED
        BY <3>2, <4>1, <4>2
    <3>4. QED
      BY <1>0, <3>3
  <2>3. QED
    BY <2>1, <2>2
<1>4. Days!TypeOK'
  BY <1>0, <1>1, <1>2 DEF Days!TypeOK
<1>5. Days!StatsAreRows' /\ Days!OncePerDay'
  BY <1>0, <1>1 DEF Days!StatsAreRows, Days!OncePerDay, Days!Attended
<1>6. /\ job'[h].op = "insert" /\ job'[h].user = u /\ job'[h].day = day
      /\ job'[h].time \in 1..Days!MaxTime
      /\ job'[h].total \in 1..day /\ job'[h].streak \in 1..day
  BY <1>1, <1>2, <1>3, <1>0 DEF Days!CheckIn
<1>7. Days!CheckInsAreReal'
  BY <1>0, <1>1, <1>2, <1>6 DEF Days!CheckInsAreReal, Days!At, Days!Attended
<1>8. Days!InsertsAreAlone'
  BY <1>0, <1>1, <1>2, <1>6 DEF Days!InsertsAreAlone, Days!Busy, Days!Attended
<1>9. QED
  BY <1>4, <1>5, <1>7, <1>8 DEF DayInv, CheckInInv, StatInv

\* The rows a transaction sees: its own, not ranked yet, and committed ones.
LEMMA InsertStep ==
  ASSUME Days!FiniteInstance, DayInv, NEW h \in Handlers, Days!InsertStatistic(h)
  PROVE  DayInv'
<1> DEFINE j == job[h]
           seen == {v \in People : Days!Attended(v, j.day)}
           own == [total |-> j.total, streak |-> j.streak, time |-> j.time, rank |-> 0]
           rows == [v \in seen \cup {j.user} |-> IF v = j.user THEN own ELSE stat[v][j.day]]
           k == [op |-> "commit", user |-> j.user, day |-> j.day, rows |-> rows]
<1>0. /\ Days!TypeOK /\ Days!StatsAreRows /\ Days!CheckInsAreReal
      /\ Days!InsertsAreAlone /\ Days!OncePerDay
      /\ DOMAIN job = Handlers
  BY DEF DayInv, CheckInInv, StatInv, Days!CheckInsAreReal
<1>1. /\ UNCHANGED <<day, clock, stat, rewards, calm>>
      /\ job' = [job EXCEPT ![h] = k]
      /\ Days!MayInsert(j.user, j.day)
  BY DEF Days!InsertStatistic, Days!Continue
<1>2. /\ j.user \in People /\ j.day \in Days!Days /\ j.time \in 1..Days!MaxTime
      /\ j.total \in 1..j.day /\ j.streak \in 1..j.day
  BY <1>0 DEF Days!CheckInsAreReal, Days!InsertStatistic
<1>3. /\ DOMAIN rows = seen \cup {j.user}
      /\ rows[j.user] = own
      /\ \A v \in seen \ {j.user} : rows[v] = stat[v][j.day]
  OBVIOUS
<1>4. own \in Days!NewRowOf(j.day)
  BY <1>2 DEF Days!NewRowOf
<1>5. \A v \in seen : stat[v][j.day] \in Days!RowOf(j.day) /\ Days!Attended(v, j.day)
  BY <1>0, <1>2, AttendedRows
<1>6. DOMAIN rows \subseteq People
  BY <1>2, <1>3
<1>7. /\ j.user \in DOMAIN rows
      /\ rows[j.user] \in Days!NewRowOf(j.day)
      /\ \A v \in DOMAIN rows \ {j.user} :
           Days!Attended(v, j.day) /\ rows[v] \in Days!RowOf(j.day)
  BY <1>3, <1>4, <1>5
<1>8. /\ DOMAIN job' = Handlers
      /\ job'[h] = k /\ k.op = "commit" /\ k.user = j.user /\ k.day = j.day
      /\ k.rows = rows
      /\ \A g \in Handlers \ {h} : job'[g] = job[g]
  BY <1>0, <1>1
<1> HIDE DEF k, rows, own, seen
<1>9. Days!TypeOK' /\ Days!StatsAreRows' /\ Days!OncePerDay'
  BY <1>0, <1>1 DEF Days!TypeOK, Days!StatsAreRows, Days!OncePerDay, Days!Attended
<1>10. \A v, d : Days!Attended(v, d)' <=> Days!Attended(v, d)
  BY <1>1 DEF Days!Attended
<1>11. Days!CheckInsAreReal'
  <2>1. ASSUME NEW g \in Handlers, Days!At(g, "insert")'
        PROVE  /\ job'[g].user \in People /\ job'[g].day \in Days!Days
               /\ job'[g].time \in 1..Days!MaxTime
               /\ job'[g].total \in 1..job'[g].day
               /\ job'[g].streak \in 1..job'[g].day
    BY <1>0, <1>8, <2>1 DEF Days!CheckInsAreReal, Days!At
  <2>2. ASSUME NEW g \in Handlers, Days!At(g, "commit")'
        PROVE  /\ job'[g].user \in DOMAIN job'[g].rows /\ job'[g].day \in Days!Days
               /\ DOMAIN job'[g].rows \subseteq People
               /\ job'[g].rows[job'[g].user] \in Days!NewRowOf(job'[g].day)
               /\ \A v \in DOMAIN job'[g].rows \ {job'[g].user} :
                    /\ Days!Attended(v, job'[g].day)
                    /\ job'[g].rows[v] \in Days!RowOf(job'[g].day)
    <3>1. CASE g = h
      BY <1>2, <1>6, <1>7, <1>8, <3>1
    <3>2. CASE g # h
      BY <1>0, <1>8, <2>2, <3>2 DEF Days!CheckInsAreReal, Days!At
    <3>3. QED
      BY <3>1, <3>2
  <2>3. QED
    BY <1>8, <1>10, <2>1, <2>2 DEF Days!CheckInsAreReal
<1>12. Days!InsertsAreAlone'
  <2>1. ~Days!Attended(j.user, j.day)
        /\ \A g \in Days!Busy({"commit"}) : job[g].user # j.user \/ job[g].day # j.day
    BY <1>1 DEF Days!MayInsert
  <2>2. QED
    BY <1>0, <1>8, <1>10, <2>1 DEF Days!InsertsAreAlone, Days!Busy
<1>13. QED
  BY <1>9, <1>11, <1>12 DEF DayInv, CheckInInv, StatInv

\* What the rows of the day become: the transaction's own is ranked, those it
\* saw may get another rank, the others stay.
LEMMA RowsAfterRanking ==
  ASSUME Days!FiniteInstance, Days!StatsAreRows,
         NEW d \in Days!Days, NEW u \in People, NEW rows,
         u \in DOMAIN rows, DOMAIN rows \subseteq People,
         rows[u] \in Days!NewRowOf(d),
         \A v \in DOMAIN rows \ {u} : Days!Attended(v, d) /\ rows[v] \in Days!RowOf(d),
         NEW v \in People
  PROVE  /\ Days!Reranked(rows, v, d) \in Days!RowOf(d) \cup {Days!NoStat}
         /\ v = u => Days!Reranked(rows, v, d) # Days!NoStat
         /\ v # u => (Days!Reranked(rows, v, d) # Days!NoStat <=> Days!Attended(v, d))
<1>1. d \in Int /\ 1..d \subseteq Int /\ Days!MaxTime \in Int
  BY DayNumbers DEF Days!Days
<1>2. CASE v \notin DOMAIN rows
  BY <1>2 DEF Days!Reranked, Days!Attended, Days!StatsAreRows
<1>3. ASSUME v \in DOMAIN rows, NEW row, row \in Days!RowOf(d)
      PROVE  [row EXCEPT !.rank = Days!RankIn(rows, v)] \in Days!RowOf(d)
  <2>1. rows[v].total \in Int /\ rows[v].streak \in Int /\ rows[v].time \in Int
    BY <1>1, <1>3 DEF Days!NewRowOf, Days!RowOf
  <2>2. Days!RankIn(rows, v) \in 1..Cardinality(People)
    BY <1>3, <2>1, RankIsAPlace
  <2>3. QED
    BY <1>3, <2>2, SameFiniteSets DEF Days!RowOf
<1>4. CASE v = u
  <2>1. rows[u].rank = 0
    BY DEF Days!NewRowOf
  <2>2. Days!Reranked(rows, u, d) = [rows[u] EXCEPT !.rank = Days!RankIn(rows, u)]
    BY <2>1 DEF Days!Reranked
  <2>3. rows[u].total \in Int /\ rows[u].streak \in Int /\ rows[u].time \in Int
    BY <1>1 DEF Days!NewRowOf
  <2>4. Days!RankIn(rows, u) \in 1..Cardinality(People)
    BY <2>3, RankIsAPlace
  <2>5. [rows[u] EXCEPT !.rank = Days!RankIn(rows, u)] \in Days!RowOf(d)
    BY <2>4, SameFiniteSets DEF Days!NewRowOf, Days!RowOf
  <2>6. QED
    BY <1>1, <1>4, <2>2, <2>5, RowsAreNoStats
<1>5. CASE v \in DOMAIN rows /\ v # u
  <2>1. Days!Attended(v, d) /\ rows[v] \in Days!RowOf(d) /\ stat[v][d] \in Days!RowOf(d)
    BY <1>5, AttendedRows
  <2>2. rows[v].rank # 0
    BY <2>1, DayNumbers DEF Days!RowOf
  <2>3. Days!Reranked(rows, v, d) \in
          {stat[v][d], [stat[v][d] EXCEPT !.rank = Days!RankIn(rows, v)]}
    BY <1>5, <2>2 DEF Days!Reranked
  <2>4. Days!Reranked(rows, v, d) \in Days!RowOf(d)
    BY <1>3, <1>5, <2>1, <2>3
  <2>5. QED
    BY <1>1, <1>5, <2>1, <2>4, RowsAreNoStats
<1>6. QED
  BY <1>2, <1>4, <1>5

\* What a commit makes of the rows, its transaction having seen all of the day.
LEMMA CommitRows ==
  ASSUME Days!FiniteInstance, DayInv, NEW h \in Handlers, NEW j, j = job[h],
         Days!CreateAttendance(h)
  PROVE  /\ j.op = "commit" /\ j.user \in People /\ j.day \in Days!Days
         /\ j.user \in DOMAIN j.rows /\ DOMAIN j.rows \subseteq People
         /\ j.rows[j.user] \in Days!NewRowOf(j.day)
         /\ \A v \in DOMAIN j.rows \ {j.user} :
              Days!Attended(v, j.day) /\ j.rows[v] \in Days!RowOf(j.day)
         /\ \A v \in People :
              /\ stat'[v][j.day] = Days!Reranked(j.rows, v, j.day)
              /\ \A d \in Days!Days \ {j.day} : stat'[v][d] = stat[v][d]
         /\ \A v \in People, d \in Days!Days :
              Days!Attended(v, d)' <=> (Days!Attended(v, d) \/ (v = j.user /\ d = j.day))
<1>0. /\ Days!TypeOK /\ Days!StatsAreRows /\ Days!CheckInsAreReal /\ j.op = "commit"
  BY DEF DayInv, CheckInInv, StatInv, Days!CreateAttendance, Days!At
<1>1. /\ j.user \in DOMAIN j.rows /\ j.day \in Days!Days
      /\ DOMAIN j.rows \subseteq People
      /\ j.rows[j.user] \in Days!NewRowOf(j.day)
      /\ \A v \in DOMAIN j.rows \ {j.user} :
           Days!Attended(v, j.day) /\ j.rows[v] \in Days!RowOf(j.day)
      /\ j.user \in People
  BY <1>0 DEF Days!CheckInsAreReal, Days!CreateAttendance
<1>2. \A v \in People :
        /\ Days!Reranked(j.rows, v, j.day) \in Days!RowOf(j.day) \cup {Days!NoStat}
        /\ v = j.user => Days!Reranked(j.rows, v, j.day) # Days!NoStat
        /\ v # j.user =>
             (Days!Reranked(j.rows, v, j.day) # Days!NoStat <=> Days!Attended(v, j.day))
  BY <1>0, <1>1, RowsAfterRanking
<1>3. stat' = [v \in People |-> [stat[v] EXCEPT ![j.day] = Days!Reranked(j.rows, v, j.day)]]
  BY DEF Days!CreateAttendance
<1>4. \A v \in People :
        /\ stat'[v][j.day] = Days!Reranked(j.rows, v, j.day)
        /\ \A d \in Days!Days \ {j.day} : stat'[v][d] = stat[v][d]
  BY <1>0, <1>1, <1>3 DEF Days!TypeOK
<1>5. ASSUME NEW v \in People, NEW d \in Days!Days
      PROVE  Days!Attended(v, d)' <=> (Days!Attended(v, d) \/ (v = j.user /\ d = j.day))
  <2>1. CASE d = j.day
    BY <1>1, <1>2, <1>4, <2>1 DEF Days!Attended
  <2>2. CASE d # j.day
    BY <1>4, <2>2 DEF Days!Attended
  <2>3. QED
    BY <2>1, <2>2
<1>6. QED
  BY <1>0, <1>1, <1>4, <1>5

LEMMA CommitStep ==
  ASSUME Days!FiniteInstance, DayInv, NEW h \in Handlers, Days!CreateAttendance(h)
  PROVE  DayInv'
<1> DEFINE j == job[h]
<1>0. /\ Days!TypeOK /\ Days!StatsAreRows /\ Days!CheckInsAreReal
      /\ Days!InsertsAreAlone /\ Days!OncePerDay
      /\ DOMAIN job = Handlers
      /\ h \in Days!Busy({"commit"})
  BY DEF DayInv, CheckInInv, StatInv, Days!CheckInsAreReal, Days!CreateAttendance,
     Days!At, Days!Busy
<1>1. /\ j.user \in DOMAIN j.rows /\ j.day \in Days!Days
      /\ DOMAIN j.rows \subseteq People
      /\ j.rows[j.user] \in Days!NewRowOf(j.day)
      /\ \A v \in DOMAIN j.rows \ {j.user} :
           Days!Attended(v, j.day) /\ j.rows[v] \in Days!RowOf(j.day)
      /\ j.user \in People
  BY CommitRows
<1>2. /\ ~Days!Attended(j.user, j.day)
      /\ \A g \in Days!Busy({"commit"}) :
           job[g].user = j.user /\ job[g].day = j.day => g = h
  BY <1>0 DEF Days!InsertsAreAlone
<1>3. /\ UNCHANGED <<day, clock, calm>>
      /\ DOMAIN job' = Handlers
      /\ job'[h].op = "none"
      /\ \A g \in Handlers \ {h} : job'[g] = job[g]
  BY <1>0, DayEnds DEF Days!CreateAttendance
<1>4. \A v \in People :
        /\ Days!Reranked(j.rows, v, j.day) \in Days!RowOf(j.day) \cup {Days!NoStat}
        /\ v = j.user => Days!Reranked(j.rows, v, j.day) # Days!NoStat
        /\ v # j.user =>
             (Days!Reranked(j.rows, v, j.day) # Days!NoStat <=> Days!Attended(v, j.day))
  BY <1>0, <1>1, RowsAfterRanking
<1>5. /\ stat' = [v \in People |->
                   [stat[v] EXCEPT ![j.day] = Days!Reranked(j.rows, v, j.day)]]
      /\ rewards' = [rewards EXCEPT ![j.user][j.day] = @ + 1]
  BY DEF Days!CreateAttendance
<1>6. \A v \in People :
        /\ stat'[v][j.day] = Days!Reranked(j.rows, v, j.day)
        /\ \A d \in Days!Days \ {j.day} : stat'[v][d] = stat[v][d]
  BY CommitRows
<1>7. Days!StatsAreRows'
  <2>1. ASSUME NEW v \in People, NEW d \in Days!Days
        PROVE  stat'[v][d] \in Days!RowOf(d) \cup {Days!NoStat}
    <3>1. CASE d = j.day
      BY <1>4, <1>6, <3>1
    <3>2. CASE d # j.day
      BY <1>0, <1>6, <3>2 DEF Days!StatsAreRows
    <3>3. QED
      BY <3>1, <3>2
  <2>2. QED
    BY <2>1 DEF Days!StatsAreRows
<1>8. \A v \in People, d \in Days!Days :
        Days!Attended(v, d)' <=> (Days!Attended(v, d) \/ (v = j.user /\ d = j.day))
  BY CommitRows
<1>9. Days!OncePerDay'
  <2>1. \A v \in People, d \in Days!Days :
          rewards'[v][d] = IF v = j.user /\ d = j.day THEN rewards[v][d] + 1
                           ELSE rewards[v][d]
    BY <1>0, <1>1, <1>5 DEF Days!TypeOK
  <2>2. rewards[j.user][j.day] = 0
    BY <1>0, <1>1, <1>2 DEF Days!OncePerDay
  <2>3. QED
    BY <1>0, <1>1, <1>8, <2>1, <2>2 DEF Days!OncePerDay
<1>10. Days!TypeOK'
  <2>1. stat' \in [People -> [Days!Days -> Days!AttendanceStatistic \cup {Days!NoStat}]]
    <3>1. \A v \in People :
            Days!Reranked(j.rows, v, j.day) \in Days!AttendanceStatistic \cup {Days!NoStat}
      BY <1>1, <1>4, RowsHaveType
    <3>2. QED
      BY <1>0, <1>1, <1>5, <3>1 DEF Days!TypeOK
  <2>2. rewards' \in [People -> [Days!Days -> 0..1]]
    BY <1>0, <1>1, <1>2, <1>5 DEF Days!TypeOK, Days!OncePerDay
  <2>3. QED
    BY <1>0, <1>3, <2>1, <2>2 DEF Days!TypeOK
<1>11. Days!CheckInsAreReal'
  <2>1. ASSUME NEW g \in Handlers, Days!At(g, "insert")'
        PROVE  /\ job'[g].user \in People /\ job'[g].day \in Days!Days
               /\ job'[g].time \in 1..Days!MaxTime
               /\ job'[g].total \in 1..job'[g].day
               /\ job'[g].streak \in 1..job'[g].day
    BY <1>0, <1>3, <2>1 DEF Days!CheckInsAreReal, Days!At
  <2>2. ASSUME NEW g \in Handlers, Days!At(g, "commit")'
        PROVE  (/\ job[g].user \in DOMAIN job[g].rows /\ job[g].day \in Days!Days
                /\ DOMAIN job[g].rows \subseteq People
                /\ job[g].rows[job[g].user] \in Days!NewRowOf(job[g].day)
                /\ \A v \in DOMAIN job[g].rows \ {job[g].user} :
                     /\ Days!Attended(v, job[g].day)
                     /\ job[g].rows[v] \in Days!RowOf(job[g].day))'
    <3>1. job'[g] = job[g] /\ Days!At(g, "commit")
      BY <1>3, <2>2 DEF Days!At
    <3>2. /\ job[g].user \in DOMAIN job[g].rows /\ job[g].day \in Days!Days
          /\ DOMAIN job[g].rows \subseteq People
          /\ job[g].rows[job[g].user] \in Days!NewRowOf(job[g].day)
          /\ \A v \in DOMAIN job[g].rows \ {job[g].user} :
               Days!Attended(v, job[g].day) /\ job[g].rows[v] \in Days!RowOf(job[g].day)
      BY <1>0, <3>1 DEF Days!CheckInsAreReal
    <3>3. \A v \in DOMAIN job[g].rows \ {job[g].user} :
            job[g].day \in Days!Days /\ stat'[v][job[g].day] # Days!NoStat
      BY <1>8, <3>2 DEF Days!Attended
    <3>4. QED
      BY <3>1, <3>2, <3>3 DEF Days!Attended
  <2>3. QED
    BY <1>3, <2>1, <2>2 DEF Days!CheckInsAreReal
<1>12. Days!InsertsAreAlone'
  <2>1. ASSUME NEW g \in Handlers, job'[g].op = "commit"
        PROVE  g # h /\ g \in Days!Busy({"commit"}) /\ job'[g] = job[g]
               /\ job[g].user \in People /\ job[g].day \in Days!Days
    BY <1>0, <1>3, <2>1 DEF Days!Busy, Days!CheckInsAreReal, Days!At
  <2>2. ASSUME NEW g \in Handlers, job'[g].op = "commit"
        PROVE  job'[g].day \in Days!Days => stat'[job'[g].user][job'[g].day] = Days!NoStat
    <3>1. /\ ~Days!Attended(job[g].user, job[g].day)
          /\ job[g].user # j.user \/ job[g].day # j.day
      BY <1>0, <1>2, <2>1, <2>2 DEF Days!InsertsAreAlone
    <3>2. stat'[job[g].user][job[g].day] = Days!NoStat
      BY <1>8, <2>1, <2>2, <3>1 DEF Days!Attended
    <3>3. QED
      BY <2>1, <2>2, <3>2
  <2>3. \A g \in Days!Busy({"commit"})' : g \in Handlers /\ job'[g].op = "commit"
    BY DEF Days!Busy
  <2>4. QED
    BY <1>0, <2>1, <2>2, <2>3 DEF Days!InsertsAreAlone, Days!Attended
<1>13. QED
  BY <1>7, <1>9, <1>10, <1>11, <1>12 DEF DayInv, CheckInInv, StatInv

-----------------------------------------------------------------------------
(* The invariant *)

LEMMA DayInit == ASSUME Days!FiniteInstance, Days!Init PROVE DayInv
<1>1. Days!MaxTime \in Nat /\ MaxDay \in Nat /\ MaxDay >= 1
  BY DayNumbers
<1>2. Days!TypeOK
  BY <1>1 DEF Days!Init, Days!NoJobs, Days!TypeOK, Days!Days
<1>3. DOMAIN job = Handlers /\ \A h \in Handlers : job[h].op = "none"
  BY DEF Days!Init, Days!NoJobs, Days!Resting
<1>4. \A u \in People, d \in Days!Days :
        stat[u][d] = Days!NoStat /\ rewards[u][d] = 0 /\ ~Days!Attended(u, d)
  BY DEF Days!Init, Days!Attended
<1>5. Days!StatsAreRows /\ Days!OncePerDay
  BY <1>4 DEF Days!StatsAreRows, Days!OncePerDay
<1>6. Days!CheckInsAreReal /\ Days!InsertsAreAlone
  BY <1>3 DEF Days!CheckInsAreReal, Days!InsertsAreAlone, Days!At, Days!Busy
<1>7. QED
  BY <1>2, <1>5, <1>6 DEF DayInv, CheckInInv, StatInv

\* Midnight, a failure, and a step of someone else leave the rows alone.
LEMMA DayQuietStep ==
  ASSUME DayInv, day' \in Days!Days, UNCHANGED <<clock, stat, rewards, calm>>,
         \/ UNCHANGED job
         \/ \E h \in Handlers : Days!End(h)
  PROVE  DayInv'
<1>0. /\ Days!TypeOK /\ Days!StatsAreRows /\ Days!CheckInsAreReal
      /\ Days!InsertsAreAlone /\ Days!OncePerDay
      /\ DOMAIN job = Handlers
  BY DEF DayInv, CheckInInv, StatInv, Days!CheckInsAreReal
<1>1. /\ DOMAIN job' = Handlers
      /\ \A g \in Handlers : job'[g] = job[g] \/ job'[g].op = "none"
  BY <1>0, DayEnds
<1>2. \A u, d : Days!Attended(u, d)' <=> Days!Attended(u, d)
  BY DEF Days!Attended
<1>3. Days!TypeOK' /\ Days!StatsAreRows' /\ Days!OncePerDay'
  BY <1>0, <1>2 DEF Days!TypeOK, Days!StatsAreRows, Days!OncePerDay
<1>4. Days!InsertsAreAlone'
  BY <1>0, <1>1, <1>2 DEF Days!InsertsAreAlone, Days!Busy
<1>5. Days!CheckInsAreReal'
  <2>1. ASSUME NEW g \in Handlers, job'[g].op \in {"insert", "commit"}
        PROVE  job'[g] = job[g]
    BY <1>1, <2>1
  <2>2. QED
    BY <1>0, <1>1, <1>2, <2>1 DEF Days!CheckInsAreReal, Days!At
<1>6. QED
  BY <1>3, <1>4, <1>5 DEF DayInv, CheckInInv, StatInv

LEMMA DayStep == ASSUME Days!FiniteInstance, DayInv, [Days!Next]_(Days!vars) PROVE DayInv'
<1>1. day \in Days!Days
  BY DEF DayInv, CheckInInv, StatInv, Days!TypeOK
<1>2. ASSUME NEW h \in Handlers,
             Days!AttendanceController(h) \/ Days!InsertStatistic(h) \/ Days!CreateAttendance(h)
      PROVE  DayInv'
  BY <1>2, CheckInStep, InsertStep, CommitStep DEF Days!AttendanceController
<1>3. ASSUME NEW h \in Handlers, Days!Fail(h) PROVE DayInv'
  <2>1. Days!End(h) /\ day' \in Days!Days /\ UNCHANGED <<clock, stat, rewards, calm>>
    BY <1>1, <1>3 DEF Days!Fail, Days!End
  <2>2. QED
    BY <2>1, DayQuietStep
<1>4. CASE Days!Midnight
  <2>1. day' \in Days!Days
    BY <1>1, <1>4, DayNumbers DEF Days!Midnight, Days!Days
  <2>2. QED
    BY <1>4, <2>1, DayQuietStep DEF Days!Midnight
<1>5. CASE UNCHANGED Days!vars
  BY <1>1, <1>5, DayQuietStep DEF Days!vars
<1>6. QED
  BY <1>2, <1>3, <1>4, <1>5 DEF Days!Next

LEMMA DayInvHolds == ASSUME Days!FiniteInstance PROVE Days!Spec => []DayInv
<1>1. Days!FiniteInstance /\ Days!Init => DayInv
  BY DayInit
<1>2. DayInv /\ [Days!Next]_(Days!vars) => DayInv'
  BY DayStep
<1>3. QED
  BY <1>1, <1>2, PTL DEF Days!Spec

-----------------------------------------------------------------------------
(* Attendance: ranks and streaks, as long as check-ins do not overlap          *)

\* Rows of different times are in a strict order.
LEMMA BetterIsStrict ==
  ASSUME NEW a, a.total \in Int, a.streak \in Int, a.time \in Int,
         NEW b, b.total \in Int, b.streak \in Int, b.time \in Int,
         NEW c, c.total \in Int, c.streak \in Int, c.time \in Int
  PROVE  /\ ~Days!Better(a, a)
         /\ Days!Better(a, b) /\ Days!Better(b, c) => Days!Better(a, c)
         /\ a.time # b.time => Days!Better(a, b) \/ Days!Better(b, a)
BY DEF Days!Better

\* So their ranks are in that order.
LEMMA RanksFollowOrder ==
  ASSUME NEW rows, IsFiniteSet(DOMAIN rows),
         \A v \in DOMAIN rows : /\ rows[v].total \in Int /\ rows[v].streak \in Int
                                /\ rows[v].time \in Int,
         NEW u \in DOMAIN rows, NEW w \in DOMAIN rows, Days!Better(rows[u], rows[w])
  PROVE  /\ Days!RankIn(rows, u) \in Int /\ Days!RankIn(rows, w) \in Int
         /\ Days!RankIn(rows, u) < Days!RankIn(rows, w)
<1> DEFINE ahead(x) == {v \in DOMAIN rows : Days!Better(rows[v], rows[x])}
<1>1. ahead(u) \cup {u} \subseteq ahead(w)
  BY BetterIsStrict
<1>2. u \notin ahead(u)
  BY BetterIsStrict
<1>3. IsFiniteSet(ahead(u)) /\ IsFiniteSet(ahead(w))
  BY FS_Subset
<1>4. /\ Days!RankIn(rows, u) = 1 + Cardinality(ahead(u))
      /\ Days!RankIn(rows, w) = 1 + Cardinality(ahead(w))
  BY SameFiniteSets DEF Days!RankIn
<1> HIDE DEF ahead
<1>5. /\ Cardinality(ahead(u) \cup {u}) = Cardinality(ahead(u)) + 1
      /\ Cardinality(ahead(u)) \in Int /\ Cardinality(ahead(w)) \in Int
  <2>1. Cardinality(ahead(u) \cup {u}) = Cardinality(ahead(u)) + 1
    BY <1>2, <1>3, FS_AddElement
  <2>2. Cardinality(ahead(u)) \in Nat /\ Cardinality(ahead(w)) \in Nat
    BY <1>3, FS_CardinalityType
  <2>3. QED
    BY <2>1, <2>2
<1>6. Cardinality(ahead(u) \cup {u}) <= Cardinality(ahead(w))
  BY <1>1, <1>3, FS_Subset
<1>7. QED
  BY <1>4, <1>5, <1>6

\* And number the rows: as many, in 1 to their number, no two the same.
LEMMA RanksNumberRows ==
  ASSUME NEW rows, IsFiniteSet(DOMAIN rows),
         \A v \in DOMAIN rows : /\ rows[v].total \in Int /\ rows[v].streak \in Int
                                /\ rows[v].time \in Int,
         \A v, w \in DOMAIN rows : rows[v].time = rows[w].time => v = w
  PROVE  {Days!RankIn(rows, u) : u \in DOMAIN rows} = 1..Cardinality(DOMAIN rows)
<1> DEFINE n == Cardinality(DOMAIN rows)
           rank == [u \in DOMAIN rows |-> Days!RankIn(rows, u)]
<1>1. n \in Nat /\ IsFiniteSet(1..n) /\ Cardinality(1..n) = n
  BY FS_CardinalityType, FS_Interval
<1>2. ASSUME NEW u \in DOMAIN rows PROVE Days!RankIn(rows, u) \in 1..n
  <2> DEFINE ahead == {v \in DOMAIN rows : Days!Better(rows[v], rows[u])}
  <2>1. ahead \subseteq DOMAIN rows \ {u}
    BY BetterIsStrict
  <2>2. /\ IsFiniteSet(DOMAIN rows \ {u})
        /\ Cardinality(DOMAIN rows \ {u}) = n - 1
    BY FS_RemoveElement
  <2>3. IsFiniteSet(ahead) /\ Cardinality(ahead) <= n - 1
    BY <2>1, <2>2, FS_Subset
  <2>4. Cardinality(ahead) \in Nat
    BY <2>3, FS_CardinalityType
  <2>5. Days!RankIn(rows, u) = 1 + Cardinality(ahead)
    BY SameFiniteSets DEF Days!RankIn
  <2> HIDE DEF ahead, n
  <2>6. QED
    BY <1>1, <2>3, <2>4, <2>5
<1>3. ASSUME NEW u \in DOMAIN rows, NEW w \in DOMAIN rows, rank[u] = rank[w] PROVE u = w
  <2>1. Days!Better(rows[u], rows[w]) => Days!RankIn(rows, u) < Days!RankIn(rows, w)
    BY RanksFollowOrder
  <2>2. Days!Better(rows[w], rows[u]) => Days!RankIn(rows, w) < Days!RankIn(rows, u)
    BY RanksFollowOrder
  <2>3. Days!RankIn(rows, u) \in Int /\ Days!RankIn(rows, u) = Days!RankIn(rows, w)
    BY <1>2, <1>3
  <2>4. rows[u].time = rows[w].time
    BY <2>1, <2>2, <2>3, BetterIsStrict
  <2>5. QED
    BY <2>4
<1>4. rank \in Injection(DOMAIN rows, 1..n)
  <2>1. rank \in [DOMAIN rows -> 1..n]
    BY <1>2
  <2>2. QED
    BY <1>3, <2>1 DEF Injection, IsInjective
<1>5. rank \in Surjection(DOMAIN rows, 1..n)
  BY <1>1, <1>4, FS_Injection
<1>6. \A k \in 1..n : \E u \in DOMAIN rows : Days!RankIn(rows, u) = k
  BY <1>5 DEF Surjection
<1>7. QED
  BY <1>2, <1>6

-----------------------------------------------------------------------------
\* Whether a day was attended, and the rows of a day.
LEMMA SameAttendance ==
  ASSUME UNCHANGED stat
  PROVE  /\ \A u, d : Days!Attended(u, d)' <=> Days!Attended(u, d)
         /\ \A d : Days!RowsOf(d)' = Days!RowsOf(d)
BY DEF Days!Attended, Days!RowsOf

LEMMA RowsRemainRight ==
  ASSUME Days!TypeOK, Days!RowsAreRight, UNCHANGED stat, day' \in Int, clock' \in Int,
         day' >= day, clock' >= clock, Days!StatsAreRows, MaxDay \in Nat, Days!MaxTime \in Nat
  PROVE  Days!RowsAreRight'
<1>1. \A u \in People, d \in Days!Days :
        Days!Attended(u, d) => stat[u][d].time \in Int /\ d \in Int /\ day \in Int /\ clock \in Int
  BY AttendedRows DEF Days!TypeOK, Days!Days, Days!RowOf
<1>2. \A u, d, s : Days!IsRun(u, d, s)' <=> Days!IsRun(u, d, s)
  BY SameAttendance DEF Days!IsRun
<1>3. QED
  BY <1>1, <1>2, SameAttendance DEF Days!RowsAreRight

LEMMA CheckInStandsStep ==
  ASSUME Days!FiniteInstance, AttendanceInv, NEW h \in Handlers, NEW u \in People,
         Days!CheckIn(h, u)
  PROVE  Days!CheckInsStand'
<1> DEFINE y == Days!Yesterdays(u, day)
<1>0. /\ Days!TypeOK /\ Days!StatsAreRows /\ DOMAIN job = Handlers
      /\ day \in Days!Days /\ day \in Nat /\ clock \in Nat /\ MaxDay \in Nat /\ Days!MaxTime \in Nat
  BY DayNumbers
  DEF AttendanceInv, DayInv, CheckInInv, StatInv, Days!TypeOK, Days!CheckInsAreReal, Days!Days
<1>1. PICK j : j = [op |-> "insert", user |-> u, day |-> day, time |-> clock + 1,
                    total |-> y.total + 1, streak |-> y.streak + 1]
  OBVIOUS
<1>2. /\ UNCHANGED <<day, stat, rewards>> /\ Days!Begin(h, j) /\ clock' = clock + 1
      /\ ~Days!Attended(u, day)
  BY <1>1 DEF Days!CheckIn
<1>3. /\ job'[h] = j /\ \A g \in Handlers \ {h} : job'[g] = job[g]
  BY <1>0, <1>2, DayBegins
<1>4. calm' => calm /\ \A g \in Handlers \ {h} : Days!Idle(g)
  BY <1>2, Zenon DEF Days!Begin
<1>5. SUFFICES ASSUME calm' PROVE Days!CheckInsStand'
  BY DEF Days!CheckInsStand
<1>6. Days!RowsAreRight /\ \A g \in Handlers \ {h} : job'[g] = Days!Resting
  BY <1>3, <1>4, <1>5 DEF AttendanceInv, Days!CheckInsStand, Days!Idle
<1>7. Days!RowsAreRight'
  BY <1>0, <1>2, <1>6, RowsRemainRight
<1>8. Days!CheckInStands(job[h])'
  <2>1. j.op = "insert" /\ j.user = u /\ j.day = day /\ j.time = clock + 1
        /\ j.streak = y.streak + 1
    BY <1>1
  <2>2. \A v \in People, d \in Days!Days :
          Days!Attended(v, d) => /\ d <= day /\ stat[v][d].time <= clock
                                 /\ stat[v][d].time \in Int
    BY <1>0, <1>6, AttendedRows DEF Days!RowsAreRight, Days!RowOf
  <2>3. Days!Yesterdays(u, day)' = y
    BY <1>2 DEF Days!Yesterdays
  <2>4. QED
    BY <1>0, <1>2, <1>3, <2>1, <2>2, <2>3, SameAttendance DEF Days!CheckInStands
<1>9. \A g \in Handlers \ {h} : Days!CheckInStands(job[g])'
  BY <1>6 DEF Days!CheckInStands, Days!Resting
<1>10. QED
  BY <1>6, <1>7, <1>8, <1>9 DEF Days!CheckInsStand, Days!Idle

LEMMA InsertStandsStep ==
  ASSUME Days!FiniteInstance, AttendanceInv, NEW h \in Handlers, Days!InsertStatistic(h)
  PROVE  Days!CheckInsStand'
<1>0. /\ Days!TypeOK /\ Days!StatsAreRows /\ DOMAIN job = Handlers /\ Days!CheckInsAreReal
      /\ day \in Nat /\ clock \in Nat /\ MaxDay \in Nat /\ Days!MaxTime \in Nat
  BY DayNumbers
  DEF AttendanceInv, DayInv, CheckInInv, StatInv, Days!TypeOK, Days!CheckInsAreReal, Days!Days
<1>1. PICK j : j = job[h]
  OBVIOUS
<1>2. PICK own : own = [total |-> j.total, streak |-> j.streak, time |-> j.time, rank |-> 0]
  OBVIOUS
<1>3. PICK rows : rows = [v \in {v \in People : Days!Attended(v, j.day)} \cup {j.user} |->
                            IF v = j.user THEN own ELSE stat[v][j.day]]
  OBVIOUS
<1>4. PICK k : k = [op |-> "commit", user |-> j.user, day |-> j.day, rows |-> rows]
  OBVIOUS
<1>5. /\ UNCHANGED <<day, clock, stat, rewards, calm>>
      /\ job' = [job EXCEPT ![h] = k] /\ j.op = "insert"
      /\ j.user \in People /\ j.day \in Days!Days
  BY <1>0, <1>1, <1>2, <1>3, <1>4
  DEF Days!InsertStatistic, Days!Continue, Days!At, Days!CheckInsAreReal
<1>6. SUFFICES ASSUME calm PROVE Days!CheckInsStand'
  BY <1>5 DEF Days!CheckInsStand
<1>7. /\ Days!RowsAreRight /\ Days!CheckInStands(j)
      /\ \A g \in Handlers \ {h} : job'[g] = Days!Resting
  <2>1. ~Days!Idle(h)
    BY <1>1, <1>5 DEF Days!Idle, Days!Resting
  <2>2. QED
    BY <1>0, <1>1, <1>5, <1>6, <2>1 DEF AttendanceInv, Days!CheckInsStand, Days!Idle
<1>8. Days!RowsAreRight'
  BY <1>0, <1>5, <1>7, RowsRemainRight
<1>9. Days!CheckInStands(k)'
  <2>1. /\ k.op = "commit" /\ k.user = j.user /\ k.day = j.day /\ k.rows = rows
        /\ rows[j.user] = own /\ own.time = j.time /\ own.streak = j.streak
        /\ \A v \in People \ {j.user} :
             IF Days!Attended(v, j.day) THEN v \in DOMAIN rows /\ rows[v] = stat[v][j.day]
             ELSE v \notin DOMAIN rows
    BY <1>2, <1>3, <1>4, <1>5
  <2>2. Days!Yesterdays(j.user, j.day)' = Days!Yesterdays(j.user, j.day)
    BY <1>5 DEF Days!Yesterdays
  <2>3. /\ j.day <= day /\ j.time <= clock /\ ~Days!Attended(j.user, j.day)
        /\ j.streak = Days!Yesterdays(j.user, j.day).streak + 1
        /\ \A v \in People, d \in Days!Days :
             Days!Attended(v, d) => d <= j.day /\ (d = j.day => stat[v][d].time < j.time)
    BY <1>5, <1>7 DEF Days!CheckInStands
  <2>4. QED
    BY <1>5, <2>1, <2>2, <2>3, SameAttendance DEF Days!CheckInStands
<1>10. job'[h] = k /\ \A g \in Handlers \ {h} : Days!CheckInStands(job[g])'
  BY <1>0, <1>5, <1>7 DEF Days!CheckInStands, Days!Resting
<1>11. QED
  BY <1>7, <1>8, <1>9, <1>10 DEF Days!CheckInsStand, Days!Idle

\* A row that was seen as it is gets its rank and keeps the rest.
LEMMA RerankedRow ==
  ASSUME NEW rows, NEW d \in Days!Days, NEW v \in DOMAIN rows, MaxDay \in Nat,
         \/ rows[v] \in Days!NewRowOf(d)
         \/ rows[v] \in Days!RowOf(d) /\ rows[v] = stat[v][d]
  PROVE  /\ Days!Reranked(rows, v, d).total = rows[v].total
         /\ Days!Reranked(rows, v, d).streak = rows[v].streak
         /\ Days!Reranked(rows, v, d).time = rows[v].time
         /\ Days!Reranked(rows, v, d).rank = Days!RankIn(rows, v)
<1>1. PICK rank : rank = Days!RankIn(rows, v)
  OBVIOUS
<1>2. PICK r : r = rows[v]
  OBVIOUS
<1>3. CASE r \in Days!NewRowOf(d)
  <2>1. Days!Reranked(rows, v, d) = [r EXCEPT !.rank = rank]
    BY <1>1, <1>2, <1>3 DEF Days!Reranked, Days!NewRowOf
  <2>2. QED
    BY <1>1, <1>2, <1>3, <2>1 DEF Days!NewRowOf
<1>4. CASE r \in Days!RowOf(d) /\ r = stat[v][d]
  <2>1. r.rank # 0
    BY <1>4 DEF Days!RowOf
  <2>2. Days!Reranked(rows, v, d) = IF rank = r.rank THEN r ELSE [r EXCEPT !.rank = rank]
    BY <1>1, <1>2, <1>4, <2>1 DEF Days!Reranked
  <2>3. QED
    BY <1>1, <1>2, <1>4, <2>2 DEF Days!RowOf
<1>5. QED
  BY <1>2, <1>3, <1>4

\* Streaks and times alone make the order, so a rank among rows that differ in
\* their ranks only is the same.
LEMMA SameRank ==
  ASSUME NEW rows, NEW others, DOMAIN others = DOMAIN rows, NEW u \in DOMAIN rows,
         \A v \in DOMAIN rows : /\ others[v].total = rows[v].total
                                /\ others[v].streak = rows[v].streak
                                /\ others[v].time = rows[v].time
  PROVE  Days!RankIn(others, u) = Days!RankIn(rows, u)
<1>1. \A v \in DOMAIN rows :
        Days!Better(others[v], others[u]) <=> Days!Better(rows[v], rows[u])
  BY DEF Days!Better
<1>2. {v \in DOMAIN others : Days!Better(others[v], others[u])} =
        {v \in DOMAIN rows : Days!Better(rows[v], rows[u])}
  BY <1>1
<1>3. QED
  BY <1>2 DEF Days!RankIn

\* The run that ends with a new row goes on from yesterday's.
LEMMA RunGoesOn ==
  ASSUME NEW u \in People, NEW d \in Days!Days, MaxDay \in Nat,
         Days!Attended(u, d)', NEW s,
         IF d > 1 /\ Days!Attended(u, d - 1)' THEN Days!IsRun(u, d - 1, s)' ELSE s = 0
  PROVE  Days!IsRun(u, d, s + 1)'
<1>1. d \in Nat /\ d >= 1
  BY DEF Days!Days
<1>2. CASE d > 1 /\ Days!Attended(u, d - 1)'
  <2>1. /\ s \in 1..(d - 1)
        /\ \A k \in (d - 1 - s + 1)..(d - 1) : Days!Attended(u, k)'
        /\ ~Days!Attended(u, d - 1 - s)'
    BY <1>2 DEF Days!IsRun
  <2>2. s + 1 \in 1..d /\ d - 1 - s = d - (s + 1) /\ d - (s + 1) + 1 = d - 1 - s + 1
    BY <1>1, <2>1
  <2>3. \A k \in (d - (s + 1) + 1)..d : Days!Attended(u, k)'
    BY <1>1, <2>1
  <2>4. QED
    BY <2>1, <2>2, <2>3 DEF Days!IsRun
<1>3. CASE ~(d > 1 /\ Days!Attended(u, d - 1)')
  <2>1. ~Days!Attended(u, d - 1)'
    BY <1>1, <1>3 DEF Days!Attended, Days!Days
  <2>2. s + 1 = 1 /\ 1 \in 1..d /\ \A k \in (d - 1 + 1)..d : k = d
    BY <1>1, <1>3
  <2>3. QED
    BY <2>1, <2>2 DEF Days!IsRun
<1>4. QED
  BY <1>2, <1>3

LEMMA CommitStandsStep ==
  ASSUME Days!FiniteInstance, AttendanceInv, NEW h \in Handlers, Days!CreateAttendance(h)
  PROVE  Days!CheckInsStand'
<1>0. /\ DayInv /\ Days!TypeOK /\ Days!StatsAreRows /\ DOMAIN job = Handlers
      /\ day \in Nat /\ clock \in Nat /\ MaxDay \in Nat /\ Days!MaxTime \in Nat
  BY DayNumbers
  DEF AttendanceInv, DayInv, CheckInInv, StatInv, Days!TypeOK, Days!CheckInsAreReal, Days!Days
<1>1. PICK j : j = job[h]
  OBVIOUS
<1>2. PICK u, d, rows : u = j.user /\ d = j.day /\ rows = j.rows
  OBVIOUS
<1>3. /\ j.op = "commit" /\ u \in People /\ d \in Days!Days /\ d \in Nat
      /\ u \in DOMAIN rows /\ DOMAIN rows \subseteq People
      /\ rows[u] \in Days!NewRowOf(d)
      /\ \A v \in DOMAIN rows \ {u} : Days!Attended(v, d) /\ rows[v] \in Days!RowOf(d)
      /\ \A v \in People :
           /\ stat'[v][d] = Days!Reranked(rows, v, d)
           /\ \A e \in Days!Days \ {d} : stat'[v][e] = stat[v][e]
      /\ \A v \in People, e \in Days!Days :
           Days!Attended(v, e)' <=> (Days!Attended(v, e) \/ (v = u /\ e = d))
  BY <1>0, <1>1, <1>2, CommitRows DEF Days!Days
<1>4. UNCHANGED <<day, clock, calm>> /\ Days!End(h)
  BY DEF Days!CreateAttendance, Days!End
<1>5. SUFFICES ASSUME calm PROVE Days!CheckInsStand'
  BY <1>4 DEF Days!CheckInsStand
<1>6. \A g \in Handlers : job'[g] = Days!Resting
  <2>1. ~Days!Idle(h)
    BY <1>1, <1>3 DEF Days!Idle, Days!Resting
  <2>2. \A g \in Handlers \ {h} : job[g] = Days!Resting
    BY <1>5, <2>1 DEF AttendanceInv, Days!CheckInsStand, Days!Idle
  <2>3. job' = [job EXCEPT ![h] = Days!Resting]
    BY <1>4 DEF Days!End
  <2>4. QED
    BY <1>0, <2>2, <2>3
<1>7. Days!RowsAreRight /\ Days!CheckInStands(j)
  BY <1>1, <1>5 DEF AttendanceInv, Days!CheckInsStand
<1>8. /\ d <= day /\ rows[u].time <= clock
      /\ ~Days!Attended(u, d)
      /\ rows[u].streak = Days!Yesterdays(u, d).streak + 1
      /\ \A v \in People, e \in Days!Days :
           Days!Attended(v, e) => e <= d /\ (e = d => stat[v][e].time < rows[u].time)
      /\ \A v \in People \ {u} : IF Days!Attended(v, d) THEN v \in DOMAIN rows /\ rows[v] = stat[v][d]
                                 ELSE v \notin DOMAIN rows
  BY <1>2, <1>3, <1>7 DEF Days!CheckInStands
<1>9. \A v \in People : v \in DOMAIN rows <=> Days!Attended(v, d)'
  BY <1>3, <1>8
<1>10. ASSUME NEW v \in DOMAIN rows
       PROVE  /\ stat'[v][d].total = rows[v].total
              /\ stat'[v][d].streak = rows[v].streak
              /\ stat'[v][d].time = rows[v].time
              /\ stat'[v][d].rank = Days!RankIn(rows, v)
  <2>1. rows[v] \in Days!NewRowOf(d) \/ (rows[v] \in Days!RowOf(d) /\ rows[v] = stat[v][d])
    BY <1>3, <1>8
  <2>2. stat'[v][d] = Days!Reranked(rows, v, d)
    BY <1>3
  <2>3. QED
    BY <1>0, <1>3, <2>1, <2>2, RerankedRow
<1>11. ASSUME NEW v \in People, NEW e \in Days!Days, Days!Attended(v, e)
       PROVE  /\ e <= d /\ e \in Nat /\ stat'[v][e].streak = stat[v][e].streak
              /\ stat'[v][e].time = stat[v][e].time /\ stat[v][e].time \in Nat
              /\ v # u \/ e # d
  <2>1. e <= d /\ e \in Nat /\ (v # u \/ e # d)
    BY <1>0, <1>8, <1>11 DEF Days!Days
  <2>2. CASE e = d
    BY <1>0, <1>8, <1>10, <1>11, <2>1, <2>2, AttendedRows DEF Days!RowOf
  <2>3. CASE e # d
    BY <1>0, <1>3, <1>11, <2>1, <2>3, AttendedRows DEF Days!RowOf
  <2>4. QED
    BY <2>1, <2>2, <2>3
<1>12. Days!Attended(u, d)' /\ stat'[u][d].time = rows[u].time /\ rows[u].time \in Nat
       /\ stat'[u][d].streak = rows[u].streak
  BY <1>3, <1>9, <1>10 DEF Days!NewRowOf
<1>13. ASSUME NEW v \in People, NEW e \in Days!Days, Days!Attended(v, e)'
       PROVE  /\ e <= day /\ stat'[v][e].time <= clock
              /\ \A w \in People : Days!Attended(w, e)' /\ stat'[w][e].time = stat'[v][e].time => v = w
  <2>1. e <= day /\ stat'[v][e].time <= clock
    BY <1>3, <1>7, <1>8, <1>11, <1>12, <1>13 DEF Days!RowsAreRight
  <2>2. ASSUME NEW w \in People, Days!Attended(w, e)', stat'[w][e].time = stat'[v][e].time
        PROVE  v = w
    <3>1. CASE Days!Attended(v, e) /\ Days!Attended(w, e)
      BY <1>7, <1>11, <2>2, <3>1 DEF Days!RowsAreRight
    <3>2. CASE ~(Days!Attended(v, e) /\ Days!Attended(w, e))
      <4>1. /\ Days!Attended(v, e) \/ (v = u /\ e = d)
            /\ Days!Attended(w, e) \/ (w = u /\ e = d)
        BY <1>3, <1>13, <2>2
      <4>2. Days!Attended(v, e) /\ e = d => stat'[v][e].time < stat'[u][e].time
        BY <1>8, <1>11, <1>12
      <4>3. Days!Attended(w, e) /\ e = d => stat'[w][e].time < stat'[u][e].time
        BY <1>8, <1>11, <1>12
      <4>4. e = d => stat'[u][e].time \in Nat
        BY <1>12
      <4>5. QED
        BY <2>2, <3>2, <4>1, <4>2, <4>3, <4>4
    <3>3. QED
      BY <3>1, <3>2
  <2>3. QED
    BY <2>1, <2>2
<1>14. ASSUME NEW v \in People, NEW e \in Days!Days, Days!Attended(v, e),
              NEW s, Days!IsRun(v, e, s)
       PROVE  Days!IsRun(v, e, s)'
  <2>1. /\ s \in 1..e /\ e <= d /\ e \in Nat
        /\ \A k \in (e - s + 1)..e : Days!Attended(v, k)
        /\ ~Days!Attended(v, e - s)
    BY <1>11, <1>14 DEF Days!IsRun
  <2>2. \A k \in (e - s + 1)..e : Days!Attended(v, k)'
    BY <1>3, <2>1 DEF Days!Attended
  <2>3. e - s # d /\ (e - s \in Days!Days \/ e - s \notin Days!Days)
    BY <1>3, <2>1
  <2>4. ~Days!Attended(v, e - s)'
    BY <1>3, <2>1, <2>3 DEF Days!Attended
  <2>5. QED
    BY <2>1, <2>2, <2>4 DEF Days!IsRun
<1>15. Days!IsRun(u, d, rows[u].streak)'
  <2>1. PICK s : s = Days!Yesterdays(u, d).streak
    OBVIOUS
  <2>2. CASE d > 1 /\ Days!Attended(u, d - 1)'
    <3>1. d - 1 \in Days!Days /\ d - 1 # d
      BY <1>0, <1>3, <2>2 DEF Days!Days
    <3>2. Days!Attended(u, d - 1) /\ s = stat[u][d - 1].streak
      BY <1>3, <2>1, <2>2, <3>1 DEF Days!Yesterdays
    <3>3. Days!IsRun(u, d - 1, s)
      BY <1>3, <1>7, <3>1, <3>2 DEF Days!RowsAreRight
    <3>4. Days!IsRun(u, d - 1, s)'
      BY <1>3, <1>14, <3>1, <3>2, <3>3
    <3>5. Days!IsRun(u, d, s + 1)'
      BY <1>0, <1>3, <1>12, <2>2, <3>4, RunGoesOn
    <3>6. QED
      BY <1>8, <2>1, <3>5
  <2>3. CASE ~(d > 1 /\ Days!Attended(u, d - 1)')
    <3>1. s = 0
      <4>1. CASE d = 1
        BY <2>1, <4>1 DEF Days!Yesterdays, Days!NoStat
      <4>2. CASE d # 1
        <5>1. d > 1 /\ d - 1 \in Days!Days /\ d - 1 # d
          BY <1>0, <1>3, <4>2 DEF Days!Days
        <5>2. ~Days!Attended(u, d - 1)
          BY <1>3, <2>3, <5>1
        <5>3. QED
          BY <2>1, <4>2, <5>1, <5>2 DEF Days!Yesterdays, Days!NoStat, Days!Attended
      <4>3. QED
        BY <4>1, <4>2
    <3>2. Days!IsRun(u, d, s + 1)'
      BY <1>0, <1>3, <1>12, <2>3, <3>1, RunGoesOn
    <3>3. QED
      BY <1>8, <2>1, <3>2
  <2>4. QED
    BY <2>2, <2>3
<1>16. ASSUME NEW v \in People, NEW e \in Days!Days, Days!Attended(v, e)'
       PROVE  Days!IsRun(v, e, stat[v][e].streak)'
  <2>1. CASE Days!Attended(v, e)
    <3>1. PICK s : s = stat[v][e].streak
      OBVIOUS
    <3>2. Days!IsRun(v, e, s)'
      BY <1>7, <1>14, <2>1, <3>1 DEF Days!RowsAreRight
    <3>3. stat'[v][e].streak = s
      BY <1>11, <2>1, <3>1
    <3>4. QED
      BY <3>2, <3>3 DEF Days!IsRun
  <2>2. CASE v = u /\ e = d
    BY <1>12, <1>15, <2>2 DEF Days!IsRun
  <2>3. QED
    BY <1>3, <1>16, <2>1, <2>2
<1>17. ASSUME NEW v \in People, NEW e \in Days!Days, Days!Attended(v, e)'
       PROVE  stat'[v][e].rank = Days!RankIn(Days!RowsOf(e)', v)
  <2>1. CASE e = d
    <3>1. PICK rs : rs = Days!RowsOf(d)'
      OBVIOUS
    <3>2. DOMAIN rs = {w \in People : Days!Attended(w, d)'}
      BY <3>1 DEF Days!RowsOf
    <3>3. DOMAIN rs = DOMAIN rows
      BY <1>3, <1>9, <3>2
    <3>4. \A w \in DOMAIN rs : rs[w] = stat'[w][d]
      BY <3>1 DEF Days!RowsOf
    <3>5. \A w \in DOMAIN rows : /\ rs[w].total = rows[w].total
                                 /\ rs[w].streak = rows[w].streak
                                 /\ rs[w].time = rows[w].time
      BY <1>10, <3>3, <3>4
    <3>6. v \in DOMAIN rows
      BY <1>9, <1>17, <2>1
    <3>7. Days!RankIn(rs, v) = Days!RankIn(rows, v)
      BY <3>3, <3>5, <3>6, SameRank
    <3>8. QED
      BY <1>10, <2>1, <3>1, <3>6, <3>7
  <2>2. CASE e # d
    <3>1. \A w \in People : /\ Days!Attended(w, e)' <=> Days!Attended(w, e)
                            /\ stat'[w][e] = stat[w][e]
      BY <1>3, <2>2
    <3>2. {w \in People : Days!Attended(w, e)'} = {w \in People : Days!Attended(w, e)}
      BY <3>1
    <3>3. Days!RowsOf(e)' = Days!RowsOf(e)
      BY <3>1, <3>2 DEF Days!RowsOf
    <3>4. QED
      BY <1>7, <1>17, <3>1, <3>3 DEF Days!RowsAreRight
  <2>3. QED
    BY <2>1, <2>2
<1>18. Days!RowsAreRight'
  <2>1. \A v \in People, e \in Days!Days :
          Days!Attended(v, e)' => stat'[v][e].rank = Days!RankIn(Days!RowsOf(e), v)'
    BY <1>17 DEF Days!RankIn
  <2>2. QED
    BY <1>4, <1>13, <1>16, <2>1 DEF Days!RowsAreRight
<1>19. QED
  BY <1>6, <1>18 DEF Days!CheckInsStand, Days!Idle, Days!CheckInStands, Days!Resting

\* Midnight, a failure, and a step of someone else leave the rows alone.
LEMMA QuietStandsStep ==
  ASSUME Days!FiniteInstance, AttendanceInv, day' \in Days!Days, day' >= day,
         UNCHANGED <<clock, stat, rewards, calm>>,
         \/ UNCHANGED job
         \/ \E h \in Handlers : Days!End(h)
  PROVE  Days!CheckInsStand'
<1>0. /\ Days!TypeOK /\ Days!StatsAreRows /\ DOMAIN job = Handlers /\ Days!CheckInsAreReal
      /\ day \in Nat /\ day' \in Nat /\ clock \in Nat /\ MaxDay \in Nat /\ Days!MaxTime \in Nat
  BY DayNumbers
  DEF AttendanceInv, DayInv, CheckInInv, StatInv, Days!TypeOK, Days!CheckInsAreReal, Days!Days
<1>1. \A g \in Handlers : job'[g] = job[g] \/ job'[g] = Days!Resting
  BY <1>0 DEF Days!End
<1>2. SUFFICES ASSUME calm PROVE Days!CheckInsStand'
  BY DEF Days!CheckInsStand
<1>3. Days!RowsAreRight'
  BY <1>0, <1>2, RowsRemainRight DEF AttendanceInv, Days!CheckInsStand
<1>4. ASSUME NEW g \in Handlers PROVE Days!CheckInStands(job[g])'
  <2>1. PICK j : j = job[g]
    OBVIOUS
  <2>2. CASE job'[g] = Days!Resting
    BY <2>2 DEF Days!CheckInStands, Days!Resting
  <2>3. CASE job'[g] = j /\ j.op \in {"insert", "commit"}
    <3>1. Days!CheckInStands(j)
      BY <1>2, <2>1 DEF AttendanceInv, Days!CheckInsStand
    <3>2. j.day \in Nat
      BY <1>0, <2>1, <2>3 DEF Days!CheckInsAreReal, Days!At, Days!Days
    <3>3. Days!Yesterdays(j.user, j.day)' = Days!Yesterdays(j.user, j.day)
      BY DEF Days!Yesterdays
    <3>4. Days!CheckInStands(j)'
      BY <1>0, <2>3, <3>1, <3>2, <3>3, SameAttendance DEF Days!CheckInStands
    <3>5. QED
      BY <2>3, <3>4 DEF Days!CheckInStands
  <2>4. CASE job'[g] = j /\ j.op \notin {"insert", "commit"}
    BY <2>4 DEF Days!CheckInStands
  <2>5. QED
    BY <1>1, <2>1, <2>2, <2>3, <2>4
<1>5. \A g, h \in Handlers : (Days!Idle(g) \/ Days!Idle(h) \/ g = h)'
  BY <1>1, <1>2 DEF AttendanceInv, Days!CheckInsStand, Days!Idle
<1>6. QED
  BY <1>3, <1>4, <1>5 DEF Days!CheckInsStand

LEMMA AttendanceInit == ASSUME Days!FiniteInstance, Days!Init PROVE AttendanceInv
<1>1. \A u \in People, d \in Days!Days : ~Days!Attended(u, d)
  BY DEF Days!Init, Days!Attended
<1>2. \A h \in Handlers : job[h] = Days!Resting
  BY DEF Days!Init, Days!NoJobs
<1>3. Days!RowsAreRight
  BY <1>1 DEF Days!RowsAreRight
<1>4. Days!CheckInsStand
  BY <1>2, <1>3 DEF Days!CheckInsStand, Days!CheckInStands, Days!Idle, Days!Resting
<1>5. QED
  BY <1>4, DayInit DEF AttendanceInv

LEMMA AttendanceStep ==
  ASSUME Days!FiniteInstance, AttendanceInv, [Days!Next]_(Days!vars)
  PROVE  AttendanceInv'
<1>1. DayInv'
  BY DayStep DEF AttendanceInv
<1>2. day \in Days!Days /\ day \in Nat /\ MaxDay \in Nat
  BY DayNumbers DEF AttendanceInv, DayInv, CheckInInv, StatInv, Days!TypeOK, Days!Days
<1>3. ASSUME NEW h \in Handlers,
             Days!AttendanceController(h) \/ Days!InsertStatistic(h) \/ Days!CreateAttendance(h)
      PROVE  Days!CheckInsStand'
  BY <1>3, CheckInStandsStep, InsertStandsStep, CommitStandsStep DEF Days!AttendanceController
<1>4. ASSUME NEW h \in Handlers, Days!Fail(h) PROVE Days!CheckInsStand'
  <2>1. /\ Days!End(h) /\ day' \in Days!Days /\ day' >= day
        /\ UNCHANGED <<clock, stat, rewards, calm>>
    BY <1>2, <1>4 DEF Days!Fail, Days!End
  <2>2. QED
    BY <2>1, QuietStandsStep
<1>5. ASSUME Days!Midnight PROVE Days!CheckInsStand'
  <2>1. day' \in Days!Days /\ day' >= day
    BY <1>2, <1>5 DEF Days!Midnight, Days!Days
  <2>2. QED
    BY <1>5, <2>1, QuietStandsStep DEF Days!Midnight
<1>6. ASSUME UNCHANGED Days!vars PROVE Days!CheckInsStand'
  BY <1>2, <1>6, QuietStandsStep DEF Days!vars
<1>7. QED
  BY <1>1, <1>3, <1>4, <1>5, <1>6 DEF Days!Next, AttendanceInv

LEMMA AttendanceInvHolds == ASSUME Days!FiniteInstance PROVE Days!Spec => []AttendanceInv
<1>1. Days!FiniteInstance /\ Days!Init => AttendanceInv
  BY AttendanceInit
<1>2. AttendanceInv /\ [Days!Next]_(Days!vars) => AttendanceInv'
  BY AttendanceStep
<1>3. QED
  BY <1>1, <1>2, PTL DEF Days!Spec

\* Places among the rows of a day number them in their order.
LEMMA CalmRanks ==
  ASSUME Days!FiniteInstance, AttendanceInv
  PROVE  Days!CalmAttendance
<1>0. /\ Days!StatsAreRows /\ MaxDay \in Nat /\ Days!MaxTime \in Nat /\ IsFiniteSet(People)
  BY DayNumbers, SameFiniteSets
  DEF AttendanceInv, DayInv, CheckInInv, StatInv, Days!FiniteInstance
<1>1. SUFFICES ASSUME calm, NEW d \in Days!Days
               PROVE  /\ \A u \in {v \in People : Days!Attended(v, d)} :
                           Days!IsRun(u, d, stat[u][d].streak)
                      /\ {stat[u][d].rank : u \in {v \in People : Days!Attended(v, d)}} =
                           1..Days!Cardinality({v \in People : Days!Attended(v, d)})
                      /\ \A u, w \in {v \in People : Days!Attended(v, d)} :
                           Days!Better(stat[u][d], stat[w][d]) => stat[u][d].rank < stat[w][d].rank
  BY DEF Days!CalmAttendance
<1>2. Days!RowsAreRight
  BY <1>1 DEF AttendanceInv, Days!CheckInsStand
<1>3. PICK here : here = {v \in People : Days!Attended(v, d)}
  OBVIOUS
<1>4. PICK rows : rows = Days!RowsOf(d)
  OBVIOUS
<1>5. /\ DOMAIN rows = here /\ here \subseteq People
      /\ \A u \in here : rows[u] = stat[u][d] /\ Days!Attended(u, d)
  BY <1>3, <1>4 DEF Days!RowsOf
<1>6. IsFiniteSet(DOMAIN rows)
  BY <1>0, <1>5, FS_Subset
<1>7. \A u \in DOMAIN rows : /\ rows[u].total \in Int /\ rows[u].streak \in Int
                             /\ rows[u].time \in Int
  BY <1>0, <1>1, <1>5, AttendedRows DEF Days!RowOf
<1>8. \A u, w \in DOMAIN rows : rows[u].time = rows[w].time => u = w
  BY <1>2, <1>5 DEF Days!RowsAreRight
<1>9. \A u \in here : /\ stat[u][d].rank = Days!RankIn(rows, u)
                      /\ Days!IsRun(u, d, stat[u][d].streak)
  BY <1>2, <1>4, <1>5 DEF Days!RowsAreRight
<1>10. {Days!RankIn(rows, u) : u \in DOMAIN rows} = 1..Cardinality(DOMAIN rows)
  BY <1>6, <1>7, <1>8, RanksNumberRows
<1>11. {stat[u][d].rank : u \in here} = {Days!RankIn(rows, u) : u \in DOMAIN rows}
  BY <1>5, <1>9
<1>12. {stat[u][d].rank : u \in here} = 1..Days!Cardinality(here)
  BY <1>5, <1>10, <1>11, SameFiniteSets
<1>13. ASSUME NEW u \in here, NEW w \in here, Days!Better(stat[u][d], stat[w][d])
       PROVE  stat[u][d].rank < stat[w][d].rank
  <2>1. Days!RankIn(rows, u) < Days!RankIn(rows, w)
    BY <1>5, <1>6, <1>7, <1>13, RanksFollowOrder
  <2>2. QED
    BY <1>9, <2>1
<1>14. QED
  BY <1>3, <1>9, <1>12, <1>13

-----------------------------------------------------------------------------
(* Telephone numbers                                                        *)

NumbersInv ==
  /\ Numbers!RowsAreTyped /\ Numbers!JobsAreReal /\ Numbers!ChecksStand
  /\ calm => Numbers!SentIsCounted /\ Numbers!NumbersAreTheirs

LEMMA NoOtpIsNoRow ==
  /\ Numbers!NoOtp \notin Numbers!OtpRequest
  /\ Numbers!NoOtp.user = None /\ ~Numbers!NoOtp.recent /\ Numbers!NoOtp.count = 0
  /\ ~Numbers!NoOtp.code /\ ~Numbers!NoOtp.token
  /\ Numbers!SentIn(Numbers!NoOtp) = 0
<1>1. /\ Numbers!NoOtp.user = None /\ ~Numbers!NoOtp.recent /\ Numbers!NoOtp.count = 0
      /\ ~Numbers!NoOtp.code /\ ~Numbers!NoOtp.token
  BY DEF Numbers!NoOtp
<1>2. \A otpRow \in Numbers!OtpRequest : otpRow.count # 0
  BY DEF Numbers!OtpRequest
<1>3. Numbers!SentIn(Numbers!NoOtp) = 0
  BY <1>1 DEF Numbers!SentIn
<1>4. QED
  BY <1>1, <1>2, <1>3

LEMMA NumbersRest ==
  /\ Numbers!Resting.op = "none"
  /\ \A h : Numbers!Idle(h) => job[h].op = "none"
BY DEF Numbers!Resting, Numbers!Idle

\* A check begins a use case for which it stands.
LEMMA NumberBegins ==
  ASSUME NumbersInv, NEW h \in Handlers, NEW j, Numbers!Begin(h, j),
         UNCHANGED <<otp, phoneOf, sent>>, Numbers!JobIsReal(j),
         j.op \in {"request", "verify", "register", "profile", "save"},
         calm => Numbers!CheckStands(j)
  PROVE  NumbersInv'
<1>1. /\ DOMAIN job = Handlers /\ Numbers!Idle(h)
      /\ job' = [job EXCEPT ![h] = j]
  BY DEF NumbersInv, Numbers!JobsAreReal, Numbers!Begin
<1>2. calm' => calm /\ \A g \in Handlers \ {h} : Numbers!Idle(g)
  BY Zenon DEF Numbers!Begin
<1>3. /\ DOMAIN job' = Handlers /\ job'[h] = j
      /\ \A g \in Handlers \ {h} : job'[g] = job[g]
  BY <1>1
<1>4. Numbers!RowsAreTyped'
  BY DEF NumbersInv, Numbers!RowsAreTyped
<1>5. Numbers!JobsAreReal'
  BY <1>3 DEF NumbersInv, Numbers!JobsAreReal
<1>6. calm' => Numbers!SentIsCounted' /\ Numbers!NumbersAreTheirs'
  BY <1>2 DEF NumbersInv, Numbers!SentIsCounted, Numbers!NumbersAreTheirs
<1>7. Numbers!ChecksStand'
  <2>1. SUFFICES ASSUME calm' PROVE Numbers!ChecksStand'
    BY DEF Numbers!ChecksStand
  <2>2. calm /\ \A g \in Handlers \ {h} : job'[g] = Numbers!Resting /\ job'[g].op = "none"
    BY <1>2, <1>3, <2>1, NumbersRest DEF Numbers!Idle
  <2>3. \A g \in Handlers \ {h} : Numbers!CheckStands(job[g])'
    BY <2>2 DEF Numbers!CheckStands
  <2>4. Numbers!CheckStands(job[h])'
    BY <1>3, <2>2 DEF Numbers!CheckStands
  <2>5. QED
    BY <2>2, <2>3, <2>4 DEF Numbers!ChecksStand, Numbers!Idle
<1>8. QED
  BY <1>4, <1>5, <1>6, <1>7 DEF NumbersInv

\* What ends was alone, and what it had checked is so.
LEMMA NumberEnds ==
  ASSUME NumbersInv, NEW h \in Handlers, ~Numbers!Idle(h), Numbers!End(h)
  PROVE  /\ Numbers!JobsAreReal' /\ Numbers!ChecksStand' /\ calm' = calm
         /\ calm => /\ Numbers!CheckStands(job[h])
                    /\ Numbers!SentIsCounted /\ Numbers!NumbersAreTheirs
<1>1. /\ DOMAIN job = Handlers /\ job' = [job EXCEPT ![h] = Numbers!Resting] /\ calm' = calm
  BY DEF NumbersInv, Numbers!JobsAreReal, Numbers!End
<1>2. /\ DOMAIN job' = Handlers /\ job'[h] = Numbers!Resting
      /\ \A g \in Handlers \ {h} : job'[g] = job[g]
  BY <1>1
<1>3. Numbers!JobsAreReal'
  BY <1>2, NumbersRest DEF NumbersInv, Numbers!JobsAreReal, Numbers!JobIsReal
<1>4. Numbers!ChecksStand'
  <2>1. SUFFICES ASSUME calm PROVE Numbers!ChecksStand'
    BY <1>1 DEF Numbers!ChecksStand
  <2>2. \A g \in Handlers : job'[g] = Numbers!Resting /\ job'[g].op = "none"
    BY <1>2, <2>1, NumbersRest DEF NumbersInv, Numbers!ChecksStand, Numbers!Idle
  <2>3. QED
    BY <2>2 DEF Numbers!ChecksStand, Numbers!CheckStands, Numbers!Idle
<1>5. QED
  BY <1>1, <1>3, <1>4 DEF NumbersInv, Numbers!ChecksStand

LEMMA NumberCheck ==
  ASSUME NumbersInv, NEW h \in Handlers,
         \/ Numbers!AuthController(h)
         \/ \E u \in People, p \in Phones : Numbers!CheckUpdateProfile(h, u, p)
         \/ \E u \in People : Numbers!CheckSaveProfile(h, u)
  PROVE  NumbersInv'
<1>0. /\ Numbers!RowsAreTyped
      /\ \A p \in Phones : otp[p] \in Numbers!OtpRequest \cup {Numbers!NoOtp}
      /\ calm => Numbers!SentIsCounted
  BY DEF NumbersInv, Numbers!RowsAreTyped
<1>1. ASSUME NEW p \in Phones, Numbers!CheckRequestOtp(h, p) PROVE NumbersInv'
  <2> DEFINE j == [op |-> "request", phone |-> p, row |-> otp[p]]
  <2>1. /\ Numbers!Begin(h, j) /\ UNCHANGED <<otp, phoneOf, sent>>
        /\ ~Numbers!Verified(otp[p]) /\ Numbers!BelowLimit(otp[p])
    BY <1>1 DEF Numbers!CheckRequestOtp, Numbers!SameUsers
  <2>2. Numbers!JobIsReal(j)
    BY <1>0, <2>1 DEF Numbers!JobIsReal
  <2>3. calm => Numbers!CheckStands(j)
    BY <1>0, <2>1 DEF Numbers!CheckStands, Numbers!SentIsCounted
  <2>4. QED
    BY <2>1, <2>2, <2>3, NumberBegins
<1>2. ASSUME NEW p \in Phones, Numbers!CheckVerifyOtp(h, p) PROVE NumbersInv'
  <2> DEFINE j == [op |-> "verify", phone |-> p, row |-> otp[p]]
  <2>1. /\ Numbers!Begin(h, j) /\ UNCHANGED <<otp, phoneOf, sent>>
        /\ ~Numbers!Verified(otp[p]) /\ otp[p].code
    BY <1>2 DEF Numbers!CheckVerifyOtp, Numbers!SameUsers
  <2>2. Numbers!JobIsReal(j)
    BY <1>0, <2>1, NoOtpIsNoRow DEF Numbers!JobIsReal
  <2>3. calm => Numbers!CheckStands(j)
    BY <1>0, <2>1 DEF Numbers!CheckStands, Numbers!SentIsCounted
  <2>4. QED
    BY <2>1, <2>2, <2>3, NumberBegins
<1>3. ASSUME NEW u \in People, NEW p \in Phones, Numbers!CheckRegister(h, u, p)
      PROVE  NumbersInv'
  <2> DEFINE j == [op |-> "register", user |-> u, phone |-> p]
  <2>1. /\ Numbers!Begin(h, j) /\ UNCHANGED <<otp, phoneOf, sent>>
        /\ ~Numbers!Verified(otp[p]) /\ otp[p].token
    BY <1>3 DEF Numbers!CheckRegister, Numbers!SameUsers
  <2>2. Numbers!JobIsReal(j)
    BY DEF Numbers!JobIsReal
  <2>3. calm => Numbers!CheckStands(j)
    BY <2>1, NoOtpIsNoRow DEF Numbers!CheckStands
  <2>4. QED
    BY <2>1, <2>2, <2>3, NumberBegins
<1>4. ASSUME NEW u \in People, NEW p \in Phones, Numbers!CheckUpdateProfile(h, u, p)
      PROVE  NumbersInv'
  <2> DEFINE j == [op |-> "profile", user |-> u, phone |-> p, current |-> phoneOf[u]]
  <2>1. /\ Numbers!Begin(h, j) /\ UNCHANGED <<otp, phoneOf, sent>>
        /\ p # phoneOf[u] /\ otp[p].token
        /\ otp[p].user # None => otp[p].user = u
    BY <1>4 DEF Numbers!CheckUpdateProfile, Numbers!SameUsers, Numbers!Verified
  <2>2. Numbers!JobIsReal(j)
    BY <1>0 DEF Numbers!JobIsReal, Numbers!RowsAreTyped
  <2>3. calm => Numbers!CheckStands(j)
    BY <2>1, NoOtpIsNoRow DEF Numbers!CheckStands
  <2>4. QED
    BY <2>1, <2>2, <2>3, NumberBegins
<1>5. ASSUME NEW u \in People, Numbers!CheckSaveProfile(h, u)
      PROVE  NumbersInv'
  <2> DEFINE j == [op |-> "save", user |-> u, current |-> phoneOf[u]]
  <2>1. Numbers!Begin(h, j) /\ UNCHANGED <<otp, phoneOf, sent>>
    BY <1>5 DEF Numbers!CheckSaveProfile, Numbers!SameUsers
  <2>2. Numbers!JobIsReal(j)
    BY <1>0 DEF Numbers!JobIsReal, Numbers!RowsAreTyped
  <2>3. calm => Numbers!CheckStands(j)
    BY DEF Numbers!CheckStands
  <2>4. QED
    BY <2>1, <2>2, <2>3, NumberBegins
<1>6. QED
  BY <1>1, <1>2, <1>3, <1>4, <1>5 DEF Numbers!AuthController

\* A row is saved for a number nobody has, and the codes sent are counted in it.
LEMMA OtpSaved ==
  ASSUME NumbersInv, Numbers!NoneIsNobody, NEW h \in Handlers, ~Numbers!Idle(h), Numbers!End(h),
         NEW p \in Phones, NEW otpRow \in Numbers!OtpRequest, NEW n \in Nat,
         otp' = [otp EXCEPT ![p] = otpRow], sent' = [sent EXCEPT ![p] = n],
         UNCHANGED phoneOf,
         calm => otp[p].user = None /\ n <= Numbers!SentIn(otpRow)
  PROVE  NumbersInv'
<1>1. /\ Numbers!JobsAreReal' /\ Numbers!ChecksStand' /\ calm' = calm
      /\ calm => Numbers!SentIsCounted /\ Numbers!NumbersAreTheirs
  BY NumberEnds
<1>2. /\ Numbers!RowsAreTyped'
      /\ otp'[p] = otpRow /\ sent'[p] = n
      /\ \A q \in Phones \ {p} : otp'[q] = otp[q] /\ sent'[q] = sent[q]
  BY DEF NumbersInv, Numbers!RowsAreTyped
<1>3. ASSUME calm PROVE Numbers!SentIsCounted'
  BY <1>1, <1>2, <1>3 DEF Numbers!SentIsCounted, Numbers!SentIn
<1>4. ASSUME calm PROVE Numbers!NumbersAreTheirs'
  <2>1. SUFFICES ASSUME NEW u \in People, phoneOf[u] # None
                 PROVE  otp'[phoneOf[u]].user = u
    BY DEF Numbers!NumbersAreTheirs
  <2>2. otp[phoneOf[u]].user = u /\ u # None
    BY <1>1, <1>4, <2>1 DEF Numbers!NumbersAreTheirs, Numbers!NoneIsNobody
  <2>3. phoneOf[u] \in Phones \ {p}
    BY <1>4, <2>1, <2>2 DEF NumbersInv, Numbers!RowsAreTyped
  <2>4. QED
    BY <1>2, <2>2, <2>3
<1>5. QED
  BY <1>1, <1>2, <1>3, <1>4 DEF NumbersInv

\* The rows that are saved are rows again.
LEMMA RowRequested ==
  ASSUME NEW r \in Numbers!OtpRequest \cup {Numbers!NoOtp}, NEW n \in 1..MaxRequests,
         NEW s, s = [r EXCEPT !.code = TRUE, !.user = None, !.recent = TRUE, !.count = n]
  PROVE  s \in Numbers!OtpRequest /\ s.recent /\ s.count = n
<1> DEFINE Wide == [code: BOOLEAN, token: BOOLEAN, user: People \cup {None},
                   count: (1..MaxRequests) \cup {0}, recent: BOOLEAN]
<1>1. Numbers!NoOtp \in Wide
  BY DEF Numbers!NoOtp
<1>2. \A t \in Numbers!OtpRequest : t \in Wide
  BY DEF Numbers!OtpRequest
<1>3. r \in Wide
  BY <1>1, <1>2
<1>4. QED
  BY <1>3 DEF Numbers!OtpRequest

\* A function that has the value already is left as it is.
LEMMA SameValue ==
  ASSUME NEW f, f = [x \in DOMAIN f |-> f[x]], NEW y, NEW v, f[y] = v
  PROVE  [f EXCEPT ![y] = v] = f
OBVIOUS

LEMMA NoOtpCleared ==
  ASSUME NEW v, v = FALSE
  PROVE  [Numbers!NoOtp EXCEPT !.token = v] = Numbers!NoOtp
<1>1. Numbers!NoOtp = [x \in DOMAIN Numbers!NoOtp |-> Numbers!NoOtp[x]]
  BY DEF Numbers!NoOtp
<1>2. Numbers!NoOtp["token"] = v
  BY DEF Numbers!NoOtp
<1>3. QED
  BY <1>1, <1>2, SameValue

LEMMA RequestStep ==
  ASSUME NumbersInv, Numbers!NoneIsNobody, Numbers!LimitIsPositive,
         NEW h \in Handlers, Numbers!RequestOtpPhone(h) \/ Numbers!VerifyOtp(h)
  PROVE  NumbersInv'
<1> DEFINE p == job[h].phone
<1> DEFINE read == job[h].row
<1>0. /\ ~Numbers!Idle(h) /\ Numbers!End(h) /\ UNCHANGED phoneOf
      /\ job[h].op \in {"request", "verify"}
      /\ Numbers!JobIsReal(job[h]) /\ Numbers!RowsAreTyped
  BY NumbersRest
  DEF Numbers!RequestOtpPhone, Numbers!VerifyOtp, Numbers!At, Numbers!SameUsers,
      NumbersInv, Numbers!JobsAreReal
<1>1. p \in Phones /\ sent[p] \in Nat /\ MaxRequests \in Nat \ {0}
  BY <1>0 DEF Numbers!JobIsReal, Numbers!RowsAreTyped, Numbers!LimitIsPositive
<1>2. calm => /\ otp[p].user = None /\ read.user = None
              /\ sent[p] <= Numbers!SentIn(read)
  BY <1>0, NumberEnds DEF Numbers!CheckStands, Numbers!Verified
<1>3. CASE Numbers!RequestOtpPhone(h)
  <2> DEFINE otpRow == [read EXCEPT !.code = TRUE, !.user = None, !.recent = TRUE,
                                    !.count = Numbers!Counted(read)]
  <2> DEFINE n == IF sent[p] > MaxRequests THEN sent[p] ELSE sent[p] + 1
  <2>1. /\ job[h].op = "request"
        /\ otp' = [otp EXCEPT ![p] = otpRow] /\ sent' = [sent EXCEPT ![p] = n]
    BY <1>0, <1>1, <1>3
    DEF Numbers!RequestOtpPhone, Numbers!At, Numbers!RowsAreTyped
  <2>2. /\ read \in Numbers!OtpRequest \cup {Numbers!NoOtp}
        /\ read.recent => read.count < MaxRequests
    BY <1>0, <2>1 DEF Numbers!JobIsReal, Numbers!BelowLimit
  <2>3. Numbers!Counted(read) \in 1..MaxRequests
    BY <1>1, <2>2, NoOtpIsNoRow DEF Numbers!Counted, Numbers!OtpRequest
  <2>4. otpRow \in Numbers!OtpRequest /\ otpRow.recent /\ otpRow.count = Numbers!Counted(read)
    BY <2>2, <2>3, RowRequested
  <2>5. n \in Nat
    BY <1>1
  <2>6. ASSUME calm PROVE n <= Numbers!SentIn(otpRow)
    <3>1. sent[p] <= IF read.recent THEN read.count ELSE 0
      BY <1>2, <2>6 DEF Numbers!SentIn
    <3>2. sent[p] + 1 <= Numbers!Counted(read)
      BY <1>1, <2>2, <2>3, <3>1, NoOtpIsNoRow DEF Numbers!Counted, Numbers!OtpRequest
    <3>3. sent[p] < MaxRequests
      BY <1>1, <2>3, <3>2
    <3>4. n = sent[p] + 1
      BY <1>1, <3>3
    <3>5. QED
      BY <2>4, <3>2, <3>4 DEF Numbers!SentIn
  <2> HIDE DEF otpRow, n
  <2>7. QED
    BY <1>0, <1>1, <1>2, <2>1, <2>4, <2>5, <2>6, OtpSaved
<1>4. CASE Numbers!VerifyOtp(h)
  <2> DEFINE otpRow == [read EXCEPT !.token = TRUE]
  <2>1. /\ job[h].op = "verify" /\ read \in Numbers!OtpRequest
        /\ otp' = [otp EXCEPT ![p] = otpRow] /\ UNCHANGED sent
    BY <1>0, <1>4 DEF Numbers!VerifyOtp, Numbers!At, Numbers!JobIsReal
  <2>2. /\ otpRow \in Numbers!OtpRequest
        /\ otpRow.recent = read.recent /\ otpRow.count = read.count
    BY <2>1 DEF Numbers!OtpRequest
  <2>3. sent' = [sent EXCEPT ![p] = sent[p]]
    BY <1>0, <2>1 DEF Numbers!RowsAreTyped
  <2>4. calm => sent[p] <= Numbers!SentIn(otpRow)
    BY <1>2, <2>2 DEF Numbers!SentIn
  <2> HIDE DEF otpRow
  <2>5. QED
    BY <1>0, <1>1, <1>2, <2>1, <2>2, <2>3, <2>4, OtpSaved
<1>5. QED
  BY <1>0, <1>3, <1>4

\* Somebody gets a number whose row becomes his, and gives up the one he has, whose
\* row may go; the other rows keep their counts.
LEMMA NumberGiven ==
  ASSUME NumbersInv, Numbers!NoneIsNobody, NEW h \in Handlers, ~Numbers!Idle(h), Numbers!End(h),
         NEW u \in People, NEW p \in Phones, phoneOf' = [phoneOf EXCEPT ![u] = p],
         otp' \in [Phones -> Numbers!OtpRequest \cup {Numbers!NoOtp}],
         sent' \in [Phones -> Nat],
         calm =>
           /\ otp[p].user \in {None, u} /\ otp'[p].user = u
           /\ \A q \in Phones \ {p} : otp'[q] = otp[q] \/ otp[q].user = u
           /\ \A q \in Phones : sent'[q] <= Numbers!SentIn(otp'[q])
  PROVE  NumbersInv'
<1>1. /\ Numbers!JobsAreReal' /\ Numbers!ChecksStand' /\ calm' = calm
      /\ calm => Numbers!SentIsCounted /\ Numbers!NumbersAreTheirs
  BY NumberEnds
<1>2. /\ phoneOf \in [People -> Phones \cup {None}] /\ Numbers!RowsAreTyped'
      /\ phoneOf'[u] = p /\ \A w \in People \ {u} : phoneOf'[w] = phoneOf[w]
  BY DEF NumbersInv, Numbers!RowsAreTyped
<1>3. ASSUME calm PROVE Numbers!SentIsCounted'
  BY <1>3 DEF Numbers!SentIsCounted, Numbers!SentIn
<1>4. ASSUME calm PROVE Numbers!NumbersAreTheirs'
  <2>1. SUFFICES ASSUME NEW w \in People, phoneOf'[w] # None
                 PROVE  otp'[phoneOf'[w]].user = w
    BY DEF Numbers!NumbersAreTheirs
  <2>2. CASE w = u
    BY <1>2, <1>4, <2>2
  <2>3. CASE w # u
    <3>1. PICK q \in Phones : q = phoneOf[w] /\ q = phoneOf'[w] /\ otp[q].user = w
      BY <1>1, <1>2, <1>4, <2>1, <2>3 DEF Numbers!NumbersAreTheirs
    <3>2. q # p
      BY <1>4, <2>3, <3>1 DEF Numbers!NoneIsNobody
    <3>3. QED
      BY <1>4, <2>3, <3>1, <3>2
  <2>4. QED
    BY <2>2, <2>3
<1>5. QED
  BY <1>1, <1>2, <1>3, <1>4 DEF NumbersInv

\* A row that is marked is the one of its number, with a user.
LEMMA MarkedIsTyped ==
  ASSUME NEW rows \in [Phones -> Numbers!OtpRequest \cup {Numbers!NoOtp}],
         NEW p \in Phones, NEW u \in People
  PROVE  LET marked == Numbers!MarkedVerified(rows, p, u)
         IN  /\ marked \in [Phones -> Numbers!OtpRequest \cup {Numbers!NoOtp}]
             /\ \A q \in Phones \ {p} : marked[q] = rows[q]
             /\ rows[p] # Numbers!NoOtp => marked[p].user = u
             /\ marked[p].recent = rows[p].recent /\ marked[p].count = rows[p].count
             /\ marked[p] = Numbers!NoOtp <=> rows[p] = Numbers!NoOtp
<1>1. CASE rows[p] = Numbers!NoOtp
  BY <1>1 DEF Numbers!MarkedVerified
<1>2. CASE rows[p] # Numbers!NoOtp
  <2> DEFINE otpRow == [rows[p] EXCEPT !.user = u]
  <2>1. Numbers!MarkedVerified(rows, p, u) = [rows EXCEPT ![p] = otpRow]
    BY <1>2 DEF Numbers!MarkedVerified
  <2>2. /\ otpRow \in Numbers!OtpRequest /\ otpRow.user = u
        /\ otpRow.recent = rows[p].recent /\ otpRow.count = rows[p].count
    BY <1>2 DEF Numbers!OtpRequest
  <2> HIDE DEF otpRow
  <2>3. QED
    BY <1>2, <2>1, <2>2, NoOtpIsNoRow
<1>3. QED
  BY <1>1, <1>2

LEMMA RegisterStep ==
  ASSUME NumbersInv, Numbers!NoneIsNobody, NEW h \in Handlers, Numbers!Register(h)
  PROVE  NumbersInv'
<1> DEFINE p == job[h].phone
<1> DEFINE u == job[h].user
<1> DEFINE rows == [otp EXCEPT ![p].token = FALSE]
<1>0. /\ ~Numbers!Idle(h) /\ Numbers!End(h) /\ UNCHANGED sent /\ job[h].op = "register"
      /\ Numbers!JobIsReal(job[h]) /\ Numbers!RowsAreTyped
      /\ phoneOf' = [phoneOf EXCEPT ![u] = p]
      /\ otp' = Numbers!MarkedVerified(rows, p, u)
  BY NumbersRest
  DEF Numbers!Register, Numbers!At, NumbersInv, Numbers!JobsAreReal
<1>1. p \in Phones /\ u \in People
  BY <1>0 DEF Numbers!JobIsReal
<1>2. /\ rows \in [Phones -> Numbers!OtpRequest \cup {Numbers!NoOtp}]
      /\ \A q \in Phones \ {p} : rows[q] = otp[q]
      /\ rows[p].recent = otp[p].recent /\ rows[p].count = otp[p].count
      /\ otp[p] # Numbers!NoOtp => rows[p] # Numbers!NoOtp
  <2> DEFINE otpRow == [otp[p] EXCEPT !.token = FALSE]
  <2>1. CASE otp[p] = Numbers!NoOtp
    <3>1. otpRow = Numbers!NoOtp
      BY <2>1, NoOtpCleared
    <3>2. rows = otp
      BY <1>0, <1>1, <2>1, <3>1 DEF Numbers!RowsAreTyped
    <3>3. QED
      BY <1>0, <2>1, <3>2 DEF Numbers!RowsAreTyped
  <2>2. CASE otp[p] # Numbers!NoOtp
    <3>1. /\ otpRow \in Numbers!OtpRequest
          /\ otpRow.recent = otp[p].recent /\ otpRow.count = otp[p].count
      BY <1>0, <1>1, <2>2 DEF Numbers!RowsAreTyped, Numbers!OtpRequest
    <3>2. rows = [otp EXCEPT ![p] = otpRow]
      BY <1>0, <1>1 DEF Numbers!RowsAreTyped
    <3> HIDE DEF otpRow, rows
    <3>3. QED
      BY <1>0, <1>1, <3>1, <3>2, NoOtpIsNoRow DEF Numbers!RowsAreTyped
  <2>3. QED
    BY <2>1, <2>2
<1> HIDE DEF rows
<1>3. /\ otp' \in [Phones -> Numbers!OtpRequest \cup {Numbers!NoOtp}]
      /\ \A q \in Phones \ {p} : otp'[q] = otp[q]
      /\ otp[p] # Numbers!NoOtp => otp'[p].user = u
      /\ \A q \in Phones : otp'[q].recent = otp[q].recent /\ otp'[q].count = otp[q].count
  <2> DEFINE marked == Numbers!MarkedVerified(rows, p, u)
  <2>1. /\ marked \in [Phones -> Numbers!OtpRequest \cup {Numbers!NoOtp}]
        /\ \A q \in Phones \ {p} : marked[q] = rows[q]
        /\ rows[p] # Numbers!NoOtp => marked[p].user = u
        /\ marked[p].recent = rows[p].recent /\ marked[p].count = rows[p].count
    BY <1>1, <1>2, MarkedIsTyped
  <2>2. otp' = marked
    BY <1>0
  <2> HIDE DEF marked
  <2>3. QED
    BY <1>1, <1>2, <2>1, <2>2
<1>4. ASSUME calm
      PROVE  /\ otp[p].user = None /\ otp'[p].user = u
             /\ \A q \in Phones : sent'[q] <= Numbers!SentIn(otp'[q])
  <2>1. Numbers!CheckStands(job[h]) /\ Numbers!SentIsCounted
    BY <1>0, <1>4, NumberEnds
  <2>2. QED
    BY <1>0, <1>3, <2>1
    DEF Numbers!CheckStands, Numbers!Verified, Numbers!SentIsCounted, Numbers!SentIn
<1>5. sent' \in [Phones -> Nat]
  BY <1>0 DEF Numbers!RowsAreTyped
<1>6. QED
  BY <1>0, <1>1, <1>3, <1>4, <1>5, NumberGiven

LEMMA ProfileStep ==
  ASSUME NumbersInv, Numbers!NoneIsNobody, Numbers!LimitIsPositive,
         NEW h \in Handlers, Numbers!UpdateProfile(h)
  PROVE  NumbersInv'
<1> DEFINE p == job[h].phone
<1> DEFINE u == job[h].user
<1> DEFINE current == job[h].current
<1>0. /\ ~Numbers!Idle(h) /\ Numbers!End(h) /\ job[h].op = "profile"
      /\ Numbers!JobIsReal(job[h]) /\ Numbers!RowsAreTyped
      /\ phoneOf' = [phoneOf EXCEPT ![u] = p]
      /\ sent' = [q \in Phones |-> IF otp'[q] = Numbers!NoOtp THEN 0 ELSE sent[q]]
      /\ \E rows \in Numbers!WithoutOldRow(u, current) :
           otp' = Numbers!MarkedVerified(rows, p, u)
  BY NumbersRest
  DEF Numbers!UpdateProfile, Numbers!At, NumbersInv, Numbers!JobsAreReal
<1>1. p \in Phones /\ u \in People /\ current \in Phones \cup {None}
  BY <1>0 DEF Numbers!JobIsReal
<1>2. PICK rows \in Numbers!WithoutOldRow(u, current) :
             otp' = Numbers!MarkedVerified(rows, p, u)
  BY <1>0
<1>3. /\ rows \in [Phones -> Numbers!OtpRequest \cup {Numbers!NoOtp}]
      /\ \A q \in Phones \ {current} : rows[q] = otp[q]
      /\ \A q \in Phones : rows[q] = otp[q] \/ (rows[q] = Numbers!NoOtp /\ otp[q].user = u)
  <2>1. CASE rows = otp
    BY <1>0, <2>1 DEF Numbers!RowsAreTyped
  <2>2. CASE rows # otp
    <3>1. /\ current \in Phones /\ otp[current].user = u
          /\ rows = [otp EXCEPT ![current] = Numbers!NoOtp]
      BY <1>1, <1>2, <2>2 DEF Numbers!WithoutOldRow
    <3>2. QED
      BY <1>0, <3>1 DEF Numbers!RowsAreTyped
  <2>3. QED
    BY <2>1, <2>2
<1>4. /\ otp' \in [Phones -> Numbers!OtpRequest \cup {Numbers!NoOtp}]
      /\ \A q \in Phones \ {p} : otp'[q] = rows[q]
      /\ rows[p] # Numbers!NoOtp => otp'[p].user = u
      /\ otp'[p].recent = rows[p].recent /\ otp'[p].count = rows[p].count
  <2> DEFINE marked == Numbers!MarkedVerified(rows, p, u)
  <2>1. /\ marked \in [Phones -> Numbers!OtpRequest \cup {Numbers!NoOtp}]
        /\ \A q \in Phones \ {p} : marked[q] = rows[q]
        /\ rows[p] # Numbers!NoOtp => marked[p].user = u
        /\ marked[p].recent = rows[p].recent /\ marked[p].count = rows[p].count
    BY <1>1, <1>3, MarkedIsTyped
  <2>2. otp' = marked
    BY <1>2
  <2> HIDE DEF marked
  <2>3. QED
    BY <2>1, <2>2
<1>5. sent' \in [Phones -> Nat]
  BY <1>0 DEF Numbers!RowsAreTyped
<1>6. ASSUME calm
      PROVE  /\ otp[p].user \in {None, u} /\ otp'[p].user = u
             /\ \A q \in Phones \ {p} : otp'[q] = otp[q] \/ otp[q].user = u
             /\ \A q \in Phones : sent'[q] <= Numbers!SentIn(otp'[q])
  <2>1. Numbers!CheckStands(job[h]) /\ Numbers!SentIsCounted
    BY <1>0, <1>6, NumberEnds
  <2>2. /\ p # current /\ otp[p] # Numbers!NoOtp /\ otp[p].user \in {None, u}
        /\ rows[p] = otp[p]
    BY <1>0, <1>1, <1>3, <2>1 DEF Numbers!CheckStands
  <2>3. ASSUME NEW q \in Phones PROVE sent'[q] <= Numbers!SentIn(otp'[q])
    <3>1. CASE otp'[q] = Numbers!NoOtp
      BY <1>0, <3>1, NoOtpIsNoRow
    <3>2. CASE otp'[q] # Numbers!NoOtp
      <4>1. sent'[q] = sent[q]
        BY <1>0, <3>2
      <4>2. otp'[q].recent = otp[q].recent /\ otp'[q].count = otp[q].count
        BY <1>3, <1>4, <2>2, <3>2
      <4>3. QED
        BY <2>1, <4>1, <4>2 DEF Numbers!SentIsCounted, Numbers!SentIn
    <3>3. QED
      BY <3>1, <3>2
  <2>4. QED
    BY <1>3, <1>4, <2>2, <2>3
<1>7. QED
  BY <1>0, <1>1, <1>4, <1>5, <1>6, NumberGiven

\* What expires in a row takes neither the row nor its user away.
LEMMA Expires ==
  ASSUME NumbersInv, NEW p \in Phones, Numbers!Expire(p)
  PROVE  NumbersInv'
<1>0. /\ UNCHANGED <<phoneOf, job, calm>> /\ Numbers!RowsAreTyped
      /\ otp[p] \in Numbers!OtpRequest
  <2>1. otp[p].code \/ otp[p].token \/ otp[p].recent
    BY DEF Numbers!Expire
  <2>2. QED
    BY <2>1, NoOtpIsNoRow
    DEF NumbersInv, Numbers!RowsAreTyped, Numbers!Expire, Numbers!SameUsers
<1>1. PICK otpRow \in Numbers!OtpRequest :
        /\ otp' = [otp EXCEPT ![p] = otpRow]
        /\ otpRow.user = otp[p].user
        /\ \/ otpRow.recent = otp[p].recent /\ otpRow.count = otp[p].count /\ sent' = sent
           \/ sent' = [sent EXCEPT ![p] = 0]
  <2>1. CASE otp[p].code /\ otp' = [otp EXCEPT ![p].code = FALSE] /\ UNCHANGED sent
    <3> DEFINE otpRow == [otp[p] EXCEPT !.code = FALSE]
    <3>1. /\ otpRow \in Numbers!OtpRequest /\ otpRow.user = otp[p].user
          /\ otpRow.recent = otp[p].recent /\ otpRow.count = otp[p].count
      BY <1>0 DEF Numbers!OtpRequest
    <3>2. otp' = [otp EXCEPT ![p] = otpRow]
      BY <1>0, <2>1 DEF Numbers!RowsAreTyped
    <3> HIDE DEF otpRow
    <3>3. QED
      BY <2>1, <3>1, <3>2
  <2>2. CASE otp[p].token /\ otp' = [otp EXCEPT ![p].token = FALSE] /\ UNCHANGED sent
    <3> DEFINE otpRow == [otp[p] EXCEPT !.token = FALSE]
    <3>1. /\ otpRow \in Numbers!OtpRequest /\ otpRow.user = otp[p].user
          /\ otpRow.recent = otp[p].recent /\ otpRow.count = otp[p].count
      BY <1>0 DEF Numbers!OtpRequest
    <3>2. otp' = [otp EXCEPT ![p] = otpRow]
      BY <1>0, <2>2 DEF Numbers!RowsAreTyped
    <3> HIDE DEF otpRow
    <3>3. QED
      BY <2>2, <3>1, <3>2
  <2>3. CASE /\ otp[p].recent /\ otp' = [otp EXCEPT ![p].recent = FALSE]
             /\ sent' = [sent EXCEPT ![p] = 0]
    <3> DEFINE otpRow == [otp[p] EXCEPT !.recent = FALSE]
    <3>1. otpRow \in Numbers!OtpRequest /\ otpRow.user = otp[p].user
      BY <1>0 DEF Numbers!OtpRequest
    <3>2. otp' = [otp EXCEPT ![p] = otpRow]
      BY <1>0, <2>3 DEF Numbers!RowsAreTyped
    <3> HIDE DEF otpRow
    <3>3. QED
      BY <2>3, <3>1, <3>2
  <2>4. QED
    BY <2>1, <2>2, <2>3 DEF Numbers!Expire
<1>2. /\ otp'[p] = otpRow /\ otp'[p] # Numbers!NoOtp /\ otp[p] # Numbers!NoOtp
      /\ \A q \in Phones \ {p} : otp'[q] = otp[q] /\ sent'[q] = sent[q]
      /\ \A q \in Phones : otp'[q].user = otp[q].user
      /\ \A q \in Phones : otp'[q] = Numbers!NoOtp <=> otp[q] = Numbers!NoOtp
  BY <1>0, <1>1, NoOtpIsNoRow DEF Numbers!RowsAreTyped
<1>3. /\ Numbers!RowsAreTyped'
      /\ \A q \in Phones : sent'[q] = sent[q] \/ sent'[q] = 0
  BY <1>0, <1>1 DEF Numbers!RowsAreTyped
<1>4. Numbers!JobsAreReal'
  BY <1>0 DEF NumbersInv, Numbers!JobsAreReal
<1>5. ASSUME calm PROVE Numbers!SentIsCounted' /\ Numbers!NumbersAreTheirs'
  <2>1. Numbers!SentIsCounted /\ Numbers!NumbersAreTheirs
    BY <1>5 DEF NumbersInv
  <2>2. ASSUME NEW q \in Phones PROVE sent'[q] <= Numbers!SentIn(otp'[q])
    <3>1. CASE q # p
      BY <1>2, <2>1, <3>1 DEF Numbers!SentIsCounted
    <3>2. CASE q = p /\ sent'[p] = 0
      BY <1>1, <1>2, <3>2 DEF Numbers!SentIn, Numbers!OtpRequest
    <3>3. CASE q = p /\ sent' = sent /\ otpRow.recent = otp[p].recent /\ otpRow.count = otp[p].count
      BY <1>2, <2>1, <3>3 DEF Numbers!SentIsCounted, Numbers!SentIn
    <3>4. QED
      BY <1>0, <1>1, <3>1, <3>2, <3>3 DEF Numbers!RowsAreTyped
  <2>3. Numbers!NumbersAreTheirs'
    BY <1>0, <1>2, <2>1 DEF Numbers!NumbersAreTheirs, Numbers!RowsAreTyped
  <2>4. QED
    BY <2>2, <2>3 DEF Numbers!SentIsCounted
<1>6. Numbers!ChecksStand'
  <2>1. SUFFICES ASSUME calm, NEW g \in Handlers, Numbers!CheckStands(job[g])
                 PROVE  Numbers!CheckStands(job[g])'
    BY <1>0 DEF NumbersInv, Numbers!ChecksStand, Numbers!Idle
  <2>2. Numbers!JobIsReal(job[g])
    BY DEF NumbersInv, Numbers!JobsAreReal
  <2>3. CASE job[g].op \in {"request", "verify"}
    <3>1. job[g].phone \in Phones
      BY <2>2, <2>3 DEF Numbers!JobIsReal
    <3>2. Numbers!SentIn(job[g].row) \in Nat
      BY <2>2, <2>3, NoOtpIsNoRow DEF Numbers!JobIsReal, Numbers!SentIn, Numbers!OtpRequest
    <3>3. sent'[job[g].phone] <= Numbers!SentIn(job[g].row)
      BY <1>3, <2>1, <2>3, <3>1, <3>2 DEF Numbers!CheckStands
    <3>4. QED
      BY <1>0, <1>2, <2>1, <2>3, <3>1, <3>3 DEF Numbers!CheckStands, Numbers!Verified
  <2>4. CASE job[g].op = "register"
    BY <1>0, <1>2, <2>1, <2>2, <2>4
    DEF Numbers!CheckStands, Numbers!Verified, Numbers!JobIsReal
  <2>5. CASE job[g].op = "profile"
    BY <1>0, <1>2, <2>1, <2>2, <2>5
    DEF Numbers!CheckStands, Numbers!JobIsReal
  <2>6. CASE job[g].op = "save"
    BY <1>0, <2>1, <2>6 DEF Numbers!CheckStands
  <2>7. CASE job[g].op \notin {"request", "verify", "register", "profile", "save"}
    BY <1>0, <2>7 DEF Numbers!CheckStands
  <2>8. QED
    BY <2>3, <2>4, <2>5, <2>6, <2>7
<1>7. QED
  BY <1>0, <1>3, <1>4, <1>5, <1>6 DEF NumbersInv

\* What is cleared at once meets nobody, or ends the calm.
LEMMA Clears ==
  ASSUME NumbersInv, NEW u \in People, Numbers!ClearPhone(u)
  PROVE  NumbersInv'
<1>1. /\ UNCHANGED <<otp, sent, job>> /\ phoneOf' = [phoneOf EXCEPT ![u] = None]
      /\ calm' => calm /\ \A g \in Handlers : Numbers!Idle(g)
  BY Zenon DEF Numbers!ClearPhone, Numbers!AtOnce
<1>2. Numbers!RowsAreTyped'
  BY <1>1 DEF NumbersInv, Numbers!RowsAreTyped
<1>3. Numbers!JobsAreReal'
  BY <1>1 DEF NumbersInv, Numbers!JobsAreReal
<1>4. calm' => Numbers!SentIsCounted' /\ Numbers!NumbersAreTheirs'
  BY <1>1 DEF NumbersInv, Numbers!SentIsCounted, Numbers!NumbersAreTheirs, Numbers!RowsAreTyped
<1>5. Numbers!ChecksStand'
  <2>1. SUFFICES ASSUME calm' PROVE Numbers!ChecksStand'
    BY DEF Numbers!ChecksStand
  <2>2. \A g \in Handlers : job'[g] = Numbers!Resting /\ job'[g].op = "none"
    BY <1>1, <2>1, NumbersRest DEF Numbers!Idle
  <2>3. QED
    BY <2>2 DEF Numbers!ChecksStand, Numbers!CheckStands, Numbers!Idle
<1>6. QED
  BY <1>2, <1>3, <1>4, <1>5 DEF NumbersInv

LEMMA NumberFails ==
  ASSUME NumbersInv, NEW h \in Handlers, Numbers!Fail(h)
  PROVE  NumbersInv'
<1>1. /\ ~Numbers!Idle(h) /\ Numbers!End(h) /\ UNCHANGED <<otp, sent, phoneOf>>
  BY DEF Numbers!Fail, Numbers!SameUsers
<1>2. /\ Numbers!JobsAreReal' /\ Numbers!ChecksStand' /\ calm' = calm
      /\ calm => Numbers!SentIsCounted /\ Numbers!NumbersAreTheirs
  BY <1>1, NumberEnds
<1>3. QED
  BY <1>1, <1>2
  DEF NumbersInv, Numbers!RowsAreTyped, Numbers!SentIsCounted, Numbers!NumbersAreTheirs

\* Alone, a profile is saved with the number it has.
LEMMA NumberSaved ==
  ASSUME NumbersInv, NEW h \in Handlers, Numbers!SaveProfile(h)
  PROVE  NumbersInv'
<1>1. /\ job[h].op = "save" /\ ~Numbers!Idle(h) /\ Numbers!End(h) /\ UNCHANGED <<otp, sent>>
      /\ phoneOf' = [phoneOf EXCEPT ![job[h].user] = job[h].current]
  BY NumbersRest DEF Numbers!SaveProfile, Numbers!At
<1>2. /\ Numbers!JobsAreReal' /\ Numbers!ChecksStand' /\ calm' = calm
      /\ calm => /\ Numbers!CheckStands(job[h])
                 /\ Numbers!SentIsCounted /\ Numbers!NumbersAreTheirs
  BY <1>1, NumberEnds
<1>3. PICK u \in People, current \in Phones \cup {None} :
        u = job[h].user /\ current = job[h].current
  BY <1>1 DEF NumbersInv, Numbers!JobsAreReal, Numbers!JobIsReal
<1>4. Numbers!RowsAreTyped'
  BY <1>1, <1>3 DEF NumbersInv, Numbers!RowsAreTyped
<1>5. ASSUME calm PROVE Numbers!SentIsCounted' /\ Numbers!NumbersAreTheirs'
  <2>1. phoneOf' = phoneOf
    BY <1>1, <1>2, <1>3, <1>5 DEF NumbersInv, Numbers!RowsAreTyped, Numbers!CheckStands
  <2>2. QED
    BY <1>1, <1>2, <1>5, <2>1 DEF Numbers!SentIsCounted, Numbers!NumbersAreTheirs
<1>6. QED
  BY <1>2, <1>4, <1>5 DEF NumbersInv

LEMMA NumbersInit == Numbers!Init => NumbersInv
<1>1. SUFFICES ASSUME Numbers!Init PROVE NumbersInv
  OBVIOUS
<1>2. /\ \A p \in Phones : otp[p] = Numbers!NoOtp /\ sent[p] = 0
      /\ \A u \in People : phoneOf[u] = None
      /\ \A h \in Handlers : job[h] = Numbers!Resting /\ job[h].op = "none"
  BY <1>1, NumbersRest DEF Numbers!Init, Numbers!NoJobs
<1>3. Numbers!RowsAreTyped
  BY <1>1 DEF Numbers!Init, Numbers!RowsAreTyped
<1>4. Numbers!JobsAreReal
  BY <1>1, <1>2 DEF Numbers!Init, Numbers!NoJobs, Numbers!JobsAreReal, Numbers!JobIsReal
<1>5. Numbers!ChecksStand
  BY <1>2 DEF Numbers!ChecksStand, Numbers!CheckStands, Numbers!Idle
<1>6. Numbers!SentIsCounted /\ Numbers!NumbersAreTheirs
  BY <1>2, NoOtpIsNoRow DEF Numbers!SentIsCounted, Numbers!NumbersAreTheirs
<1>7. QED
  BY <1>3, <1>4, <1>5, <1>6 DEF NumbersInv

LEMMA NumbersStep ==
  ASSUME Numbers!NoneIsNobody, Numbers!LimitIsPositive,
         NumbersInv, [Numbers!Next]_(Numbers!vars)
  PROVE  NumbersInv'
<1>1. ASSUME NEW h \in Handlers, Numbers!AuthController(h) PROVE NumbersInv'
  BY <1>1, NumberCheck
<1>2. ASSUME NEW h \in Handlers, Numbers!UserController(h) PROVE NumbersInv'
  BY <1>2, NumberCheck, Clears DEF Numbers!UserController
<1>3. ASSUME NEW h \in Handlers, Numbers!Finish(h) PROVE NumbersInv'
  BY <1>3, RequestStep, RegisterStep, ProfileStep, NumberSaved, NumberFails
  DEF Numbers!Finish
<1>4. ASSUME NEW p \in Phones, Numbers!Expire(p) PROVE NumbersInv'
  BY <1>4, Expires
<1>5. CASE UNCHANGED Numbers!vars
  <2>1. UNCHANGED <<otp, phoneOf, sent, job, calm>>
    BY <1>5 DEF Numbers!vars
  <2>2. /\ Numbers!RowsAreTyped' /\ Numbers!JobsAreReal'
        /\ calm' => Numbers!SentIsCounted' /\ Numbers!NumbersAreTheirs'
    BY <2>1
    DEF NumbersInv, Numbers!RowsAreTyped, Numbers!JobsAreReal, Numbers!SentIsCounted,
        Numbers!NumbersAreTheirs
  <2>3. Numbers!ChecksStand'
    BY <2>1 DEF NumbersInv, Numbers!ChecksStand, Numbers!CheckStands, Numbers!Idle
  <2>4. QED
    BY <2>2, <2>3 DEF NumbersInv
<1>6. QED
  BY <1>1, <1>2, <1>3, <1>4, <1>5 DEF Numbers!Next

LEMMA NumbersInvHolds ==
  ASSUME Numbers!NoneIsNobody, Numbers!LimitIsPositive
  PROVE  Numbers!Spec => []NumbersInv
<1>1. Numbers!NoneIsNobody /\ Numbers!LimitIsPositive
        /\ NumbersInv /\ [Numbers!Next]_(Numbers!vars) => NumbersInv'
  BY NumbersStep
<1>2. QED
  BY <1>1, NumbersInit, PTL DEF Numbers!Spec

\* Nobody's number is counted above the limit.
LEMMA CalmNumbers ==
  ASSUME Numbers!LimitIsPositive, NumbersInv
  PROVE  Numbers!CalmPhones
<1>1. SUFFICES ASSUME calm, NEW p \in Phones PROVE sent[p] <= MaxRequests
  BY DEF Numbers!CalmPhones, NumbersInv, Numbers!NumbersAreTheirs
<1>2. /\ sent[p] <= Numbers!SentIn(otp[p]) /\ sent[p] \in Nat
      /\ otp[p] \in Numbers!OtpRequest \cup {Numbers!NoOtp}
      /\ MaxRequests \in Nat
  BY <1>1 DEF NumbersInv, Numbers!SentIsCounted, Numbers!RowsAreTyped, Numbers!LimitIsPositive
<1>3. CASE otp[p] = Numbers!NoOtp
  BY <1>2, <1>3, NoOtpIsNoRow
<1>4. CASE otp[p] \in Numbers!OtpRequest
  <2>1. otp[p].count \in 1..MaxRequests
    BY <1>4 DEF Numbers!OtpRequest
  <2>2. QED
    BY <1>2, <2>1 DEF Numbers!SentIn
<1>5. QED
  BY <1>2, <1>3, <1>4

\* What a telephone number has no part in: who is registered, and the numbers
\* that were given up.
MembersAreTyped ==
  /\ member \subseteq People
  /\ formerly \in [People -> SUBSET Phones]
  /\ calm \in BOOLEAN

LEMMA MembersTyped ==
  ASSUME NumbersInv, MembersAreTyped, [Numbers!Next]_(Numbers!vars)
  PROVE  MembersAreTyped'
<1>1. ASSUME NEW h \in Handlers, NEW j, Numbers!Begin(h, j) PROVE calm' \in BOOLEAN
  BY <1>1, Zenon DEF Numbers!Begin
<1>2. ASSUME NEW h \in Handlers, Numbers!End(h) PROVE calm' = calm
  BY <1>2 DEF Numbers!End
<1>3. Numbers!AtOnce => calm' \in BOOLEAN
  BY Zenon DEF Numbers!AtOnce
<1>4. ASSUME NEW h \in Handlers, Numbers!AuthController(h) PROVE MembersAreTyped'
  BY <1>1, <1>4
  DEF Numbers!AuthController, Numbers!CheckRequestOtp, Numbers!CheckVerifyOtp,
      Numbers!CheckRegister, Numbers!SameUsers, MembersAreTyped
<1>5. ASSUME NEW h \in Handlers, Numbers!UserController(h) PROVE MembersAreTyped'
  BY <1>1, <1>3, <1>5
  DEF Numbers!UserController, Numbers!ClearPhone, Numbers!CheckUpdateProfile,
      Numbers!CheckSaveProfile, Numbers!SameUsers, MembersAreTyped
<1>6. ASSUME NEW h \in Handlers, Numbers!Finish(h) PROVE MembersAreTyped'
  <2>1. Numbers!JobIsReal(job[h])
    BY DEF NumbersInv, Numbers!JobsAreReal
  <2>2. CASE \/ Numbers!RequestOtpPhone(h) \/ Numbers!VerifyOtp(h)
             \/ Numbers!SaveProfile(h) \/ Numbers!Fail(h)
    BY <1>2, <2>2
    DEF Numbers!RequestOtpPhone, Numbers!VerifyOtp, Numbers!SaveProfile, Numbers!Fail,
        Numbers!SameUsers, MembersAreTyped
  <2>3. CASE Numbers!Register(h)
    <3>1. /\ job[h].user \in People
          /\ member' = member \cup {job[h].user} /\ formerly' = formerly /\ calm' = calm
      BY <1>2, <2>1, <2>3 DEF Numbers!Register, Numbers!At, Numbers!JobIsReal
    <3>2. QED
      BY <3>1 DEF MembersAreTyped
  <2>4. CASE Numbers!UpdateProfile(h)
    <3>1. /\ job[h].user \in People /\ job[h].current \in Phones \cup {None}
          /\ member' = member /\ calm' = calm
          /\ \/ formerly' = formerly
             \/ /\ job[h].current # None
                /\ formerly' = [formerly EXCEPT ![job[h].user] = @ \cup {job[h].current}]
      BY <1>2, <2>1, <2>4 DEF Numbers!UpdateProfile, Numbers!At, Numbers!JobIsReal
    <3>2. QED
      BY <3>1 DEF MembersAreTyped
  <2>5. QED
    BY <1>6, <2>2, <2>3, <2>4 DEF Numbers!Finish
<1>7. ASSUME NEW p \in Phones, Numbers!Expire(p) PROVE MembersAreTyped'
  BY <1>7 DEF Numbers!Expire, Numbers!SameUsers, MembersAreTyped
<1>8. CASE UNCHANGED Numbers!vars
  BY <1>8 DEF Numbers!vars, MembersAreTyped
<1>9. QED
  BY <1>4, <1>5, <1>6, <1>7, <1>8 DEF Numbers!Next

LEMMA NumbersAreTyped ==
  ASSUME Numbers!NoneIsNobody, Numbers!LimitIsPositive
  PROVE  Numbers!Spec => []Numbers!TypeOK
<1>1. Numbers!Spec => []NumbersInv
  BY NumbersInvHolds
<1>2. Numbers!Init => MembersAreTyped
  BY DEF Numbers!Init, Numbers!NoJobs, MembersAreTyped
<1>3. NumbersInv /\ MembersAreTyped /\ [Numbers!Next]_(Numbers!vars) => MembersAreTyped'
  BY MembersTyped
<1>4. NumbersInv /\ MembersAreTyped => Numbers!TypeOK
  BY DEF NumbersInv, Numbers!RowsAreTyped, MembersAreTyped, Numbers!TypeOK
<1>5. QED
  BY <1>1, <1>2, <1>3, <1>4, PTL DEF Numbers!Spec

-----------------------------------------------------------------------------
(* Sessions and passwords                                                    *)

SessionsInv ==
  /\ Logins!RowsAreTyped /\ Logins!JobsAreReal /\ Logins!FromIsToken
  /\ Logins!ReadsStand /\ Logins!CalmSessions

\* What no step breaks while use cases do not overlap.
SessionRows ==
  /\ \A a \in Logins!Accounts : credentials[a].password >= resetAt[a]
  /\ \A u \in Users : rewarded[u] = 0 \/ (rewarded[u] = 1 /\ credentials[u].today)
  /\ \A t \in Tokens : token[t].live => \A s \in Tokens : token[s].from # t
  /\ \A s, t \in Tokens : token[s].from # None /\ token[s].from = token[t].from => s = t
  /\ \A t \in Tokens : token[t].live => token[t].password >= resetAt[token[t].of]
  /\ \A t \in Tokens : token[t].live => credentials[token[t].of].state = "active"

LEMMA SessionFacts ==
  ASSUME SessionsInv
  PROVE  /\ Logins!RowsAreTyped /\ Logins!JobsAreReal /\ Logins!FromIsToken
         /\ calm => /\ SessionRows
                    /\ \A g, h \in Handlers : Logins!Idle(g) \/ Logins!Idle(h) \/ g = h
                    /\ \A h \in Handlers : Logins!ReadStands(job[h])
<1>1. \A u \in Users : rewarded[u] \in Nat
  BY DEF SessionsInv, Logins!RowsAreTyped
<1>2. ASSUME NEW u \in Users, rewarded[u] <= 1, rewarded[u] = 0 \/ credentials[u].today
      PROVE  rewarded[u] = 0 \/ (rewarded[u] = 1 /\ credentials[u].today)
  BY <1>1, <1>2
<1>3. QED
  BY <1>2
  DEF SessionsInv, SessionRows, Logins!ReadsStand, Logins!CalmSessions, Logins!Active

LEMMA SessionFactsNext ==
  ASSUME Logins!RowsAreTyped', Logins!JobsAreReal', Logins!FromIsToken',
         calm' => /\ SessionRows'
                  /\ \A f, g \in Handlers : Logins!Idle(f)' \/ Logins!Idle(g)' \/ f = g
                  /\ \A g \in Handlers : Logins!ReadStands(job[g])'
  PROVE  SessionsInv'
<1>1. SessionRows' => \A u \in Users : rewarded'[u] <= 1 /\ (rewarded'[u] = 0 \/ credentials'[u].today)
  BY DEF SessionRows
<1>2. QED
  BY <1>1
  DEF SessionsInv, SessionRows, Logins!ReadsStand, Logins!CalmSessions, Logins!Active

LEMMA SessionsRest ==
  /\ Logins!Resting.op = "none"
  /\ \A h : Logins!Idle(h) => job[h].op = "none"
BY DEF Logins!Resting, Logins!Idle

LEMMA NoTokenIsNoRow ==
  ASSUME Logins!NoneIsNoId
  PROVE  /\ Logins!NoToken \notin Logins!UserToken
         /\ Logins!NoToken.of = None /\ ~Logins!NoToken.live
         /\ Logins!NoToken.from = None /\ None \notin Tokens
BY DEF Logins!NoToken, Logins!UserToken, Logins!NoneIsNoId

\* A live token is a row, of an account.
LEMMA LiveIsOfAccount ==
  ASSUME Logins!NoneIsNoId, Logins!RowsAreTyped, NEW t \in Tokens, token[t].live
  PROVE  token[t].of \in Logins!Accounts
BY NoTokenIsNoRow DEF Logins!RowsAreTyped, Logins!UserToken

\* A use case begins with what it has just read.
LEMMA SessionBegins ==
  ASSUME SessionsInv, NEW h \in Handlers, NEW j, Logins!Begin(h, j),
         UNCHANGED <<credentials, token, grant, rewarded, resetAt>>,
         Logins!JobIsReal(j), calm => Logins!ReadStands(j)
  PROVE  SessionsInv'
<1>1. /\ DOMAIN job = Handlers /\ Logins!Idle(h)
      /\ job' = [job EXCEPT ![h] = j]
  BY DEF SessionsInv, Logins!JobsAreReal, Logins!Begin
<1>2. calm' \in BOOLEAN /\ (calm' => calm /\ \A g \in Handlers \ {h} : Logins!Idle(g))
  BY Zenon DEF Logins!Begin
<1>3. /\ DOMAIN job' = Handlers /\ job'[h] = j
      /\ \A g \in Handlers \ {h} : job'[g] = job[g]
  BY <1>1
<1>4. Logins!RowsAreTyped' /\ Logins!FromIsToken'
  BY <1>2 DEF SessionsInv, Logins!RowsAreTyped, Logins!FromIsToken
<1>5. Logins!JobsAreReal'
  BY <1>3 DEF SessionsInv, Logins!JobsAreReal, Logins!JobIsReal, Logins!Idle
<1>6. ASSUME calm'
      PROVE  /\ SessionRows'
             /\ \A f, g \in Handlers : Logins!Idle(f)' \/ Logins!Idle(g)' \/ f = g
             /\ \A g \in Handlers : Logins!ReadStands(job[g])'
  <2>1. SessionRows
    BY <1>2, <1>6, SessionFacts DEF SessionsInv
  <2>2. SessionRows'
    BY <2>1 DEF SessionRows
  <2>3. \A g \in Handlers \ {h} : job'[g] = Logins!Resting /\ job'[g].op = "none"
    BY <1>2, <1>3, <1>6, SessionsRest DEF Logins!Idle
  <2>4. \A g \in Handlers \ {h} : Logins!ReadStands(job[g])'
    BY <2>3 DEF Logins!ReadStands
  <2>5. Logins!ReadStands(job[h])'
    BY <1>2, <1>3, <1>6 DEF Logins!ReadStands, Logins!Active, Logins!TokensOf
  <2>6. QED
    BY <2>2, <2>3, <2>4, <2>5 DEF Logins!Idle
<1>7. QED
  BY <1>4, <1>5, <1>6, SessionFactsNext

\* What ends, or at most leaves its token to be deleted, was alone, and had read
\* what is so.
LEMMA SessionEnds ==
  ASSUME SessionsInv, NEW h \in Handlers, ~Logins!Idle(h), NEW j,
         job' = [job EXCEPT ![h] = j], calm' = calm,
         j = Logins!Resting \/ (j.op = "used" /\ j \in Logins!Jobs),
         \A t \in Tokens : token[t] # Logins!NoToken => token'[t] # Logins!NoToken
  PROVE  /\ Logins!JobsAreReal' /\ Logins!JobIsReal(job[h])
         /\ calm => /\ SessionRows /\ Logins!ReadStands(job[h])
                    /\ \A f, g \in Handlers : Logins!Idle(f)' \/ Logins!Idle(g)' \/ f = g
                    /\ \A g \in Handlers : Logins!ReadStands(job[g])'
<1>1. /\ DOMAIN job = Handlers /\ DOMAIN job' = Handlers /\ job'[h] = j
      /\ \A g \in Handlers \ {h} : job'[g] = job[g]
  BY DEF SessionsInv, Logins!JobsAreReal
<1>2. /\ Logins!JobIsReal(job[h])
      /\ \A g \in Handlers : Logins!Idle(g) \/ Logins!JobIsReal(job[g])
  BY DEF SessionsInv, Logins!JobsAreReal
<1>3. Logins!JobsAreReal'
  <2>1. ASSUME NEW g \in Handlers \ {h} PROVE Logins!Idle(g)' \/ Logins!JobIsReal(job[g])'
    <3>1. CASE Logins!Idle(g)
      BY <1>1, <3>1 DEF Logins!Idle
    <3>2. CASE Logins!JobIsReal(job[g])
      <4>1. PICK k : k = job[g]
        OBVIOUS
      <4>2. Logins!JobIsReal(k)'
        <5>1. k.op = "refresh" => k.token \in Tokens
          BY <3>2, <4>1 DEF Logins!JobIsReal, Logins!Jobs
        <5>2. QED
          BY <3>2, <4>1, <5>1 DEF Logins!JobIsReal
      <4>3. QED
        BY <1>1, <4>1, <4>2
    <3>3. QED
      BY <1>2, <3>1, <3>2
  <2>2. Logins!Idle(h)' \/ Logins!JobIsReal(job[h])'
    BY <1>1 DEF Logins!Idle, Logins!JobIsReal
  <2>3. QED
    BY <1>1, <2>1, <2>2 DEF Logins!JobsAreReal
<1>4. ASSUME calm
      PROVE  /\ SessionRows /\ Logins!ReadStands(job[h])
             /\ \A g \in Handlers \ {h} : Logins!Idle(g)
  BY <1>4, SessionFacts DEF SessionsInv
<1>5. ASSUME calm
      PROVE  /\ \A f, g \in Handlers : Logins!Idle(f)' \/ Logins!Idle(g)' \/ f = g
             /\ \A g \in Handlers : Logins!ReadStands(job[g])'
  <2>1. \A g \in Handlers \ {h} : job'[g] = Logins!Resting
    BY <1>1, <1>4, <1>5 DEF Logins!Idle
  <2>2. job'[h].op \in {"none", "used"} /\ \A g \in Handlers \ {h} : job'[g].op = "none"
    BY <1>1, <2>1, SessionsRest
  <2>3. \A g \in Handlers : Logins!ReadStands(job[g])'
    BY <2>2 DEF Logins!ReadStands
  <2>4. QED
    BY <2>1, <2>3 DEF Logins!Idle
<1>6. QED
  BY <1>2, <1>3, <1>4, <1>5

LEMMA SessionCheck ==
  ASSUME Logins!NoneIsNoId, SessionsInv, NEW h \in Handlers, NEW a \in Logins!Accounts,
         \/ Logins!CheckLogin(h, a) \/ Logins!CheckRequestOtp(h, a)
         \/ Logins!CheckVerifyOtp(h, a) \/ Logins!ReadAccount(h, a)
         \/ Logins!CheckUpdateUser(h, a) \/ Logins!CheckDeleteUser(h, a)
         \/ \E t \in Tokens : \/ Logins!CheckRefresh(h, a, t)
                              \/ Logins!CheckChangePassword(h, a, t)
         \/ \E g \in Grants : grant[g] = a /\ Logins!CheckResetPassword(h, g)
  PROVE  SessionsInv'
<1>0. /\ UNCHANGED <<credentials, token, grant, rewarded, resetAt>>
      /\ Logins!RowsAreTyped /\ credentials[a] \in Logins!Account
      /\ calm => SessionRows
  BY SessionFacts
  DEF Logins!CheckLogin, Logins!CheckRequestOtp, Logins!CheckVerifyOtp, Logins!CheckRefresh,
      Logins!CheckChangePassword, Logins!CheckResetPassword, Logins!ReadAccount,
      Logins!CheckUpdateUser, Logins!CheckDeleteUser, Logins!SameAccounts,
      Logins!SameRedis, Logins!SameHistory, Logins!RowsAreTyped
<1>1. CASE Logins!CheckLogin(h, a)
  <2>1. PICK reward \in BOOLEAN :
          /\ Logins!Begin(h, [op |-> "login", who |-> a, seen |-> credentials[a],
                              reward |-> reward])
          /\ reward => a \in Users /\ ~credentials[a].today
    <3>1. PICK point \in BOOLEAN :
            Logins!Begin(h, [op |-> "login", who |-> a, seen |-> credentials[a],
                             reward |-> point /\ a \in Users /\ ~credentials[a].today])
      BY <1>1 DEF Logins!CheckLogin
    <3>2. (point /\ a \in Users /\ ~credentials[a].today) \in BOOLEAN
      OBVIOUS
    <3>3. QED
      BY <3>1, <3>2
  <2>2. PICK j : j = [op |-> "login", who |-> a, seen |-> credentials[a], reward |-> reward]
    OBVIOUS
  <2>3. j \in Logins!Jobs /\ j.op = "login" /\ (j.reward <=> reward) /\ j.who = a
    BY <1>0, <2>2 DEF Logins!Jobs
  <2>4. j.seen = credentials[a] /\ j.seen.state = "active"
    BY <1>1, <2>2 DEF Logins!CheckLogin, Logins!Active
  <2>5. Logins!JobIsReal(j) /\ (calm => Logins!ReadStands(j))
    BY <1>0, <2>1, <2>3, <2>4
    DEF Logins!JobIsReal, Logins!ReadStands, SessionRows
  <2>6. QED
    BY <1>0, <2>1, <2>2, <2>5, SessionBegins
<1>2. CASE Logins!CheckRequestOtp(h, a) \/ Logins!CheckVerifyOtp(h, a)
  <2>1. PICK op \in {"otp", "verify"} : Logins!Begin(h, [op |-> op, who |-> a])
    BY <1>2 DEF Logins!CheckRequestOtp, Logins!CheckVerifyOtp
  <2>2. PICK j : j = [op |-> op, who |-> a]
    OBVIOUS
  <2>3. Logins!JobIsReal(j) /\ (calm => Logins!ReadStands(j))
    <3>1. j \in Logins!Jobs /\ j.op \in {"otp", "verify"}
      BY <2>2 DEF Logins!Jobs
    <3>2. QED
      BY <3>1 DEF Logins!JobIsReal, Logins!ReadStands
  <2>4. QED
    BY <1>0, <2>1, <2>2, <2>3, SessionBegins
<1>3. ASSUME NEW t \in Tokens, Logins!CheckRefresh(h, a, t) PROVE SessionsInv'
  <2>1. PICK j : j = [op |-> "refresh", who |-> a, token |-> t]
    OBVIOUS
  <2>2. token[t].live /\ token[t] # Logins!NoToken /\ Logins!Active(a)
    BY <1>3, NoTokenIsNoRow DEF Logins!CheckRefresh, Logins!Valid
  <2>3. Logins!JobIsReal(j) /\ (calm => Logins!ReadStands(j))
    <3>1. j \in Logins!Jobs /\ j.op = "refresh" /\ j.token = t /\ j.who = a
      BY <2>1 DEF Logins!Jobs
    <3>2. QED
      BY <2>2, <3>1 DEF Logins!JobIsReal, Logins!ReadStands
  <2>4. QED
    BY <1>0, <1>3, <2>1, <2>3, SessionBegins DEF Logins!CheckRefresh
<1>4. ASSUME NEW t \in Tokens, Logins!CheckChangePassword(h, a, t) PROVE SessionsInv'
  <2>1. PICK logoutAll \in BOOLEAN :
          Logins!Begin(h, [op |-> "change", who |-> a, seen |-> credentials[a],
            tokens |-> IF logoutAll THEN Logins!TokensOf(a) \ {t} ELSE {}])
    BY <1>4 DEF Logins!CheckChangePassword
  <2>2. PICK j : j = [op |-> "change", who |-> a, seen |-> credentials[a],
            tokens |-> IF logoutAll THEN Logins!TokensOf(a) \ {t} ELSE {}]
    OBVIOUS
  <2>3. Logins!JobIsReal(j) /\ (calm => Logins!ReadStands(j))
    <3>1. /\ j \in Logins!Jobs /\ j.op = "change"
          /\ j.seen = credentials[a] /\ j.who = a
      BY <1>0, <2>2 DEF Logins!Jobs, Logins!TokensOf
    <3>2. credentials[a].password < MaxPasswords
      BY <1>4 DEF Logins!CheckChangePassword
    <3>3. QED
      BY <3>1, <3>2 DEF Logins!JobIsReal, Logins!ReadStands
  <2>4. QED
    BY <1>0, <2>1, <2>2, <2>3, SessionBegins
<1>5. ASSUME NEW g \in Grants, grant[g] = a, Logins!CheckResetPassword(h, g)
      PROVE  SessionsInv'
  <2>1. PICK j : j = [op |-> "reset", who |-> a, grant |-> g, seen |-> credentials[a],
                      tokens |-> Logins!TokensOf(a)]
    OBVIOUS
  <2>2. Logins!JobIsReal(j) /\ (calm => Logins!ReadStands(j))
    <3>1. /\ j \in Logins!Jobs /\ j.op = "reset" /\ j.seen = credentials[a] /\ j.who = a
          /\ j.tokens = Logins!TokensOf(a)
      BY <1>0, <2>1 DEF Logins!Jobs, Logins!TokensOf
    <3>2. credentials[a].password < MaxPasswords
      BY <1>5 DEF Logins!CheckResetPassword
    <3>3. QED
      BY <3>1, <3>2 DEF Logins!JobIsReal, Logins!ReadStands
  <2>3. Logins!Begin(h, j)
    BY <1>5, <2>1 DEF Logins!CheckResetPassword
  <2>4. QED
    BY <1>0, <2>2, <2>3, SessionBegins
<1>6. CASE Logins!ReadAccount(h, a) \/ Logins!CheckDeleteUser(h, a)
  <2>1. PICK op \in {"profile", "delete"} :
          Logins!Begin(h, [op |-> op, who |-> a, seen |-> credentials[a]])
    BY <1>6 DEF Logins!ReadAccount, Logins!CheckDeleteUser
  <2>2. PICK j : j = [op |-> op, who |-> a, seen |-> credentials[a]]
    OBVIOUS
  <2>3. /\ j \in Logins!Jobs /\ j.op \in {"profile", "delete"}
        /\ j.seen = credentials[a] /\ j.who = a
    BY <1>0, <2>2 DEF Logins!Jobs
  <2>4. Logins!JobIsReal(j) /\ Logins!ReadStands(j)
    BY <2>3 DEF Logins!JobIsReal, Logins!ReadStands
  <2>5. QED
    BY <1>0, <2>1, <2>2, <2>4, SessionBegins
<1>7. CASE Logins!CheckUpdateUser(h, a)
  <2>1. PICK state \in {"active", "inactive"} :
          Logins!Begin(h, [op |-> "update", who |-> a, seen |-> credentials[a],
                           state |-> state])
    BY <1>7 DEF Logins!CheckUpdateUser
  <2>2. PICK j : j = [op |-> "update", who |-> a, seen |-> credentials[a], state |-> state]
    OBVIOUS
  <2>3. /\ j \in Logins!Jobs /\ j.op = "update"
        /\ j.seen = credentials[a] /\ j.who = a
    BY <1>0, <2>2 DEF Logins!Jobs
  <2>4. Logins!JobIsReal(j) /\ Logins!ReadStands(j)
    BY <2>3 DEF Logins!JobIsReal, Logins!ReadStands
  <2>5. QED
    BY <1>0, <2>1, <2>2, <2>4, SessionBegins
<1>8. QED
  BY <1>1, <1>2, <1>3, <1>4, <1>5, <1>6, <1>7

\* A token is a record, and with its own field put in it is the same.
LEMMA SameToken ==
  ASSUME NEW r \in Logins!UserToken \cup {Logins!NoToken}
  PROVE  r.live \in BOOLEAN /\ [r EXCEPT !.live = r.live] = r
<1>1. CASE r \in Logins!UserToken
  BY <1>1 DEF Logins!UserToken
<1>2. CASE r = Logins!NoToken
  <2>1. r \in [of: {None}, live: BOOLEAN, from: {None}, password: {0}]
    BY <1>2 DEF Logins!NoToken
  <2>2. QED
    BY <2>1
<1>3. QED
  BY <1>1, <1>2

\* Revoking changes nothing else of a token.
LEMMA RevokedTokens ==
  ASSUME Logins!NoneIsNoId, Logins!RowsAreTyped, NEW ts
  PROVE  /\ Logins!Revoked(ts) \in [Tokens -> Logins!UserToken \cup {Logins!NoToken}]
         /\ \A t \in Tokens :
              /\ Logins!Revoked(ts)[t].of = token[t].of
              /\ Logins!Revoked(ts)[t].from = token[t].from
              /\ Logins!Revoked(ts)[t].password = token[t].password
              /\ Logins!Revoked(ts)[t].live <=> token[t].live /\ t \notin ts
              /\ Logins!Revoked(ts)[t] = Logins!NoToken <=> token[t] = Logins!NoToken
<1>1. ASSUME NEW t \in Tokens
      PROVE  /\ Logins!Revoked(ts)[t] \in Logins!UserToken \cup {Logins!NoToken}
             /\ Logins!Revoked(ts)[t].of = token[t].of
             /\ Logins!Revoked(ts)[t].from = token[t].from
             /\ Logins!Revoked(ts)[t].password = token[t].password
             /\ Logins!Revoked(ts)[t].live <=> token[t].live /\ t \notin ts
             /\ Logins!Revoked(ts)[t] = Logins!NoToken <=> token[t] = Logins!NoToken
  <2>1. PICK r : r = token[t]
    OBVIOUS
  <2>2. r \in Logins!UserToken \cup {Logins!NoToken}
    BY <2>1 DEF Logins!RowsAreTyped
  <2>3. PICK live \in BOOLEAN : live <=> r.live /\ t \notin ts
    OBVIOUS
  <2>4. Logins!Revoked(ts)[t] = [r EXCEPT !.live = r.live /\ t \notin ts]
    BY <2>1 DEF Logins!Revoked
  <2>5. (r.live /\ t \notin ts) = live
    BY <2>3
  <2>6. Logins!Revoked(ts)[t] = [r EXCEPT !.live = live]
    BY <2>4, <2>5
  <2>7. CASE r \in Logins!UserToken
    <3>1. /\ [r EXCEPT !.live = live] \in Logins!UserToken
          /\ [r EXCEPT !.live = live].of = r.of /\ [r EXCEPT !.live = live].from = r.from
          /\ [r EXCEPT !.live = live].password = r.password
          /\ [r EXCEPT !.live = live].live = live
      BY <2>7 DEF Logins!UserToken
    <3>2. QED
      BY <2>1, <2>3, <2>6, <2>7, <3>1, NoTokenIsNoRow
  <2>8. CASE r = Logins!NoToken
    <3>1. ~live /\ r.live = live
      BY <2>2, <2>3, <2>8, NoTokenIsNoRow, SameToken
    <3>2. [r EXCEPT !.live = live] = Logins!NoToken
      BY <2>2, <2>8, <3>1, SameToken
    <3>3. QED
      BY <2>1, <2>3, <2>6, <2>8, <3>2, <3>1, NoTokenIsNoRow
  <2>9. QED
    BY <2>2, <2>7, <2>8
<1>2. QED
  BY <1>1 DEF Logins!Revoked

\* A new session comes from a dead token, or from none.
LEMMA TokenIssued ==
  ASSUME Logins!NoneIsNoId, Logins!RowsAreTyped, Logins!FromIsToken,
         NEW ts, NEW t \in Tokens, token[t] = Logins!NoToken,
         NEW a \in Logins!Accounts, NEW from \in Tokens \cup {None},
         from # None => token[from] # Logins!NoToken,
         token' = [Logins!Revoked(ts) EXCEPT ![t] = Logins!Issued(t, a, from)]
  PROVE  /\ token' \in [Tokens -> Logins!UserToken \cup {Logins!NoToken}]
         /\ Logins!FromIsToken'
         /\ \A s \in Tokens : token[s] # Logins!NoToken => token'[s] # Logins!NoToken
         /\ SessionRows /\ resetAt' = resetAt /\ credentials[a].state = "active"
            /\ (from # None => from \in ts /\ token[from].live) =>
              /\ \A s \in Tokens : token'[s].live => \A r \in Tokens : token'[r].from # s
              /\ \A r, s \in Tokens :
                   token'[r].from # None /\ token'[r].from = token'[s].from => r = s
              /\ \A s \in Tokens : token'[s].live => token'[s].password >= resetAt'[token'[s].of]
              /\ \A s \in Tokens : token'[s].live =>
                   token'[s].of \in Logins!Accounts /\ credentials[token'[s].of].state = "active"
<1>1. PICK row : row = Logins!Issued(t, a, from)
  OBVIOUS
<1>2. /\ row \in Logins!UserToken /\ row.from = from /\ row.of = a
      /\ row.password = credentials[a].password
  BY <1>1 DEF Logins!Issued, Logins!UserToken, Logins!RowsAreTyped, Logins!Account
<1>3. /\ Logins!Revoked(ts) \in [Tokens -> Logins!UserToken \cup {Logins!NoToken}]
      /\ \A s \in Tokens :
           /\ Logins!Revoked(ts)[s].of = token[s].of
           /\ Logins!Revoked(ts)[s].from = token[s].from
           /\ Logins!Revoked(ts)[s].password = token[s].password
           /\ Logins!Revoked(ts)[s].live <=> token[s].live /\ s \notin ts
           /\ Logins!Revoked(ts)[s] = Logins!NoToken <=> token[s] = Logins!NoToken
  BY RevokedTokens
<1>4. /\ token' \in [Tokens -> Logins!UserToken \cup {Logins!NoToken}]
      /\ token'[t] = row
      /\ \A s \in Tokens \ {t} : token'[s] = Logins!Revoked(ts)[s]
  BY <1>1, <1>2, <1>3
<1>5. /\ token'[t] # Logins!NoToken /\ token[t].from = None /\ None \notin Tokens
      /\ \A s \in Tokens : token[s].from # t
  BY <1>2, <1>4, NoTokenIsNoRow DEF Logins!FromIsToken
<1>6. \A s \in Tokens \ {t} :
        /\ token'[s].of = token[s].of /\ token'[s].from = token[s].from
        /\ token'[s].password = token[s].password
        /\ token'[s].live <=> token[s].live /\ s \notin ts
        /\ token'[s] = Logins!NoToken <=> token[s] = Logins!NoToken
  BY <1>3, <1>4
<1>7. from # t
  BY NoTokenIsNoRow
<1>8. Logins!FromIsToken'
  <2>1. SUFFICES ASSUME NEW r \in Tokens, NEW s \in Tokens, token'[r].from = s
                 PROVE  token'[s] # Logins!NoToken
    BY DEF Logins!FromIsToken
  <2>2. s # t => token[s] # Logins!NoToken
    BY <1>2, <1>4, <1>5, <1>6, <2>1 DEF Logins!FromIsToken
  <2>3. QED
    BY <1>5, <1>6, <2>2
<1>9. ASSUME SessionRows, resetAt' = resetAt, credentials[a].state = "active",
             from # None => from \in ts /\ token[from].live
      PROVE  /\ \A s \in Tokens : token'[s].live => \A r \in Tokens : token'[r].from # s
             /\ \A r, s \in Tokens :
                  token'[r].from # None /\ token'[r].from = token'[s].from => r = s
             /\ \A s \in Tokens : token'[s].live => token'[s].password >= resetAt'[token'[s].of]
             /\ \A s \in Tokens : token'[s].live =>
                  token'[s].of \in Logins!Accounts /\ credentials[token'[s].of].state = "active"
  <2>1. ASSUME NEW s \in Tokens, token'[s].live, NEW r \in Tokens PROVE token'[r].from # s
    <3>1. CASE r = t
      BY <1>2, <1>4, <1>5, <1>6, <1>7, <1>9, <2>1, <3>1
    <3>2. CASE r # t
      BY <1>5, <1>6, <1>9, <2>1, <3>2 DEF SessionRows
    <3>3. QED
      BY <3>1, <3>2
  <2>2. ASSUME NEW r \in Tokens, NEW s \in Tokens, token'[r].from # None,
               token'[r].from = token'[s].from
        PROVE  r = s
    <3>1. from # None => \A q \in Tokens : token[q].from # from
      BY <1>9 DEF SessionRows
    <3>2. QED
      BY <1>2, <1>4, <1>6, <1>9, <2>2, <3>1 DEF SessionRows
  <2>3. ASSUME NEW s \in Tokens, token'[s].live
        PROVE  token'[s].password >= resetAt'[token'[s].of]
    BY <1>2, <1>4, <1>6, <1>9, <2>3 DEF SessionRows
  <2>4. ASSUME NEW s \in Tokens, token'[s].live
        PROVE  token'[s].of \in Logins!Accounts /\ credentials[token'[s].of].state = "active"
    <3>1. CASE s = t
      BY <1>2, <1>4, <1>9, <3>1
    <3>2. CASE s # t
      BY <1>6, <1>9, <2>4, <3>2, LiveIsOfAccount DEF SessionRows
    <3>3. QED
      BY <3>1, <3>2
  <2>5. QED
    BY <2>1, <2>2, <2>3, <2>4
<1>10. QED
  BY <1>4, <1>5, <1>6, <1>8, <1>9

\* The end of a use case, whose rows are as they should be.
LEMMA SessionStep ==
  ASSUME SessionsInv, NEW h \in Handlers, ~Logins!Idle(h), NEW j,
         job' = [job EXCEPT ![h] = j], calm' = calm,
         j = Logins!Resting \/ (j.op = "used" /\ j \in Logins!Jobs),
         Logins!RowsAreTyped', Logins!FromIsToken',
         \A t \in Tokens : token[t] # Logins!NoToken => token'[t] # Logins!NoToken,
         SessionRows /\ Logins!ReadStands(job[h]) => SessionRows'
  PROVE  SessionsInv'
<1>1. /\ Logins!JobsAreReal'
      /\ calm => /\ SessionRows /\ Logins!ReadStands(job[h])
                 /\ \A f, g \in Handlers : Logins!Idle(f)' \/ Logins!Idle(g)' \/ f = g
                 /\ \A g \in Handlers : Logins!ReadStands(job[g])'
  BY SessionEnds
<1>2. QED
  BY <1>1, SessionFactsNext

\* login, of users and of administrators.
LEMMA LoginStep ==
  ASSUME Logins!NoneIsNoId, SessionsInv, NEW h \in Handlers,
         Logins!Login(h) \/ Logins!AdminLogin(h)
  PROVE  SessionsInv'
<1>1. PICK j : j = job[h]
  OBVIOUS
<1>2. /\ Logins!StartSession(h) /\ j.op = "login" /\ ~Logins!Idle(h)
      /\ Logins!RowsAreTyped /\ Logins!FromIsToken
  BY <1>1, SessionsRest, SessionFacts DEF Logins!Login, Logins!AdminLogin, Logins!StartSession, Logins!At
<1>3. /\ j.who \in Logins!Accounts /\ j.seen \in Logins!Account /\ j.reward \in BOOLEAN
      /\ (j.reward => j.who \in Users) /\ j.seen.state = "active"
  BY <1>1, <1>2, SessionFacts DEF Logins!JobsAreReal, Logins!JobIsReal, Logins!Jobs
<1>4. /\ resetAt' = resetAt /\ grant' = grant /\ calm' = calm
      /\ job' = [job EXCEPT ![h] = Logins!Resting]
  BY <1>2 DEF Logins!StartSession, Logins!End, Logins!SameRedis
<1>5. PICK row : row = [j.seen EXCEPT !.today = TRUE]
  OBVIOUS
<1>6. /\ row \in Logins!Account /\ row.today /\ row.password = j.seen.password
      /\ row.state = j.seen.state
  BY <1>3, <1>5 DEF Logins!Account
<1>7. credentials' = [credentials EXCEPT ![j.who] = row]
  BY <1>1, <1>2, <1>5 DEF Logins!StartSession
<1>8. PICK t \in Tokens : /\ token[t] = Logins!NoToken
                          /\ token' = [token EXCEPT ![t] = Logins!Issued(t, j.who, None)]
  BY <1>1, <1>2 DEF Logins!StartSession, Logins!Fresh
<1>9. Logins!Revoked({}) = token
  <2>1. /\ Logins!Revoked({}) \in [Tokens -> Logins!UserToken \cup {Logins!NoToken}]
        /\ token \in [Tokens -> Logins!UserToken \cup {Logins!NoToken}]
    BY <1>2, RevokedTokens DEF Logins!RowsAreTyped
  <2>2. ASSUME NEW s \in Tokens PROVE Logins!Revoked({})[s] = token[s]
    <3>1. PICK r : r = token[s]
      OBVIOUS
    <3>2. Logins!Revoked({})[s] = [r EXCEPT !.live = r.live /\ s \notin {}]
      BY <3>1 DEF Logins!Revoked
    <3>3. r.live \in BOOLEAN /\ [r EXCEPT !.live = r.live] = r
      BY <2>1, <3>1, SameToken
    <3>4. (r.live /\ s \notin {}) = r.live
      BY <3>3
    <3>5. QED
      BY <3>1, <3>2, <3>3, <3>4
  <2>3. QED
    BY <2>1, <2>2
<1>10. /\ token' \in [Tokens -> Logins!UserToken \cup {Logins!NoToken}]
       /\ Logins!FromIsToken'
       /\ \A s \in Tokens : token[s] # Logins!NoToken => token'[s] # Logins!NoToken
       /\ SessionRows /\ credentials[j.who].state = "active" =>
            /\ \A s \in Tokens : token'[s].live => \A r \in Tokens : token'[r].from # s
            /\ \A r, s \in Tokens :
                 token'[r].from # None /\ token'[r].from = token'[s].from => r = s
            /\ \A s \in Tokens : token'[s].live => token'[s].password >= resetAt'[token'[s].of]
            /\ \A s \in Tokens : token'[s].live =>
                 /\ token'[s].of \in Logins!Accounts
                 /\ credentials[token'[s].of].state = "active"
  <2>1. PICK from \in Tokens \cup {None}, ts \in {{}} : from = None
    OBVIOUS
  <2>2. /\ token' = [Logins!Revoked(ts) EXCEPT ![t] = Logins!Issued(t, j.who, from)]
        /\ from # None => token[from] # Logins!NoToken
        /\ from # None => from \in ts /\ token[from].live
    BY <1>8, <1>9, <2>1
  <2>3. /\ token' \in [Tokens -> Logins!UserToken \cup {Logins!NoToken}]
        /\ Logins!FromIsToken'
        /\ \A s \in Tokens : token[s] # Logins!NoToken => token'[s] # Logins!NoToken
        /\ SessionRows /\ resetAt' = resetAt /\ credentials[j.who].state = "active"
           /\ (from # None => from \in ts /\ token[from].live) =>
             /\ \A s \in Tokens : token'[s].live => \A r \in Tokens : token'[r].from # s
             /\ \A r, s \in Tokens :
                  token'[r].from # None /\ token'[r].from = token'[s].from => r = s
             /\ \A s \in Tokens : token'[s].live => token'[s].password >= resetAt'[token'[s].of]
             /\ \A s \in Tokens : token'[s].live =>
                  /\ token'[s].of \in Logins!Accounts
                  /\ credentials[token'[s].of].state = "active"
    <3>1. /\ from \in Tokens \cup {None} /\ Logins!RowsAreTyped /\ Logins!FromIsToken
          /\ token[t] = Logins!NoToken /\ j.who \in Logins!Accounts
      BY <1>2, <1>3, <1>8, <2>1
    <3>2. QED
      BY <2>2, <3>1, TokenIssued
  <2>4. QED
    BY <1>4, <2>2, <2>3
<1>11. \/ rewarded' = rewarded
       \/ j.reward /\ rewarded' = [rewarded EXCEPT ![j.who] = @ + 1]
  BY <1>1 DEF Logins!Login, Logins!AdminLogin
<1>12. Logins!RowsAreTyped'
  <2>1. credentials' \in [Logins!Accounts -> Logins!Account]
    BY <1>2, <1>3, <1>6, <1>7 DEF Logins!RowsAreTyped
  <2>2. rewarded' \in [Users -> Nat]
    BY <1>2, <1>3, <1>11 DEF Logins!RowsAreTyped
  <2>3. QED
    BY <1>2, <1>4, <1>10, <2>1, <2>2 DEF Logins!RowsAreTyped
<1>13. ASSUME SessionRows, Logins!ReadStands(job[h]) PROVE SessionRows'
  <2>1. j.seen = credentials[j.who] /\ (j.reward => rewarded[j.who] = 0)
    BY <1>1, <1>2, <1>13 DEF Logins!ReadStands
  <2>2. /\ credentials'[j.who].today /\ credentials'[j.who].password = credentials[j.who].password
        /\ credentials'[j.who].state = credentials[j.who].state
        /\ credentials[j.who].state = "active"
        /\ \A a \in Logins!Accounts \ {j.who} : credentials'[a] = credentials[a]
    BY <1>2, <1>3, <1>6, <1>7, <2>1 DEF Logins!RowsAreTyped
  <2>3. \A a \in Logins!Accounts : credentials'[a].password >= resetAt'[a]
    BY <1>4, <1>13, <2>2 DEF SessionRows
  <2>4. ASSUME NEW u \in Users
        PROVE  rewarded'[u] = 0 \/ (rewarded'[u] = 1 /\ credentials'[u].today)
    <3>1. u \in Logins!Accounts
      BY DEF Logins!Accounts
    <3>2. CASE rewarded' = rewarded
      BY <1>13, <2>2, <3>1, <3>2 DEF SessionRows
    <3>3. CASE j.reward /\ rewarded' = [rewarded EXCEPT ![j.who] = @ + 1]
      <4>1. rewarded'[j.who] = 1 /\ \A v \in Users \ {j.who} : rewarded'[v] = rewarded[v]
        BY <1>2, <1>3, <2>1, <3>3 DEF Logins!RowsAreTyped
      <4>2. QED
        BY <1>13, <2>2, <3>1, <4>1 DEF SessionRows
    <3>4. QED
      BY <1>11, <3>2, <3>3
  <2>5. \A s \in Tokens : token'[s].live => credentials'[token'[s].of].state = "active"
    BY <1>10, <1>13, <2>2
  <2>6. QED
    BY <1>10, <1>13, <2>2, <2>3, <2>4, <2>5 DEF SessionRows
<1>14. QED
  BY <1>2, <1>4, <1>10, <1>12, <1>13, SessionStep

\* refresh-token, of users and of administrators.
LEMMA RenewStep ==
  ASSUME Logins!NoneIsNoId, SessionsInv, NEW h \in Handlers, Logins!Renew(h)
  PROVE  SessionsInv'
<1>1. PICK j : j = job[h]
  OBVIOUS
<1>2. /\ j.op = "refresh" /\ ~Logins!Idle(h)
      /\ Logins!RowsAreTyped /\ Logins!FromIsToken
  BY <1>1, SessionsRest, SessionFacts DEF Logins!Renew, Logins!At
<1>3. j.who \in Logins!Accounts /\ j.token \in Tokens /\ token[j.token] # Logins!NoToken
  BY <1>1, <1>2, SessionFacts DEF Logins!JobsAreReal, Logins!JobIsReal, Logins!Jobs
<1>4. /\ UNCHANGED <<credentials, rewarded, resetAt, grant, calm>>
      /\ job' = [job EXCEPT ![h] = Logins!Resting]
  BY DEF Logins!Renew, Logins!End, Logins!SameRedis, Logins!SameHistory
<1>5. PICK t \in Tokens :
        /\ token[t] = Logins!NoToken
        /\ token' = [Logins!Revoked({j.token}) EXCEPT ![t] = Logins!Issued(t, j.who, j.token)]
  BY <1>1 DEF Logins!Renew, Logins!Fresh
<1>6. /\ token' \in [Tokens -> Logins!UserToken \cup {Logins!NoToken}]
      /\ Logins!FromIsToken'
      /\ \A s \in Tokens : token[s] # Logins!NoToken => token'[s] # Logins!NoToken
      /\ SessionRows /\ token[j.token].live /\ credentials[j.who].state = "active" =>
           /\ \A s \in Tokens : token'[s].live => \A r \in Tokens : token'[r].from # s
           /\ \A r, s \in Tokens :
                token'[r].from # None /\ token'[r].from = token'[s].from => r = s
           /\ \A s \in Tokens : token'[s].live => token'[s].password >= resetAt'[token'[s].of]
           /\ \A s \in Tokens : token'[s].live => credentials[token'[s].of].state = "active"
  BY <1>2, <1>3, <1>4, <1>5, TokenIssued
<1>7. Logins!RowsAreTyped'
  BY <1>2, <1>4, <1>6 DEF Logins!RowsAreTyped
<1>8. ASSUME SessionRows, Logins!ReadStands(job[h]) PROVE SessionRows'
  <2>1. token[j.token].live /\ credentials[j.who].state = "active"
    BY <1>1, <1>2, <1>8 DEF Logins!ReadStands, Logins!Active
  <2>2. QED
    BY <1>4, <1>6, <1>8, <2>1 DEF SessionRows
<1>9. QED
  BY <1>2, <1>4, <1>6, <1>7, <1>8, SessionStep

\* What is only revoked is as it was, but dead.
LEMMA TokensRevoked ==
  ASSUME Logins!NoneIsNoId, Logins!RowsAreTyped, Logins!FromIsToken, NEW ts,
         token' = Logins!Revoked(ts)
  PROVE  /\ token' \in [Tokens -> Logins!UserToken \cup {Logins!NoToken}]
         /\ Logins!FromIsToken'
         /\ \A s \in Tokens :
              /\ token[s] # Logins!NoToken => token'[s] # Logins!NoToken
              /\ token'[s].live => token[s].live /\ s \notin ts
              /\ token'[s].of = token[s].of /\ token'[s].from = token[s].from
              /\ token'[s].password = token[s].password
<1>1. /\ token' \in [Tokens -> Logins!UserToken \cup {Logins!NoToken}]
      /\ \A s \in Tokens :
           /\ token'[s] = Logins!NoToken <=> token[s] = Logins!NoToken
           /\ token'[s].live => token[s].live /\ s \notin ts
           /\ token'[s].of = token[s].of /\ token'[s].from = token[s].from
           /\ token'[s].password = token[s].password
  BY RevokedTokens
<1>2. Logins!FromIsToken'
  BY <1>1 DEF Logins!FromIsToken
<1>3. QED
  BY <1>1, <1>2

\* A password is the one after that which was read.
LEMMA PasswordSet ==
  ASSUME Logins!MaxPasswordsIsNumber, Logins!RowsAreTyped, NEW h \in Handlers,
         NEW j, j = job[h], Logins!JobIsReal(j), j.op \in {"change", "reset"},
         Logins!NewPassword(h)
  PROVE  /\ credentials' \in [Logins!Accounts -> Logins!Account]
         /\ j.who \in Logins!Accounts /\ j.seen.password + 1 \in 0..MaxPasswords
         /\ credentials'[j.who].password = j.seen.password + 1
         /\ credentials'[j.who].today = j.seen.today
         /\ credentials'[j.who].state = j.seen.state
         /\ \A a \in Logins!Accounts \ {j.who} : credentials'[a] = credentials[a]
<1>1. /\ j.who \in Logins!Accounts /\ j.seen \in Logins!Account
      /\ j.seen.password < MaxPasswords
  BY DEF Logins!JobIsReal, Logins!Jobs
<1>2. PICK row : row = [j.seen EXCEPT !.password = j.seen.password + 1]
  OBVIOUS
<1>3. j.seen.password + 1 \in 0..MaxPasswords
  BY <1>1 DEF Logins!Account, Logins!MaxPasswordsIsNumber
<1>4. /\ row \in Logins!Account /\ row.password = j.seen.password + 1
      /\ row.today = j.seen.today /\ row.state = j.seen.state
  BY <1>1, <1>2, <1>3 DEF Logins!Account
<1>5. credentials' = [credentials EXCEPT ![j.who] = row]
  BY <1>2 DEF Logins!NewPassword
<1>6. QED
  BY <1>1, <1>3, <1>4, <1>5 DEF Logins!RowsAreTyped

\* change-password, of users and of administrators.
LEMMA ChangeStep ==
  ASSUME Logins!NoneIsNoId, Logins!MaxPasswordsIsNumber, SessionsInv, NEW h \in Handlers,
         Logins!SetPassword(h)
  PROVE  SessionsInv'
<1>1. PICK j : j = job[h]
  OBVIOUS
<1>2. /\ j.op = "change" /\ ~Logins!Idle(h)
      /\ Logins!RowsAreTyped /\ Logins!FromIsToken
  BY <1>1, SessionsRest, SessionFacts DEF Logins!SetPassword, Logins!At
<1>3. Logins!JobIsReal(j)
  BY <1>1, <1>2, SessionFacts DEF Logins!JobsAreReal
<1>4. /\ UNCHANGED <<rewarded, resetAt, grant, calm>>
      /\ job' = [job EXCEPT ![h] = Logins!Resting]
      /\ Logins!NewPassword(h) /\ token' = Logins!Revoked(j.tokens)
  BY <1>1 DEF Logins!SetPassword, Logins!End, Logins!SameRedis, Logins!SameHistory
<1>5. /\ token' \in [Tokens -> Logins!UserToken \cup {Logins!NoToken}]
      /\ Logins!FromIsToken'
      /\ \A s \in Tokens :
           /\ token[s] # Logins!NoToken => token'[s] # Logins!NoToken
           /\ token'[s].live => token[s].live /\ s \notin j.tokens
           /\ token'[s].of = token[s].of /\ token'[s].from = token[s].from
           /\ token'[s].password = token[s].password
  BY <1>2, <1>4, TokensRevoked
<1>6. /\ credentials' \in [Logins!Accounts -> Logins!Account]
      /\ j.who \in Logins!Accounts
      /\ credentials'[j.who].password = j.seen.password + 1
      /\ credentials'[j.who].today = j.seen.today
      /\ credentials'[j.who].state = j.seen.state
      /\ \A a \in Logins!Accounts \ {j.who} : credentials'[a] = credentials[a]
  BY <1>1, <1>2, <1>3, <1>4, PasswordSet
<1>7. Logins!RowsAreTyped'
  BY <1>2, <1>4, <1>5, <1>6 DEF Logins!RowsAreTyped
<1>8. ASSUME SessionRows, Logins!ReadStands(job[h]) PROVE SessionRows'
  <2>1. j.seen = credentials[j.who]
    BY <1>1, <1>2, <1>8 DEF Logins!ReadStands
  <2>2. /\ credentials[j.who].password \in Int /\ resetAt[j.who] \in Int
        /\ credentials[j.who].password >= resetAt[j.who]
    BY <1>2, <1>6, <1>8 DEF Logins!RowsAreTyped, Logins!Account, SessionRows
  <2>3. \A a \in Logins!Accounts : credentials'[a].password >= resetAt'[a]
    BY <1>4, <1>6, <1>8, <2>1, <2>2 DEF SessionRows
  <2>4. \A a \in Logins!Accounts : credentials'[a].today = credentials[a].today
    BY <1>6, <2>1
  <2>5. \A u \in Users : rewarded'[u] = 0 \/ (rewarded'[u] = 1 /\ credentials'[u].today)
    BY <1>4, <1>8, <2>4 DEF SessionRows, Logins!Accounts
  <2>6. /\ \A t \in Tokens : token'[t].live => \A s \in Tokens : token'[s].from # t
        /\ \A s, t \in Tokens : token'[s].from # None /\ token'[s].from = token'[t].from => s = t
        /\ \A t \in Tokens : token'[t].live => token'[t].password >= resetAt'[token'[t].of]
    BY <1>4, <1>5, <1>8 DEF SessionRows
  <2>7. \A t \in Tokens : token'[t].live => credentials'[token'[t].of].state = "active"
    <3>1. \A a \in Logins!Accounts : credentials'[a].state = credentials[a].state
      BY <1>6, <2>1
    <3>2. QED
      BY <1>2, <1>5, <1>8, <3>1, LiveIsOfAccount DEF SessionRows
  <2>8. QED
    BY <2>3, <2>5, <2>6, <2>7 DEF SessionRows
<1>9. QED
  BY <1>2, <1>4, <1>5, <1>7, <1>8, SessionStep

\* reset-password, of users and of administrators.
LEMMA ResetStep ==
  ASSUME Logins!NoneIsNoId, Logins!MaxPasswordsIsNumber, SessionsInv, NEW h \in Handlers,
         Logins!Reset(h)
  PROVE  SessionsInv'
<1>1. PICK j : j = job[h]
  OBVIOUS
<1>2. /\ j.op = "reset" /\ ~Logins!Idle(h)
      /\ Logins!RowsAreTyped /\ Logins!FromIsToken
  BY <1>1, SessionsRest, SessionFacts DEF Logins!Reset, Logins!At
<1>3. Logins!JobIsReal(j)
  BY <1>1, <1>2, SessionFacts DEF Logins!JobsAreReal
<1>4. PICK k : k = [op |-> "used", who |-> j.who, grant |-> j.grant]
  OBVIOUS
<1>5. k.op = "used" /\ k \in Logins!Jobs
  BY <1>2, <1>3, <1>4 DEF Logins!JobIsReal, Logins!Jobs
<1>6. /\ UNCHANGED <<rewarded, grant, calm>>
      /\ job' = [job EXCEPT ![h] = k]
      /\ Logins!NewPassword(h) /\ token' = Logins!Revoked(j.tokens)
      /\ resetAt' = [resetAt EXCEPT ![j.who] = j.seen.password + 1]
  BY <1>1, <1>4 DEF Logins!Reset, Logins!Continue, Logins!SameRedis
<1>7. /\ token' \in [Tokens -> Logins!UserToken \cup {Logins!NoToken}]
      /\ Logins!FromIsToken'
      /\ \A s \in Tokens :
           /\ token[s] # Logins!NoToken => token'[s] # Logins!NoToken
           /\ token'[s].live => token[s].live /\ s \notin j.tokens
           /\ token'[s].of = token[s].of /\ token'[s].from = token[s].from
           /\ token'[s].password = token[s].password
  BY <1>2, <1>6, TokensRevoked
<1>8. /\ credentials' \in [Logins!Accounts -> Logins!Account]
      /\ j.who \in Logins!Accounts /\ j.seen.password + 1 \in 0..MaxPasswords
      /\ credentials'[j.who].password = j.seen.password + 1
      /\ credentials'[j.who].today = j.seen.today
      /\ credentials'[j.who].state = j.seen.state
      /\ \A a \in Logins!Accounts \ {j.who} : credentials'[a] = credentials[a]
  BY <1>1, <1>2, <1>3, <1>6, PasswordSet
<1>9. /\ resetAt' \in [Logins!Accounts -> 0..MaxPasswords]
      /\ resetAt'[j.who] = j.seen.password + 1
      /\ \A a \in Logins!Accounts \ {j.who} : resetAt'[a] = resetAt[a]
  BY <1>2, <1>6, <1>8 DEF Logins!RowsAreTyped
<1>10. Logins!RowsAreTyped'
  BY <1>2, <1>6, <1>7, <1>8, <1>9 DEF Logins!RowsAreTyped
<1>11. ASSUME SessionRows, Logins!ReadStands(job[h]) PROVE SessionRows'
  <2>1. /\ j.seen = credentials[j.who]
        /\ \A s \in Tokens : token[s].of = j.who => s \in j.tokens
    BY <1>1, <1>2, <1>11 DEF Logins!ReadStands, Logins!TokensOf
  <2>2. \A a \in Logins!Accounts : credentials'[a].password >= resetAt'[a]
    BY <1>8, <1>9, <1>11 DEF SessionRows
  <2>3. \A a \in Logins!Accounts : credentials'[a].today = credentials[a].today
    BY <1>8, <2>1
  <2>4. \A u \in Users : rewarded'[u] = 0 \/ (rewarded'[u] = 1 /\ credentials'[u].today)
    BY <1>6, <1>11, <2>3 DEF SessionRows, Logins!Accounts
  <2>5. /\ \A t \in Tokens : token'[t].live => \A s \in Tokens : token'[s].from # t
        /\ \A s, t \in Tokens : token'[s].from # None /\ token'[s].from = token'[t].from => s = t
    BY <1>7, <1>11 DEF SessionRows
  <2>6. ASSUME NEW t \in Tokens, token'[t].live
        PROVE  token'[t].password >= resetAt'[token'[t].of]
    <3>1. token[t].live /\ token[t].of # j.who
      BY <1>7, <2>1, <2>6
    <3>2. token[t].of \in Logins!Accounts
      BY <1>2, <3>1, LiveIsOfAccount
    <3>3. QED
      BY <1>7, <1>9, <1>11, <3>1, <3>2 DEF SessionRows
  <2>7. \A t \in Tokens : token'[t].live => credentials'[token'[t].of].state = "active"
    <3>1. \A a \in Logins!Accounts : credentials'[a].state = credentials[a].state
      BY <1>8, <2>1
    <3>2. QED
      BY <1>2, <1>7, <1>11, <3>1, LiveIsOfAccount DEF SessionRows
  <2>8. QED
    BY <2>2, <2>4, <2>5, <2>6, <2>7 DEF SessionRows
<1>12. QED
  BY <1>2, <1>5, <1>6, <1>7, <1>10, <1>11, SessionStep

LEMMA GrantStep ==
  ASSUME SessionsInv, NEW h \in Handlers,
         Logins!StoreOtp(h) \/ Logins!Grant(h) \/ Logins!UseUpGrant(h) \/ Logins!Fail(h)
  PROVE  SessionsInv'
<1>1. PICK j : j = job[h]
  OBVIOUS
<1>2. /\ ~Logins!Idle(h) /\ UNCHANGED <<credentials, token, rewarded, resetAt, calm>>
      /\ job' = [job EXCEPT ![h] = Logins!Resting]
      /\ Logins!RowsAreTyped /\ Logins!FromIsToken
  BY SessionsRest, SessionFacts
  DEF Logins!StoreOtp, Logins!Grant, Logins!UseUpGrant, Logins!Fail, Logins!At, Logins!End,
      Logins!SameAccounts, Logins!SameHistory
<1>3. Logins!JobIsReal(j)
  BY <1>1, <1>2, SessionFacts DEF Logins!JobsAreReal
<1>4. j.who \in Logins!Accounts
  BY <1>3 DEF Logins!JobIsReal, Logins!Jobs
<1>5. grant' \in [Grants -> Logins!Accounts \cup {None}]
  BY <1>1, <1>2, <1>4
  DEF Logins!StoreOtp, Logins!Grant, Logins!UseUpGrant, Logins!Fail, Logins!SameRedis,
      Logins!RowsAreTyped
<1>6. Logins!RowsAreTyped' /\ Logins!FromIsToken' /\ (SessionRows => SessionRows')
  BY <1>2, <1>5 DEF Logins!RowsAreTyped, Logins!FromIsToken, SessionRows
<1>7. QED
  BY <1>2, <1>6, SessionStep

\* logout, of users and of administrators, meets nobody or ends the calm.
LEMMA LogoutStep ==
  ASSUME Logins!NoneIsNoId, SessionsInv, NEW a, NEW t \in Tokens, Logins!Logout(a, t)
  PROVE  SessionsInv'
<1>1. /\ UNCHANGED <<credentials, grant, rewarded, resetAt, job>>
      /\ token' = Logins!Revoked({t})
      /\ Logins!RowsAreTyped /\ Logins!JobsAreReal /\ Logins!FromIsToken
  BY SessionFacts DEF Logins!Logout, Logins!AtOnce, Logins!SameRedis, Logins!SameHistory
<1>2. calm' \in BOOLEAN /\ (calm' => calm /\ \A g \in Handlers : Logins!Idle(g))
  BY Zenon DEF Logins!Logout, Logins!AtOnce
<1>3. /\ token' \in [Tokens -> Logins!UserToken \cup {Logins!NoToken}]
      /\ Logins!FromIsToken'
      /\ \A s \in Tokens :
           /\ token[s] # Logins!NoToken => token'[s] # Logins!NoToken
           /\ token'[s].live => token[s].live /\ s \notin {t}
           /\ token'[s].of = token[s].of /\ token'[s].from = token[s].from
           /\ token'[s].password = token[s].password
  BY <1>1, TokensRevoked
<1>4. Logins!RowsAreTyped'
  BY <1>1, <1>2, <1>3 DEF Logins!RowsAreTyped
<1>5. Logins!JobsAreReal'
  <2>1. SUFFICES ASSUME NEW h \in Handlers, Logins!JobIsReal(job[h])
                 PROVE  Logins!JobIsReal(job[h])'
    BY <1>1 DEF Logins!JobsAreReal, Logins!Idle
  <2>2. job[h].op = "refresh" => job[h].token \in Tokens
    BY <2>1 DEF Logins!JobIsReal, Logins!Jobs
  <2>3. QED
    BY <1>1, <1>3, <2>1, <2>2 DEF Logins!JobIsReal
<1>6. ASSUME calm'
      PROVE  /\ SessionRows'
             /\ \A f, g \in Handlers : Logins!Idle(f)' \/ Logins!Idle(g)' \/ f = g
             /\ \A g \in Handlers : Logins!ReadStands(job[g])'
  <2>1. SessionRows /\ \A g \in Handlers : Logins!Idle(g)
    BY <1>2, <1>6, SessionFacts
  <2>2. SessionRows'
    <3>1. /\ \A r \in Tokens : token'[r].live => \A s \in Tokens : token'[s].from # r
          /\ \A r, s \in Tokens : token'[s].from # None /\ token'[s].from = token'[r].from => s = r
      BY <1>3, <2>1 DEF SessionRows
    <3>2. \A r \in Tokens : token'[r].live => token'[r].password >= resetAt'[token'[r].of]
      BY <1>1, <1>3, <2>1 DEF SessionRows
    <3>3. \A r \in Tokens : token'[r].live => credentials'[token'[r].of].state = "active"
      BY <1>1, <1>3, <2>1 DEF SessionRows
    <3>4. QED
      BY <1>1, <2>1, <3>1, <3>2, <3>3 DEF SessionRows
  <2>3. \A g \in Handlers : job'[g].op = "none" /\ Logins!Idle(g)'
    BY <1>1, <2>1, SessionsRest DEF Logins!Idle
  <2>4. QED
    BY <2>2, <2>3 DEF Logins!ReadStands
<1>7. QED
  BY <1>3, <1>4, <1>5, <1>6, SessionFactsNext

\* What Redis keeps ends: the rows do not depend on it.
LEMMA RedisExpires == ASSUME SessionsInv, Logins!Expire PROVE SessionsInv'
<1>1. /\ UNCHANGED <<credentials, token, rewarded, resetAt, job, calm>>
      /\ Logins!RowsAreTyped
  BY SessionFacts DEF Logins!Expire, Logins!SameAccounts, Logins!SameHistory
<1>2. grant' \in [Grants -> Logins!Accounts \cup {None}]
  BY <1>1 DEF Logins!Expire, Logins!RowsAreTyped
<1>3. QED
  BY <1>1, <1>2
  DEF SessionsInv, Logins!RowsAreTyped, Logins!JobsAreReal, Logins!FromIsToken,
      Logins!ReadsStand, Logins!CalmSessions, Logins!Idle, Logins!JobIsReal,
      Logins!ReadStands, Logins!Active, Logins!TokensOf

\* An account is saved as it was read, but for its state: whose state is not
\* "active" then has no session left.
LEMMA AccountSaved ==
  ASSUME Logins!NoneIsNoId, SessionsInv, NEW h \in Handlers, NEW j, j = job[h],
         j.op \in {"profile", "update", "delete"},
         NEW row \in Logins!Account, row.password = j.seen.password,
         row.today = j.seen.today, j.who \in Logins!Accounts,
         credentials' = [credentials EXCEPT ![j.who] = row],
         UNCHANGED <<grant, rewarded, resetAt, calm>>,
         job' = [job EXCEPT ![h] = Logins!Resting],
         NEW ts, token' = token \/ token' = Logins!Revoked(ts),
         \A t \in Tokens : token'[t].live /\ token[t].of = j.who =>
                             row.state = "active" \/ j.seen.state # "active"
  PROVE  SessionsInv'
<1>1. ~Logins!Idle(h) /\ Logins!RowsAreTyped /\ Logins!FromIsToken
  BY SessionsRest, SessionFacts
<1>2. /\ token' \in [Tokens -> Logins!UserToken \cup {Logins!NoToken}]
      /\ Logins!FromIsToken'
      /\ \A s \in Tokens :
           /\ token[s] # Logins!NoToken => token'[s] # Logins!NoToken
           /\ token'[s].live => token[s].live
           /\ token'[s].of = token[s].of /\ token'[s].from = token[s].from
           /\ token'[s].password = token[s].password
  <2>1. CASE token' = token
    BY <1>1, <2>1 DEF Logins!RowsAreTyped, Logins!FromIsToken
  <2>2. CASE token' = Logins!Revoked(ts)
    BY <1>1, <2>2, TokensRevoked
  <2>3. QED
    BY <2>1, <2>2
<1>3. /\ credentials' \in [Logins!Accounts -> Logins!Account]
      /\ credentials'[j.who] = row
      /\ \A a \in Logins!Accounts \ {j.who} : credentials'[a] = credentials[a]
  BY <1>1 DEF Logins!RowsAreTyped
<1>4. Logins!RowsAreTyped'
  BY <1>1, <1>2, <1>3 DEF Logins!RowsAreTyped
<1>5. ASSUME SessionRows, Logins!ReadStands(job[h]) PROVE SessionRows'
  <2>1. j.seen = credentials[j.who]
    BY <1>5 DEF Logins!ReadStands
  <2>2. \A a \in Logins!Accounts : /\ credentials'[a].password = credentials[a].password
                                   /\ credentials'[a].today = credentials[a].today
    BY <1>3, <2>1
  <2>3. /\ \A a \in Logins!Accounts : credentials'[a].password >= resetAt'[a]
        /\ \A u \in Users : rewarded'[u] = 0 \/ (rewarded'[u] = 1 /\ credentials'[u].today)
    BY <1>5, <2>2 DEF SessionRows, Logins!Accounts
  <2>4. /\ \A t \in Tokens : token'[t].live => \A s \in Tokens : token'[s].from # t
        /\ \A s, t \in Tokens : token'[s].from # None /\ token'[s].from = token'[t].from => s = t
        /\ \A t \in Tokens : token'[t].live => token'[t].password >= resetAt'[token'[t].of]
    BY <1>2, <1>5 DEF SessionRows
  <2>5. ASSUME NEW t \in Tokens, token'[t].live
        PROVE  credentials'[token'[t].of].state = "active"
    <3>1. /\ token[t].live /\ token'[t].of = token[t].of
          /\ token[t].of \in Logins!Accounts /\ credentials[token[t].of].state = "active"
      BY <1>1, <1>2, <1>5, <2>5, LiveIsOfAccount DEF SessionRows
    <3>2. CASE token[t].of = j.who
      BY <1>3, <2>1, <2>5, <3>1, <3>2
    <3>3. CASE token[t].of # j.who
      BY <1>3, <3>1, <3>3
    <3>4. QED
      BY <3>2, <3>3
  <2>6. QED
    BY <2>3, <2>4, <2>5 DEF SessionRows
<1>6. QED
  BY <1>1, <1>2, <1>4, <1>5, SessionStep

\* update-profile, of users and of administrators, GET me, remove-badge.
LEMMA AccountKept ==
  ASSUME Logins!NoneIsNoId, SessionsInv, NEW h \in Handlers, Logins!SaveProfile(h)
  PROVE  SessionsInv'
<1>1. PICK j : j = job[h]
  OBVIOUS
<1>2. j.op = "profile" /\ ~Logins!Idle(h)
  BY <1>1, SessionsRest DEF Logins!SaveProfile, Logins!At
<1>3. j.who \in Logins!Accounts /\ j.seen \in Logins!Account
  BY <1>1, <1>2, SessionFacts DEF Logins!JobsAreReal, Logins!JobIsReal, Logins!Jobs
<1>4. /\ UNCHANGED <<token, grant, rewarded, resetAt, calm>>
      /\ job' = [job EXCEPT ![h] = Logins!Resting]
      /\ credentials' = [credentials EXCEPT ![j.who] = j.seen]
  BY <1>1 DEF Logins!SaveProfile, Logins!End, Logins!SameRedis, Logins!SameHistory
<1>5. PICK row \in Logins!Account : row = j.seen
  BY <1>3
<1>6. row.state = "active" \/ j.seen.state # "active"
  BY <1>5
<1>7. QED
  BY <1>1, <1>2, <1>3, <1>4, <1>5, <1>6, AccountSaved

\* update-user: who is switched off loses the sessions.
LEMMA UpdateUserStep ==
  ASSUME Logins!NoneIsNoId, SessionsInv, NEW h \in Handlers, Logins!UpdateUser(h)
  PROVE  SessionsInv'
<1>1. PICK j : j = job[h]
  OBVIOUS
<1>2. j.op = "update" /\ ~Logins!Idle(h)
  BY <1>1, SessionsRest DEF Logins!UpdateUser, Logins!At
<1>3. /\ j.who \in Logins!Accounts /\ j.seen \in Logins!Account
      /\ j.state \in {"active", "inactive"}
  BY <1>1, <1>2, SessionFacts DEF Logins!JobsAreReal, Logins!JobIsReal, Logins!Jobs
<1>4. PICK row : row = [j.seen EXCEPT !.state = j.state]
  OBVIOUS
<1>5. /\ row \in Logins!Account /\ row.state = j.state
      /\ row.password = j.seen.password /\ row.today = j.seen.today
  BY <1>3, <1>4 DEF Logins!Account
<1>6. /\ UNCHANGED <<grant, rewarded, resetAt, calm>>
      /\ job' = [job EXCEPT ![h] = Logins!Resting]
      /\ credentials' = [credentials EXCEPT ![j.who] = row]
      /\ token' = IF j.seen.state = "active" /\ j.state = "inactive"
                  THEN Logins!Revoked(Logins!TokensOf(j.who)) ELSE token
  BY <1>1, <1>4 DEF Logins!UpdateUser, Logins!End, Logins!SameRedis, Logins!SameHistory
<1>7. ASSUME NEW t \in Tokens, token'[t].live, token[t].of = j.who
      PROVE  row.state = "active" \/ j.seen.state # "active"
  <2>1. SUFFICES ASSUME j.seen.state = "active", j.state = "inactive" PROVE FALSE
    BY <1>3, <1>5
  <2>2. t \notin Logins!TokensOf(j.who)
    BY <1>6, <1>7, <2>1, RevokedTokens, SessionFacts
  <2>3. QED
    BY <1>7, <2>2 DEF Logins!TokensOf
<1>8. PICK ts : token' = token \/ token' = Logins!Revoked(ts)
  BY <1>6
<1>9. QED
  BY <1>1, <1>2, <1>3, <1>5, <1>6, <1>7, <1>8, AccountSaved

\* delete-user ends all the sessions there are.
LEMMA DeleteUserStep ==
  ASSUME Logins!NoneIsNoId, SessionsInv, NEW h \in Handlers, Logins!DeleteUser(h)
  PROVE  SessionsInv'
<1>1. PICK j : j = job[h]
  OBVIOUS
<1>2. j.op = "delete" /\ ~Logins!Idle(h)
  BY <1>1, SessionsRest DEF Logins!DeleteUser, Logins!At
<1>3. j.who \in Logins!Accounts /\ j.seen \in Logins!Account
  BY <1>1, <1>2, SessionFacts DEF Logins!JobsAreReal, Logins!JobIsReal, Logins!Jobs
<1>4. PICK row : row = [j.seen EXCEPT !.state = "deleted"]
  OBVIOUS
<1>5. /\ row \in Logins!Account
      /\ row.password = j.seen.password /\ row.today = j.seen.today
  BY <1>3, <1>4 DEF Logins!Account
<1>6. /\ UNCHANGED <<grant, rewarded, resetAt, calm>>
      /\ job' = [job EXCEPT ![h] = Logins!Resting]
      /\ credentials' = [credentials EXCEPT ![j.who] = row]
      /\ token' = Logins!Revoked(Logins!TokensOf(j.who))
  BY <1>1, <1>4 DEF Logins!DeleteUser, Logins!End, Logins!SameRedis, Logins!SameHistory
<1>7. \A t \in Tokens : token'[t].live => token[t].of # j.who
  BY <1>6, RevokedTokens, SessionFacts DEF Logins!TokensOf
<1>8. PICK ts : token' = Logins!Revoked(ts)
  BY <1>6
<1>9. QED
  BY <1>1, <1>2, <1>3, <1>5, <1>6, <1>7, <1>8, AccountSaved

\* register, create-user and create-admin: a new account has no session yet.
LEMMA AccountMade ==
  ASSUME Logins!NoneIsNoId, SessionsInv, NEW a \in Logins!Accounts,
         NEW state \in {"active", "inactive"}, Logins!NewAccount(a, state)
  PROVE  SessionsInv'
<1>1. /\ UNCHANGED <<token, grant, rewarded, resetAt, job>>
      /\ credentials[a].state = "none"
      /\ Logins!RowsAreTyped /\ Logins!JobsAreReal /\ Logins!FromIsToken
  BY SessionFacts
  DEF Logins!NewAccount, Logins!AtOnce, Logins!SameRedis, Logins!SameHistory
<1>2. calm' \in BOOLEAN /\ (calm' => calm /\ \A g \in Handlers : Logins!Idle(g))
  BY Zenon DEF Logins!NewAccount, Logins!AtOnce
<1>3. PICK row : row = [credentials[a] EXCEPT !.state = state]
  OBVIOUS
<1>4. /\ row \in Logins!Account
      /\ row.password = credentials[a].password /\ row.today = credentials[a].today
  BY <1>1, <1>3 DEF Logins!RowsAreTyped, Logins!Account
<1>5. /\ credentials' = [credentials EXCEPT ![a] = row]
      /\ credentials' \in [Logins!Accounts -> Logins!Account]
      /\ credentials'[a] = row
      /\ \A b \in Logins!Accounts \ {a} : credentials'[b] = credentials[b]
  <2>1. credentials' = [credentials EXCEPT ![a] = row]
    BY <1>3 DEF Logins!NewAccount
  <2>2. QED
    BY <1>1, <1>4, <2>1 DEF Logins!RowsAreTyped
<1>6. Logins!RowsAreTyped' /\ Logins!FromIsToken'
  BY <1>1, <1>2, <1>5 DEF Logins!RowsAreTyped, Logins!FromIsToken
<1>7. Logins!JobsAreReal'
  BY <1>1 DEF Logins!JobsAreReal, Logins!JobIsReal, Logins!Idle
<1>8. ASSUME calm'
      PROVE  /\ SessionRows'
             /\ \A f, g \in Handlers : Logins!Idle(f)' \/ Logins!Idle(g)' \/ f = g
             /\ \A g \in Handlers : Logins!ReadStands(job[g])'
  <2>1. SessionRows /\ \A g \in Handlers : Logins!Idle(g)
    BY <1>2, <1>8, SessionFacts
  <2>2. \A b \in Logins!Accounts : /\ credentials'[b].password = credentials[b].password
                                   /\ credentials'[b].today = credentials[b].today
                                   /\ b = a \/ credentials'[b].state = credentials[b].state
    BY <1>4, <1>5
  <2>3. \A t \in Tokens : token[t].live => token[t].of \in Logins!Accounts /\ token[t].of # a
    BY <1>1, <2>1, LiveIsOfAccount DEF SessionRows
  <2>4. SessionRows'
    BY <1>1, <2>1, <2>2, <2>3 DEF SessionRows, Logins!Accounts
  <2>5. \A g \in Handlers : job'[g].op = "none" /\ Logins!Idle(g)'
    BY <1>1, <2>1, SessionsRest DEF Logins!Idle
  <2>6. QED
    BY <2>4, <2>5 DEF Logins!ReadStands
<1>9. QED
  BY <1>6, <1>7, <1>8, SessionFactsNext

\* At midnight what is seen of an account changes as the account does.
LEMMA Midnight ==
  ASSUME Logins!NoneIsNoId, SessionsInv, Logins!NewDay PROVE SessionsInv'
<1>1. /\ UNCHANGED <<token, grant, resetAt, calm>>
      /\ Logins!RowsAreTyped /\ Logins!FromIsToken /\ Logins!JobsAreReal
      /\ rewarded' = [u \in Users |-> 0]
  BY SessionFacts DEF Logins!NewDay, Logins!SameRedis
<1>2. ASSUME NEW r \in Logins!Account
      PROVE  /\ [r EXCEPT !.today = FALSE] \in Logins!Account
             /\ [r EXCEPT !.today = FALSE].password = r.password
             /\ [r EXCEPT !.today = FALSE].state = r.state
             /\ ~[r EXCEPT !.today = FALSE].today
  BY DEF Logins!Account
<1>3. \A a \in Logins!Accounts :
        /\ credentials'[a] = [credentials[a] EXCEPT !.today = FALSE]
        /\ credentials'[a].password = credentials[a].password
        /\ credentials'[a].state = credentials[a].state
  BY <1>1, <1>2 DEF Logins!NewDay, Logins!RowsAreTyped
<1>4. Logins!RowsAreTyped' /\ Logins!FromIsToken'
  BY <1>1, <1>2 DEF Logins!NewDay, Logins!RowsAreTyped, Logins!FromIsToken
<1>5. SessionRows => SessionRows'
  BY <1>1, <1>3, LiveIsOfAccount DEF SessionRows, Logins!Accounts
<1>6. /\ DOMAIN job = Handlers /\ DOMAIN job' = Handlers
      /\ \A h \in Handlers : job'[h] = IF "seen" \in DOMAIN job[h]
                                      THEN [job[h] EXCEPT !.seen.today = FALSE] ELSE job[h]
  BY <1>1 DEF Logins!NewDay, Logins!JobsAreReal
<1>7. ASSUME NEW h \in Handlers, Logins!Idle(h) PROVE Logins!Idle(h)'
  <2>1. "seen" \notin DOMAIN Logins!Resting
    BY DEF Logins!Resting
  <2>2. QED
    BY <1>6, <1>7, <2>1 DEF Logins!Idle
<1>8. ASSUME NEW h \in Handlers, Logins!JobIsReal(job[h])
      PROVE  /\ Logins!JobIsReal(job[h])'
             /\ Logins!ReadStands(job[h]) => Logins!ReadStands(job[h])'
  <2>1. PICK j : j = job[h]
    OBVIOUS
  <2>2. j \in Logins!Jobs /\ Logins!JobIsReal(j) /\ j.who \in Logins!Accounts
    BY <1>8, <2>1 DEF Logins!JobIsReal, Logins!Jobs
  <2>3. PICK k : k = job'[h]
    OBVIOUS
  <2>4. CASE j.op \in {"login", "change", "reset", "profile", "update", "delete"}
    <3>1. j.seen \in Logins!Account /\ "seen" \in DOMAIN j
      BY <2>2, <2>4 DEF Logins!Jobs
    <3>2. PICK row : row = [j.seen EXCEPT !.today = FALSE]
      OBVIOUS
    <3>3. /\ row \in Logins!Account /\ row.password = j.seen.password
          /\ row.state = j.seen.state
      BY <1>2, <3>1, <3>2
    <3>4. k = [j EXCEPT !.seen = row]
      BY <1>6, <2>1, <2>3, <3>1, <3>2
    <3>5. /\ k \in Logins!Jobs /\ k.op = j.op /\ k.who = j.who /\ k.seen = row
          /\ j.op = "login" => k.reward = j.reward
          /\ j.op = "reset" => k.tokens = j.tokens
      BY <2>2, <2>4, <3>3, <3>4 DEF Logins!Jobs
    <3>6. Logins!JobIsReal(k)'
      BY <2>2, <2>4, <3>3, <3>5 DEF Logins!JobIsReal
    <3>7. ASSUME Logins!ReadStands(j) PROVE Logins!ReadStands(k)'
      <4>1. k.seen = credentials'[k.who]
        BY <1>3, <2>2, <2>4, <3>2, <3>5, <3>7 DEF Logins!ReadStands
      <4>2. k.op = "login" /\ k.reward => rewarded'[k.who] = 0
        BY <1>1, <2>2, <3>5 DEF Logins!JobIsReal
      <4>3. QED
        BY <1>1, <2>4, <3>5, <3>7, <4>1, <4>2 DEF Logins!ReadStands, Logins!TokensOf
    <3>8. QED
      BY <2>1, <2>3, <3>6, <3>7
  <2>5. CASE j.op \notin {"login", "change", "reset", "profile", "update", "delete"}
    <3>1. "seen" \notin DOMAIN j
      BY <2>2, <2>5 DEF Logins!Jobs
    <3>2. k = j
      BY <1>6, <2>1, <2>3, <3>1
    <3>3. Logins!JobIsReal(k)' /\ (Logins!ReadStands(j) => Logins!ReadStands(k)')
      BY <1>1, <1>3, <2>2, <2>5, <3>2
      DEF Logins!JobIsReal, Logins!ReadStands, Logins!Active
    <3>4. QED
      BY <2>1, <2>3, <3>3
  <2>6. QED
    BY <2>4, <2>5
<1>9. Logins!JobsAreReal'
  BY <1>1, <1>6, <1>7, <1>8 DEF Logins!JobsAreReal
<1>10. ASSUME calm'
       PROVE  /\ SessionRows'
              /\ \A f, g \in Handlers : Logins!Idle(f)' \/ Logins!Idle(g)' \/ f = g
              /\ \A g \in Handlers : Logins!ReadStands(job[g])'
  <2>1. /\ SessionRows
        /\ \A f, g \in Handlers : Logins!Idle(f) \/ Logins!Idle(g) \/ f = g
        /\ \A g \in Handlers : Logins!ReadStands(job[g])
    BY <1>1, <1>10, SessionFacts
  <2>2. ASSUME NEW g \in Handlers, Logins!Idle(g) PROVE Logins!ReadStands(job[g])'
    <3>1. job'[g].op = "none"
      BY <1>7, <2>2, SessionsRest DEF Logins!Idle
    <3>2. QED
      BY <3>1 DEF Logins!ReadStands
  <2>3. QED
    BY <1>1, <1>5, <1>7, <1>8, <2>1, <2>2 DEF Logins!JobsAreReal
<1>11. QED
  BY <1>4, <1>9, <1>10, SessionFactsNext

LEMMA SessionsInit == ASSUME Logins!NoneIsNoId, Logins!MaxPasswordsIsNumber, Logins!Init
                      PROVE  SessionsInv
<1>1. /\ \A a \in Logins!Accounts : /\ credentials[a] = [password |-> 0, today |-> FALSE,
                                                      state |-> "none"]
                                   /\ credentials[a].password = 0 /\ resetAt[a] = 0
      /\ \A t \in Tokens : /\ token[t] = Logins!NoToken /\ ~token[t].live
                          /\ token[t].from = None
      /\ \A u \in Users : rewarded[u] = 0
      /\ \A h \in Handlers : /\ Logins!Idle(h) /\ job[h].op = "none"
  BY NoTokenIsNoRow, SessionsRest DEF Logins!Init, Logins!NoJobs, Logins!Idle
<1>2. Logins!RowsAreTyped
  BY DEF Logins!Init, Logins!NoJobs, Logins!RowsAreTyped, Logins!Account,
         Logins!MaxPasswordsIsNumber
<1>3. Logins!JobsAreReal /\ Logins!FromIsToken
  BY <1>1, NoTokenIsNoRow
  DEF Logins!Init, Logins!NoJobs, Logins!JobsAreReal, Logins!FromIsToken
<1>4. Logins!ReadsStand
  BY <1>1 DEF Logins!ReadsStand, Logins!ReadStands
<1>5. Logins!CalmSessions
  BY <1>1 DEF Logins!CalmSessions
<1>6. QED
  BY <1>2, <1>3, <1>4, <1>5 DEF SessionsInv

LEMMA SessionsStep ==
  ASSUME Logins!NoneIsNoId, Logins!MaxPasswordsIsNumber,
         SessionsInv, [Logins!Next]_(Logins!vars)
  PROVE  SessionsInv'
<1>1. ASSUME NEW h \in Handlers, NEW as, as \subseteq Logins!Accounts, Logins!Routes(h, as)
      PROVE  SessionsInv'
  <2>1. PICK a \in as :
          \/ Logins!CheckLogin(h, a) \/ Logins!CheckRequestOtp(h, a)
          \/ Logins!CheckVerifyOtp(h, a) \/ Logins!ReadAccount(h, a)
          \/ \E t \in Tokens : \/ Logins!CheckRefresh(h, a, t) \/ Logins!Logout(a, t)
                               \/ Logins!CheckChangePassword(h, a, t)
          \/ \E g \in Grants : grant[g] = a /\ Logins!CheckResetPassword(h, g)
    BY <1>1 DEF Logins!Routes, Logins!CheckUpdateProfile
  <2>2. a \in Logins!Accounts
    BY <1>1, <2>1
  <2>3. QED
    BY <2>1, <2>2, SessionCheck, LogoutStep
<1>2. ASSUME NEW h \in Handlers,
             \/ Logins!AuthController(h) \/ Logins!AdminController(h)
             \/ Logins!AdminUserController(h)
      PROVE  SessionsInv'
  <2>1. Users \subseteq Logins!Accounts /\ Admins \subseteq Logins!Accounts
    BY DEF Logins!Accounts
  <2>2. CASE Logins!AuthController(h)
    BY <1>1, <2>1, <2>2, AccountMade DEF Logins!AuthController, Logins!Register
  <2>3. CASE Logins!AdminController(h)
    BY <1>1, <2>1, <2>3, AccountMade DEF Logins!AdminController, Logins!CreateAdmin
  <2>4. CASE Logins!AdminUserController(h)
    BY <2>1, <2>4, AccountMade, SessionCheck
    DEF Logins!AdminUserController, Logins!CreateUser, Logins!CheckRemoveBadge
  <2>5. QED
    BY <1>2, <2>2, <2>3, <2>4
<1>3. ASSUME NEW h \in Handlers, Logins!Finish(h) PROVE SessionsInv'
  BY <1>3, LoginStep, RenewStep, ChangeStep, ResetStep, AccountKept, UpdateUserStep,
     DeleteUserStep, GrantStep
  DEF Logins!Finish, Logins!RefreshToken, Logins!AdminRefreshToken, Logins!ChangePassword,
      Logins!AdminChangePassword, Logins!RequestOtp, Logins!AdminRequestOtp,
      Logins!VerifyOtpForgotPassword, Logins!AdminVerifyOtpForgotPassword,
      Logins!ResetPassword, Logins!AdminResetPassword, Logins!UpdateProfile,
      Logins!AdminUpdateProfile
<1>4. CASE UNCHANGED Logins!vars
  <2>1. UNCHANGED <<credentials, token, code, grant, rewarded, resetAt, job, calm>>
    BY <1>4 DEF Logins!vars
  <2>2. QED
    BY <2>1
    DEF SessionsInv, Logins!RowsAreTyped, Logins!JobsAreReal, Logins!FromIsToken,
        Logins!ReadsStand, Logins!CalmSessions, Logins!Idle, Logins!JobIsReal,
        Logins!ReadStands, Logins!Active, Logins!TokensOf
<1>5. QED
  BY <1>2, <1>3, <1>4, RedisExpires, Midnight DEF Logins!Next

LEMMA SessionsInvHolds ==
  ASSUME Logins!NoneIsNoId, Logins!MaxPasswordsIsNumber
  PROVE  Logins!Spec => []SessionsInv
<1>1. Logins!Init => SessionsInv
  BY SessionsInit
<1>2. SessionsInv /\ [Logins!Next]_(Logins!vars) => SessionsInv'
  BY SessionsStep
<1>3. QED
  BY <1>1, <1>2, PTL DEF Logins!Spec

CodesAreTyped == code \in [Logins!Accounts -> BOOLEAN]

LEMMA CodesTyped ==
  ASSUME CodesAreTyped, [Logins!Next]_(Logins!vars)
  PROVE  CodesAreTyped'
<1>1. SUFFICES \/ code' = code
               \/ \E a, b : b \in BOOLEAN /\ code' = [code EXCEPT ![a] = b]
  BY DEF CodesAreTyped
<1>2. ASSUME NEW h \in Handlers, NEW as, Logins!Routes(h, as) PROVE code' = code
  BY <1>2
  DEF Logins!Routes, Logins!CheckLogin, Logins!CheckRequestOtp, Logins!CheckVerifyOtp,
      Logins!CheckRefresh, Logins!Logout, Logins!CheckChangePassword,
      Logins!CheckResetPassword, Logins!CheckUpdateProfile, Logins!ReadAccount,
      Logins!SameRedis
<1>3. ASSUME NEW h \in Handlers, Logins!StoreOtp(h) \/ Logins!Grant(h)
      PROVE  code' = code \/ \E a, b : b \in BOOLEAN /\ code' = [code EXCEPT ![a] = b]
  <2>1. \/ code' = code
        \/ code' = [code EXCEPT ![job[h].who] = TRUE]
        \/ code' = [code EXCEPT ![job[h].who] = FALSE]
    BY <1>3 DEF Logins!StoreOtp, Logins!Grant
  <2>2. QED
    BY <2>1, Zenon
<1>4. ASSUME NEW h \in Handlers,
             \/ Logins!StartSession(h) \/ Logins!Renew(h) \/ Logins!SetPassword(h)
             \/ Logins!Reset(h) \/ Logins!UseUpGrant(h) \/ Logins!Fail(h)
             \/ Logins!SaveProfile(h) \/ Logins!UpdateUser(h) \/ Logins!DeleteUser(h)
      PROVE  code' = code
  BY <1>4
  DEF Logins!StartSession, Logins!Renew, Logins!SetPassword, Logins!Reset, Logins!UseUpGrant,
      Logins!Fail, Logins!SaveProfile, Logins!UpdateUser, Logins!DeleteUser, Logins!SameRedis
<1>5. ASSUME NEW h \in Handlers, Logins!Finish(h)
      PROVE  code' = code \/ \E a, b : b \in BOOLEAN /\ code' = [code EXCEPT ![a] = b]
  BY <1>3, <1>4, <1>5, Zenon
  DEF Logins!Finish, Logins!Login, Logins!AdminLogin, Logins!RefreshToken,
      Logins!AdminRefreshToken, Logins!ChangePassword, Logins!AdminChangePassword,
      Logins!RequestOtp, Logins!AdminRequestOtp, Logins!VerifyOtpForgotPassword,
      Logins!AdminVerifyOtpForgotPassword, Logins!ResetPassword, Logins!AdminResetPassword,
      Logins!UpdateProfile, Logins!AdminUpdateProfile
<1>6. Logins!Expire => code' = code \/ \E a : code' = [code EXCEPT ![a] = FALSE]
  BY DEF Logins!Expire
<1>7. Logins!NewDay => code' = code
  BY DEF Logins!NewDay, Logins!SameRedis
<1>8. UNCHANGED Logins!vars => code' = code
  BY DEF Logins!vars
<1>9. ASSUME NEW h \in Handlers,
             \/ Logins!AuthController(h) \/ Logins!AdminController(h)
             \/ Logins!AdminUserController(h)
      PROVE  code' = code
  BY <1>2, <1>9
  DEF Logins!AuthController, Logins!AdminController, Logins!AdminUserController,
      Logins!Register, Logins!CreateAdmin, Logins!CreateUser, Logins!NewAccount,
      Logins!CheckUpdateUser, Logins!CheckDeleteUser, Logins!CheckRemoveBadge,
      Logins!ReadAccount, Logins!SameRedis
<1>10. QED
  BY <1>5, <1>6, <1>7, <1>8, <1>9, Zenon DEF Logins!Next

LEMMA SessionsAreTyped ==
  ASSUME Logins!NoneIsNoId, Logins!MaxPasswordsIsNumber
  PROVE  Logins!Spec => []Logins!TypeOK
<1>1. Logins!Spec => []SessionsInv
  BY SessionsInvHolds
<1>2. Logins!Init => CodesAreTyped
  BY DEF Logins!Init, CodesAreTyped
<1>3. CodesAreTyped /\ [Logins!Next]_(Logins!vars) => CodesAreTyped'
  BY CodesTyped
<1>4. SessionsInv /\ CodesAreTyped => Logins!TypeOK
  BY DEF SessionsInv, Logins!RowsAreTyped, CodesAreTyped, Logins!TypeOK
<1>5. QED
  BY <1>1, <1>2, <1>3, <1>4, PTL DEF Logins!Spec

-----------------------------------------------------------------------------
(* Badges and memberships: the theorems of the components                   *)

BadgeTheorems ==
  INSTANCE BadgeRequestsProofs WITH Manages <- [s \in Sites |-> Users]

MemberTheorems == INSTANCE MembershipsProofs

\* Both instances are of the same component: what is defined is the same,
\* definition by definition.
LEMMA SameBadges ==
  /\ Badges!Init <=> BadgeTheorems!Init
  /\ Badges!Next <=> BadgeTheorems!Next
  /\ Badges!CalmAwards <=> BadgeTheorems!CalmAwards
  /\ Badges!vars = BadgeTheorems!vars
BY DEF Badges!Resting, Badges!Idle, Badges!At, Badges!NoJobs, Badges!Begin,
      Badges!Continue, Badges!End, Badges!AtOnce, Badges!Busy, Badges!Owners,
      Badges!Badges, Badges!BadgesOf, Badges!vars, Badges!NoRequest,
      Badges!Awarded, Badges!HasPending, Badges!Locked, Badges!Init,
      Badges!MayRequest, Badges!CheckUserRequest, Badges!CheckSiteRequest,
      Badges!InsertRequest, Badges!MayCancel, Badges!CheckCancelUser,
      Badges!CheckCancelSite, Badges!Cancel, Badges!LockPending,
      Badges!LockForApproval, Badges!ApproveUserRequest,
      Badges!ApproveSiteRequest, Badges!AddAward, Badges!CommitApproval,
      Badges!RejectUserRequest, Badges!RejectSiteRequest, Badges!CommitRejection,
      Badges!CheckAssignToUser, Badges!CheckAssignToSite, Badges!Assign,
      Badges!RemoveRows, Badges!RemoveFromUser, Badges!RemoveFromSite,
      Badges!UpdateBadge, Badges!CheckDeleteBadge, Badges!DeleteBadge,
      Badges!RestoreBadge, Badges!Fail, Badges!UserBadgeRequestController,
      Badges!SiteBadgeRequestController, Badges!AdminUserBadgeRequestController,
      Badges!AdminSiteBadgeRequests, Badges!AdminSiteBadges,
      Badges!AdminUserBadgeController, Badges!AdminBadgeController, Badges!Finish,
      Badges!Next, Badges!CalmAwards, BadgeTheorems!Resting, BadgeTheorems!Idle,
      BadgeTheorems!At, BadgeTheorems!NoJobs, BadgeTheorems!Begin,
      BadgeTheorems!Continue, BadgeTheorems!End, BadgeTheorems!AtOnce,
      BadgeTheorems!Busy, BadgeTheorems!Owners, BadgeTheorems!Badges,
      BadgeTheorems!BadgesOf, BadgeTheorems!vars, BadgeTheorems!NoRequest,
      BadgeTheorems!Awarded, BadgeTheorems!HasPending, BadgeTheorems!Locked,
      BadgeTheorems!Init, BadgeTheorems!MayRequest,
      BadgeTheorems!CheckUserRequest, BadgeTheorems!CheckSiteRequest,
      BadgeTheorems!InsertRequest, BadgeTheorems!MayCancel,
      BadgeTheorems!CheckCancelUser, BadgeTheorems!CheckCancelSite,
      BadgeTheorems!Cancel, BadgeTheorems!LockPending,
      BadgeTheorems!LockForApproval, BadgeTheorems!ApproveUserRequest,
      BadgeTheorems!ApproveSiteRequest, BadgeTheorems!AddAward,
      BadgeTheorems!CommitApproval, BadgeTheorems!RejectUserRequest,
      BadgeTheorems!RejectSiteRequest, BadgeTheorems!CommitRejection,
      BadgeTheorems!CheckAssignToUser, BadgeTheorems!CheckAssignToSite,
      BadgeTheorems!Assign, BadgeTheorems!RemoveRows,
      BadgeTheorems!RemoveFromUser, BadgeTheorems!RemoveFromSite,
      BadgeTheorems!UpdateBadge, BadgeTheorems!CheckDeleteBadge,
      BadgeTheorems!DeleteBadge, BadgeTheorems!RestoreBadge, BadgeTheorems!Fail,
      BadgeTheorems!UserBadgeRequestController,
      BadgeTheorems!SiteBadgeRequestController,
      BadgeTheorems!AdminUserBadgeRequestController,
      BadgeTheorems!AdminSiteBadgeRequests, BadgeTheorems!AdminSiteBadges,
      BadgeTheorems!AdminUserBadgeController, BadgeTheorems!AdminBadgeController,
      BadgeTheorems!Finish, BadgeTheorems!Next, BadgeTheorems!CalmAwards

LEMMA SameMembers ==
  /\ Members!Init <=> MemberTheorems!Init
  /\ Members!Next <=> MemberTheorems!Next
  /\ Members!OneOpenEach <=> MemberTheorems!OneOpenEach
  /\ Members!CalmManagersArePartners <=> MemberTheorems!CalmManagersArePartners
  /\ Members!vars = MemberTheorems!vars
BY DEF Members!Resting, Members!Idle, Members!At, Members!NoJobs, Members!Begin,
      Members!Continue, Members!End, Members!AtOnce, Members!Busy, Members!Roles,
      Members!vars, Members!NoRow, Members!NoRole, Members!RolesOf, Members!Has,
      Members!IsManager, Members!Locked, Members!Init, Members!SameUsers,
      Members!SameRequests, Members!SameSites, Members!FreeRow, Members!Replaced,
      Members!AddRole, Members!CreateUser, Members!NoLongerManager,
      Members!CheckDeleteUser, Members!DeleteUser, Members!CheckUpdateUser,
      Members!OneRoleRow, Members!UpdateUser, Members!Latest,
      Members!UniquePending, Members!CheckPartnerRequest,
      Members!CreatePartnerRequest, Members!Register, Members!AuthController,
      Members!LockPartnerRequest,
      Members!ApprovePartnerRequest, Members!RejectPartnerRequest,
      Members!ApplicationsOf, Members!CheckApply, Members!Apply,
      Members!CheckApprove, Members!BecomePartner, Members!ApproveApplication,
      Members!CheckReject, Members!RejectApplication, Members!CheckPartner,
      Members!CreateSite, Members!CheckPartnerUid, Members!AddManager,
      Members!RemovePartnerUid, Members!Fail, Members!AdminUserController,
      Members!PartnerController, Members!AdminPartnerController,
      Members!SiteManagerController, Members!AdminSiteManagerController,
      Members!AdminSiteController, Members!Finish, Members!Next,
      Members!OneOpenEach, Members!CalmManagersArePartners, Members!Cardinality,
      Members!IsFiniteSet, MemberTheorems!Resting, MemberTheorems!Idle,
      MemberTheorems!At, MemberTheorems!NoJobs, MemberTheorems!Begin,
      MemberTheorems!Continue, MemberTheorems!End, MemberTheorems!AtOnce,
      MemberTheorems!Busy, MemberTheorems!Roles, MemberTheorems!vars,
      MemberTheorems!NoRow, MemberTheorems!NoRole, MemberTheorems!RolesOf,
      MemberTheorems!Has, MemberTheorems!IsManager, MemberTheorems!Locked,
      MemberTheorems!Init, MemberTheorems!SameUsers, MemberTheorems!SameRequests,
      MemberTheorems!SameSites, MemberTheorems!FreeRow, MemberTheorems!Replaced,
      MemberTheorems!AddRole, MemberTheorems!CreateUser,
      MemberTheorems!NoLongerManager, MemberTheorems!CheckDeleteUser,
      MemberTheorems!DeleteUser, MemberTheorems!CheckUpdateUser,
      MemberTheorems!OneRoleRow, MemberTheorems!UpdateUser, MemberTheorems!Latest,
      MemberTheorems!UniquePending, MemberTheorems!CheckPartnerRequest,
      MemberTheorems!CreatePartnerRequest, MemberTheorems!Register,
      MemberTheorems!AuthController, MemberTheorems!LockPartnerRequest,
      MemberTheorems!ApprovePartnerRequest, MemberTheorems!RejectPartnerRequest,
      MemberTheorems!ApplicationsOf, MemberTheorems!CheckApply,
      MemberTheorems!Apply, MemberTheorems!CheckApprove,
      MemberTheorems!BecomePartner, MemberTheorems!ApproveApplication,
      MemberTheorems!CheckReject, MemberTheorems!RejectApplication,
      MemberTheorems!CheckPartner, MemberTheorems!CreateSite,
      MemberTheorems!CheckPartnerUid, MemberTheorems!AddManager,
      MemberTheorems!RemovePartnerUid, MemberTheorems!Fail,
      MemberTheorems!AdminUserController, MemberTheorems!PartnerController,
      MemberTheorems!AdminPartnerController, MemberTheorems!SiteManagerController,
      MemberTheorems!AdminSiteManagerController,
      MemberTheorems!AdminSiteController, MemberTheorems!Finish,
      MemberTheorems!Next, MemberTheorems!OneOpenEach,
      MemberTheorems!CalmManagersArePartners, MemberTheorems!Cardinality,
      MemberTheorems!IsFiniteSet

LEMMA SameBadgeTypes == Badges!TypeOK <=> BadgeTheorems!TypeOK
BY DEF Badges!TypeOK, Badges!Badges, Badges!Owners, Badges!BadgeRequest, Badges!NoRequest,
      Badges!Status, BadgeTheorems!Status,
      BadgeTheorems!TypeOK, BadgeTheorems!Badges, BadgeTheorems!Owners,
      BadgeTheorems!BadgeRequest, BadgeTheorems!NoRequest

LEMMA SameMemberTypes == Members!TypeOK <=> MemberTheorems!TypeOK
BY DEF Members!TypeOK, Members!UserRole, Members!Roles, Members!NoRole,
      Members!PartnerRequest, Members!SiteManagerApplication, Members!NoRow,
      MemberTheorems!TypeOK, MemberTheorems!UserRole, MemberTheorems!Roles,
      MemberTheorems!NoRole, MemberTheorems!PartnerRequest,
      MemberTheorems!SiteManagerApplication, MemberTheorems!NoRow

-----------------------------------------------------------------------------
(* The parts                                                                *)

\* The part that was chosen at first is the one that runs.
LEMMA PartStays ==
  ASSUME NEW p, [Next]_vars
  PROVE  /\ part = p => (part = p)'
         /\ ~(part = p) => (~(part = p))'
BY DEF Next, vars

LEMMA BadgesRun == Spec /\ part = "badges" => [](part = "badges") /\ BadgeTheorems!Spec
<1>1. Init /\ part = "badges" => BadgeTheorems!Init
  BY SameBadges DEF Init
<1>2. part = "badges" /\ [Next]_vars =>
        (part = "badges")' /\ [BadgeTheorems!Next]_(BadgeTheorems!vars)
  BY SameBadges DEF Next, vars, badgeVars, BadgeTheorems!vars
<1>3. QED
  BY <1>1, <1>2, PTL DEF Spec, BadgeTheorems!Spec

LEMMA MembersRun == Spec /\ part = "members" => [](part = "members") /\ MemberTheorems!Spec
<1>1. Init /\ part = "members" => MemberTheorems!Init
  BY SameMembers DEF Init
<1>2. part = "members" /\ [Next]_vars =>
        (part = "members")' /\ [MemberTheorems!Next]_(MemberTheorems!vars)
  BY SameMembers DEF Next, vars, memberVars, MemberTheorems!vars
<1>3. QED
  BY <1>1, <1>2, PTL DEF Spec, MemberTheorems!Spec

LEMMA DaysRun == Spec /\ part = "days" => [](part = "days") /\ Days!Spec
<1>1. Init /\ part = "days" => Days!Init
  BY DEF Init
<1>2. part = "days" /\ [Next]_vars => (part = "days")' /\ [Days!Next]_(Days!vars)
  BY DEF Next, vars, attendanceVars, Days!vars
<1>3. QED
  BY <1>1, <1>2, PTL DEF Spec, Days!Spec

LEMMA NumbersRun == Spec /\ part = "numbers" => [](part = "numbers") /\ Numbers!Spec
<1>1. Init /\ part = "numbers" => Numbers!Init
  BY DEF Init
<1>2. part = "numbers" /\ [Next]_vars => (part = "numbers")' /\ [Numbers!Next]_(Numbers!vars)
  BY DEF Next, vars, phoneVars, Numbers!vars
<1>3. QED
  BY <1>1, <1>2, PTL DEF Spec, Numbers!Spec

LEMMA SessionsRun == Spec /\ part = "sessions" => [](part = "sessions") /\ Logins!Spec
<1>1. Init /\ part = "sessions" => Logins!Init
  BY DEF Init
<1>2. part = "sessions" /\ [Next]_vars => (part = "sessions")' /\ [Logins!Next]_(Logins!vars)
  BY DEF Next, vars, sessionVars, Logins!vars
<1>3. QED
  BY <1>1, <1>2, PTL DEF Spec, Logins!Spec

-----------------------------------------------------------------------------
(* What MCAccounts checks                                                   *)

\* As long as use cases do not overlap, a badge is awarded once and no badge a
\* user has is deleted (approve-user-badge-request, delete-badge).
THEOREM AwardsAreCalm == Spec => []CalmAwards
<1>1. BadgeTheorems!MaxAwardsIsNumber
  BY Assumptions DEF Badges!MaxAwardsIsNumber, BadgeTheorems!MaxAwardsIsNumber
<1>2. BadgeTheorems!Spec => []BadgeTheorems!CalmAwards
  BY <1>1, NoneIsNoHandler, BadgeTheorems!ChecksAreEnough, PTL
<1>3. ~(part = "badges") \/ BadgeTheorems!CalmAwards => CalmAwards
  BY SameBadges DEF CalmAwards
<1>4. ~(part = "badges") /\ [Next]_vars => (~(part = "badges"))'
  BY PartStays
<1>5. QED
  BY <1>2, <1>3, <1>4, BadgesRun, PTL DEF Spec

\* As long as use cases do not overlap, whoever manages a site is a partner
\* (update-user, approve-application, create-site and update-site).
THEOREM ManagersArePartnersWhileCalm == Spec => []CalmManagersArePartners
<1>1. MemberTheorems!NoneIsNoUser
  BY Assumptions DEF Members!NoneIsNoUser, MemberTheorems!NoneIsNoUser
<1>2. MemberTheorems!Spec => []MemberTheorems!CalmManagersArePartners
  BY <1>1, NoneIsNoHandler, MemberTheorems!ManagersStayPartners, PTL
<1>3. ~(part = "members") \/ MemberTheorems!CalmManagersArePartners
        => CalmManagersArePartners
  BY SameMembers DEF CalmManagersArePartners
<1>4. ~(part = "members") /\ [Next]_vars => (~(part = "members"))'
  BY PartStays
<1>5. QED
  BY <1>2, <1>3, <1>4, MembersRun, PTL DEF Spec

\* Whatever overlaps: one open partner request per user, one open application
\* per user and site, and an approved one has its manager.
THEOREM OpenRequestsAreOne == Spec => []OneOpenEach
<1>1. MemberTheorems!Spec => []MemberTheorems!OneOpenEach
  BY NoneIsNoHandler, MemberTheorems!OpenOnce, PTL
<1>2. ~(part = "members") \/ MemberTheorems!OneOpenEach => OneOpenEach
  BY SameMembers DEF OneOpenEach
<1>3. ~(part = "members") /\ [Next]_vars => (~(part = "members"))'
  BY PartStays
<1>4. QED
  BY <1>1, <1>2, <1>3, MembersRun, PTL DEF Spec

\* Whatever overlaps: what an admin decides is pending when the decision
\* commits (approve and reject of badge and partner requests, approve-application).
THEOREM OnlyPendingIsDecided == Spec => DecidesPendingOnly
<1>1. Spec => Badges!DecidesPendingOnly
  <2>1. BadgeTheorems!MaxAwardsIsNumber
    BY Assumptions DEF Badges!MaxAwardsIsNumber, BadgeTheorems!MaxAwardsIsNumber
  <2>2. BadgeTheorems!Spec => BadgeTheorems!DecidesPendingOnly
    BY <2>1, NoneIsNoHandler, BadgeTheorems!DecisionsAreOfPending, PTL
  <2>3. BadgeTheorems!DecidesPendingOnly => Badges!DecidesPendingOnly
    BY PTL DEF BadgeTheorems!DecidesPendingOnly, Badges!DecidesPendingOnly,
               BadgeTheorems!vars, Badges!vars
  <2>4. ~(part = "badges") /\ [Next]_vars =>
          [\A r \in Requests :
             request'[r].status \in {"approved", "rejected"} /\ request'[r] # request[r]
               => request[r].status = "pending"]_(Badges!vars)
    BY DEF Next, vars, badgeVars
  <2>5. ~(part = "badges") /\ [Next]_vars => (~(part = "badges"))'
    BY PartStays
  <2>6. Spec /\ ~(part = "badges") => Badges!DecidesPendingOnly
    BY <2>4, <2>5, PTL DEF Spec, Badges!DecidesPendingOnly
  <2>7. QED
    BY <2>2, <2>3, <2>6, BadgesRun, PTL DEF Spec
<1>2. Spec => Members!DecidesPendingOnly
  <2>1. MemberTheorems!Spec => MemberTheorems!DecidesPendingOnly
    BY NoneIsNoHandler, MemberTheorems!DecisionsAreOfPending, PTL
  <2>2. MemberTheorems!DecidesPendingOnly => Members!DecidesPendingOnly
    BY PTL DEF MemberTheorems!DecidesPendingOnly, Members!DecidesPendingOnly,
               MemberTheorems!vars, Members!vars
  <2>3. ~(part = "members") /\ [Next]_vars =>
          [/\ \A p \in PartnerRequests :
                 partnerReq'[p].status \in {"approved", "rejected"} /\ partnerReq'[p] # partnerReq[p]
                   => partnerReq[p].status = "pending"
           /\ \A a \in Applications :
                 application'[a].status = "approved" /\ application'[a] # application[a]
                   => application[a].status = "pending"]_(Members!vars)
    BY DEF Next, vars, memberVars
  <2>4. ~(part = "members") /\ [Next]_vars => (~(part = "members"))'
    BY PartStays
  <2>5. Spec /\ ~(part = "members") => Members!DecidesPendingOnly
    BY <2>3, <2>4, PTL DEF Spec, Members!DecidesPendingOnly
  <2>6. QED
    BY <2>1, <2>2, <2>5, MembersRun, PTL DEF Spec
<1>3. QED
  BY <1>1, <1>2, PTL DEF DecidesPendingOnly

\* Whatever overlaps: a check-in is rewarded once a day, and exactly if there
\* is a row (create-attendance).
THEOREM RewardedOncePerDay == Spec => []OncePerDay
<1>1. Days!Spec => []DayInv
  BY Assumptions, DayInvHolds, PTL
<1>2. ~(part = "days") \/ DayInv => OncePerDay
  BY DEF OncePerDay, DayInv
<1>3. ~(part = "days") /\ [Next]_vars => (~(part = "days"))'
  BY PartStays
<1>4. QED
  BY <1>1, <1>2, <1>3, DaysRun, PTL DEF Spec

\* As long as check-ins do not overlap, streaks count the days without a gap and
\* the ranks of a day number its rows in their order (create-attendance).
THEOREM AttendanceIsCalm == Spec => []CalmAttendance
<1>1. Days!Spec => []AttendanceInv
  BY Assumptions, AttendanceInvHolds, PTL
<1>2. ~(part = "days") \/ AttendanceInv => CalmAttendance
  BY Assumptions, CalmRanks DEF CalmAttendance
<1>3. ~(part = "days") /\ [Next]_vars => (~(part = "days"))'
  BY PartStays
<1>4. QED
  BY <1>1, <1>2, <1>3, DaysRun, PTL DEF Spec

\* As long as use cases do not overlap, two users never have one number, the row
\* of a number is its user's, and no more codes are sent in a window than the
\* limit (request-otp-phone, verify-otp, register, update-user-profile).
THEOREM NumbersAreCalm == Spec => []CalmPhones
<1>1. Numbers!NoneIsNobody /\ Numbers!LimitIsPositive
  BY Assumptions
<1>2. Numbers!Spec => []NumbersInv
  BY <1>1, NumbersInvHolds
<1>3. ~(part = "numbers") \/ NumbersInv => CalmPhones
  BY <1>1, CalmNumbers DEF CalmPhones
<1>4. ~(part = "numbers") /\ [Next]_vars => (~(part = "numbers"))'
  BY PartStays
<1>5. QED
  BY <1>2, <1>3, <1>4, NumbersRun, PTL DEF Spec

\* As long as use cases do not overlap: refresh tokens serve once; no session
\* outlives a reset of the password, or the deactivation or deletion of the
\* account, however it has been renewed and whatever else saves the account; the
\* first login of a day is rewarded once (login, refresh-token, reset-password,
\* of users and of administrators, update-user, delete-user, update-profile).
THEOREM SessionsAreCalm == Spec => []CalmSessions
<1>1. Logins!NoneIsNoId /\ Logins!MaxPasswordsIsNumber
  BY Assumptions
<1>2. Logins!Spec => []SessionsInv
  BY <1>1, SessionsInvHolds
<1>3. ~(part = "sessions") \/ SessionsInv => CalmSessions
  BY DEF CalmSessions, SessionsInv
<1>4. ~(part = "sessions") /\ [Next]_vars => (~(part = "sessions"))'
  BY PartStays
<1>5. QED
  BY <1>2, <1>3, <1>4, SessionsRun, PTL DEF Spec

\* Five parts, one of which runs.
PartIsOne == part \in {"badges", "members", "sessions", "numbers", "days"}

LEMMA OnePartRuns == Spec => []PartIsOne
<1>1. Init => PartIsOne
  BY DEF Init, PartIsOne
<1>2. PartIsOne /\ [Next]_vars => PartIsOne'
  BY DEF PartIsOne, Next, vars
<1>3. QED
  BY <1>1, <1>2, PTL DEF Spec

\* Whatever overlaps, every variable of the part that runs has its type: a row
\* read before stays a row when it is saved, a code is counted up to the limit,
\* a rank of a day is one of its places.
THEOREM AccountsAreTyped == Spec => []TypeOK
<1>1. BadgeTheorems!Spec => []BadgeTheorems!TypeOK
  <2>1. BadgeTheorems!MaxAwardsIsNumber
    BY Assumptions DEF Badges!MaxAwardsIsNumber, BadgeTheorems!MaxAwardsIsNumber
  <2>2. QED
    BY <2>1, NoneIsNoHandler, BadgeTheorems!Typing, PTL
<1>2. MemberTheorems!Spec => []MemberTheorems!TypeOK
  BY NoneIsNoHandler, MemberTheorems!Typing, PTL
<1>3. Logins!Spec => []Logins!TypeOK
  BY Assumptions, SessionsAreTyped, PTL
<1>4. Numbers!Spec => []Numbers!TypeOK
  BY Assumptions, NumbersAreTyped, PTL
<1>5. Days!Spec => []DayInv
  BY Assumptions, DayInvHolds, PTL
<1>6. /\ PartIsOne
      /\ ~(part = "badges") \/ BadgeTheorems!TypeOK
      /\ ~(part = "members") \/ MemberTheorems!TypeOK
      /\ ~(part = "sessions") \/ Logins!TypeOK
      /\ ~(part = "numbers") \/ Numbers!TypeOK
      /\ ~(part = "days") \/ DayInv
      => TypeOK
  BY SameBadgeTypes, SameMemberTypes DEF PartIsOne, TypeOK, DayInv, CheckInInv, StatInv
<1>7. /\ ~(part = "badges") /\ [Next]_vars => (~(part = "badges"))'
      /\ ~(part = "members") /\ [Next]_vars => (~(part = "members"))'
      /\ ~(part = "sessions") /\ [Next]_vars => (~(part = "sessions"))'
      /\ ~(part = "numbers") /\ [Next]_vars => (~(part = "numbers"))'
      /\ ~(part = "days") /\ [Next]_vars => (~(part = "days"))'
  BY PartStays
<1>8. QED
  BY <1>1, <1>2, <1>3, <1>4, <1>5, <1>6, <1>7, OnePartRuns, BadgesRun, MembersRun, SessionsRun,
     NumbersRun, DaysRun, PTL DEF Spec
=============================================================================
