------------------------------ MODULE Attendances ------------------------------
(***************************************************************************)
(* Attendance: once a day a user checks in, is rewarded, and gets a row of  *)
(* statistics for the day: the streak, and a rank among those of the day.   *)
(* Each check-in writes the ranks of all of them anew, as its transaction   *)
(* sees them.                                                               *)
(***************************************************************************)
EXTENDS UseCases, FiniteSets

CONSTANTS
  Users,
  MaxDay     \* bound of the model

Days == 1..MaxDay

\* Assumed of the constants: requests and users can be counted, as can days.
FiniteInstance ==
  /\ MaxDay \in Nat \ {0}
  /\ IsFiniteSet(Users)
  /\ IsFiniteSet(Handlers)

VARIABLES
  day,      \* today in Korea
  clock,    \* check-ins begun so far: the time in a row
  stat,     \* attendances and attendance_statistics, one row each or none
  rewards   \* attendance rewards for each user and day

vars == <<day, clock, stat, rewards, job, calm>>

MaxTime == MaxDay * Cardinality(Users) + Cardinality(Handlers)

NoStat == [total |-> 0, streak |-> 0, time |-> 0, rank |-> 0]

AttendanceStatistic ==
  [total: Days, streak: Days, time: 1..MaxTime, rank: 1..Cardinality(Users)]

Attended(u, d) == d \in Days /\ stat[u][d] # NoStat

Init ==
  /\ day = 1
  /\ clock = 0
  /\ stat = [u \in Users |-> [d \in Days |-> NoStat]]
  /\ rewards = [u \in Users |-> [d \in Days |-> 0]]
  /\ NoJobs

Yesterdays(u, d) == IF d = 1 THEN NoStat ELSE stat[u][d - 1]

-----------------------------------------------------------------------------

\* "Check if user already checked in today"; now() is when the transaction
\* begins.  The total counts on from yesterday, as the streak does.
CheckIn(h, u) ==
  /\ ~Attended(u, day)
  /\ clock < MaxTime
  /\ clock' = clock + 1
  /\ Begin(h, [op |-> "insert", user |-> u, day |-> day, time |-> clock + 1,
               total |-> Yesterdays(u, day).total + 1,
               streak |-> Yesterdays(u, day).streak + 1])
  /\ UNCHANGED <<day, stat, rewards>>

\* The order of the ranks: total DESC, streak DESC, attendanceTime ASC.
Better(a, b) ==
  \/ a.total > b.total
  \/ a.total = b.total /\ a.streak > b.streak
  \/ a.total = b.total /\ a.streak = b.streak /\ a.time < b.time

\* Mutant: the rank is the place in the order of arrival.
RankByArrival(rows, u) == 1 + Cardinality({v \in DOMAIN rows : rows[v].time < rows[u].time})

RankIn(rows, u) == 1 + Cardinality({v \in DOMAIN rows : Better(rows[v], rows[u])})

\* Mutant: there is no index.
MayInsertAgain(u, d) == u \in Users /\ d \in Days

\* Unique indexes: the insert waits for another of the same user and day.
MayInsert(u, d) ==
  /\ ~Attended(u, d)
  /\ \A g \in Busy({"commit"}) : job[g].user # u \/ job[g].day # d

\* The rows of the day are inserted and then read: those that are committed,
\* and the transaction's own.
InsertStatistic(h) ==
  /\ At(h, "insert")
  /\ MayInsert(job[h].user, job[h].day)
  /\ LET j == job[h]
         seen == {v \in Users : Attended(v, j.day)}
         rows == [v \in seen \cup {j.user} |->
                    IF v = j.user
                    THEN [total |-> j.total, streak |-> j.streak, time |-> j.time, rank |-> 0]
                    ELSE stat[v][j.day]]
     IN  Continue(h, [op |-> "commit", user |-> j.user, day |-> j.day, rows |-> rows])
  /\ UNCHANGED <<day, clock, stat, rewards>>

\* "Only update if rank changed", with respect to the rank that was read.
Reranked(rows, v, d) ==
  IF v \notin DOMAIN rows THEN stat[v][d]
  ELSE LET rank == RankIn(rows, v)
       IN  IF rows[v].rank = 0 THEN [rows[v] EXCEPT !.rank = rank]
           ELSE IF rank = rows[v].rank THEN stat[v][d]
           ELSE [stat[v][d] EXCEPT !.rank = rank]

\* The rewards are part of the transaction.
CreateAttendance(h) ==
  /\ At(h, "commit")
  /\ LET j == job[h]
     IN  /\ stat' = [v \in Users |-> [stat[v] EXCEPT ![j.day] = Reranked(j.rows, v, j.day)]]
         /\ rewards' = [rewards EXCEPT ![j.user][j.day] = @ + 1]
  /\ End(h)
  /\ UNCHANGED <<day, clock>>

Fail(h) == ~Idle(h) /\ End(h) /\ UNCHANGED <<day, clock, stat, rewards>>

Midnight ==
  /\ day < MaxDay
  /\ day' = day + 1
  /\ UNCHANGED <<clock, stat, rewards, job, calm>>

AttendanceController(h) == \E u \in Users : CheckIn(h, u)

Next ==
  \/ \E h \in Handlers : AttendanceController(h) \/ InsertStatistic(h)
                         \/ CreateAttendance(h) \/ Fail(h)
  \/ Midnight

Spec == Init /\ [][Next]_vars

-----------------------------------------------------------------------------
(* Properties *)

\* Every variable has its type.
TypeOK ==
  /\ day \in Days
  /\ clock \in 0..MaxTime
  /\ stat \in [Users -> [Days -> AttendanceStatistic \cup {NoStat}]]
  /\ rewards \in [Users -> [Days -> 0..1]]
  /\ calm \in BOOLEAN

\* Whatever overlaps, at a day's end too: a check-in is rewarded once a day, and
\* exactly if there is a row.  The unique indexes stand for it, the check at
\* the start does not.
OncePerDay == \A u \in Users, d \in Days : rewards[u][d] = IF Attended(u, d) THEN 1 ELSE 0

\* The last s days up to d are days of attendance, and the one before is not.
IsRun(u, d, s) ==
  /\ s \in 1..d
  /\ \A k \in (d - s + 1)..d : Attended(u, k)
  /\ ~Attended(u, d - s)

\* As long as check-ins do not overlap: a streak is the number of days without
\* a gap, and the ranks of a day number its rows in their order.  Two users at
\* once do not see each other and get one rank; a user who checks in before and
\* after midnight at once loses the streak.
CalmAttendance ==
  calm =>
    \A d \in Days :
      LET here == {u \in Users : Attended(u, d)}
      IN  /\ \A u \in here : IsRun(u, d, stat[u][d].streak)
          /\ {stat[u][d].rank : u \in here} = 1..Cardinality(here)
          /\ \A u, v \in here :
               Better(stat[u][d], stat[v][d]) => stat[u][d].rank < stat[v][d].rank

-----------------------------------------------------------------------------
(* What makes them inductive; the proofs are in AccountsProofs.             *)

\* A row of day d: neither total nor streak is beyond it.
RowOf(d) == [total: 1..d, streak: 1..d, time: 1..MaxTime, rank: 1..Cardinality(Users)]

\* The row a check-in inserts before it is ranked.
NewRowOf(d) == [total: 1..d, streak: 1..d, time: 1..MaxTime, rank: {0}]

StatsAreRows == \A u \in Users, d \in Days : stat[u][d] \in RowOf(d) \cup {NoStat}

\* What check-ins in progress carry with them.
CheckInsAreReal ==
  /\ DOMAIN job = Handlers
  /\ \A h \in Handlers :
       /\ At(h, "insert") => /\ job[h].user \in Users /\ job[h].day \in Days
                             /\ job[h].time \in 1..MaxTime
                             /\ job[h].total \in 1..job[h].day
                             /\ job[h].streak \in 1..job[h].day
       /\ At(h, "commit") =>
            LET j == job[h]
            IN  /\ j.user \in DOMAIN j.rows /\ j.day \in Days
                /\ DOMAIN j.rows \subseteq Users
                /\ j.rows[j.user] \in NewRowOf(j.day)
                /\ \A v \in DOMAIN j.rows \ {j.user} :
                     Attended(v, j.day) /\ j.rows[v] \in RowOf(j.day)

\* A row that is inserted and not committed is the only one for its user and day.
InsertsAreAlone ==
  \A h \in Busy({"commit"}) :
    /\ ~Attended(job[h].user, job[h].day)
    /\ \A g \in Busy({"commit"}) :
         job[g].user = job[h].user /\ job[g].day = job[h].day => g = h

-----------------------------------------------------------------------------
(* And as long as check-ins do not overlap.                                 *)

RowsOf(d) == [u \in {v \in Users : Attended(v, d)} |-> stat[u][d]]

\* Rows are of days gone by, in the order of their times; each streak is a run,
\* each rank a place among the rows of its day.
RowsAreRight ==
  \A u \in Users, d \in Days :
    Attended(u, d) =>
      /\ d <= day /\ stat[u][d].time <= clock
      /\ \A v \in Users : Attended(v, d) /\ stat[v][d].time = stat[u][d].time => u = v
      /\ IsRun(u, d, stat[u][d].streak)
      /\ stat[u][d].rank = RankIn(RowsOf(d), u)

\* The check-in in progress comes after every row, and has seen those of its day.
CheckInStands(j) ==
  j.op \in {"insert", "commit"} =>
    LET own == IF j.op = "insert" THEN j ELSE j.rows[j.user]
    IN  /\ j.day <= day /\ own.time <= clock
        /\ ~Attended(j.user, j.day)
        /\ own.streak = Yesterdays(j.user, j.day).streak + 1
        /\ \A v \in Users, d \in Days :
             Attended(v, d) => d <= j.day /\ (d = j.day => stat[v][d].time < own.time)
        /\ j.op = "commit" =>
             \A v \in Users \ {j.user} :
               IF Attended(v, j.day) THEN v \in DOMAIN j.rows /\ j.rows[v] = stat[v][j.day]
               ELSE v \notin DOMAIN j.rows

CheckInsStand ==
  calm => /\ RowsAreRight
          /\ \A g, h \in Handlers : Idle(g) \/ Idle(h) \/ g = h
          /\ \A h \in Handlers : CheckInStands(job[h])
=============================================================================
