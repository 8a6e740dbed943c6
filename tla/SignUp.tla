-------------------------------- MODULE SignUp --------------------------------
(***************************************************************************)
(* Telephone numbers: the code sent by SMS, the token it is exchanged for,  *)
(* and the two uses of the token, to register and to change the number of a *)
(* profile.                                                                 *)
(*                                                                          *)
(* otp_requests has one row per number that is not deleted; every use case  *)
(* reads the row, checks it, and saves it later.                            *)
(***************************************************************************)
EXTENDS UseCases

CONSTANTS
  Users,          \* who may register
  Phones,
  MaxRequests     \* OTP_MAX_REQUESTS_PER_WINDOW

\* Assumed of the constants: None is nobody, and a code may be asked for.
NoneIsNobody == None \notin Users
LimitIsPositive == MaxRequests \in Nat \ {0}

VARIABLES
  otp,        \* the row of otp_requests of each number that is not deleted
  phoneOf,    \* user_profiles.phone, None for a user without one
  member,     \* the users that are registered
  formerly,   \* for each user the numbers of whose rows one is deleted
  sent        \* history: codes sent within the throttle window of a row

vars == <<otp, phoneOf, member, formerly, sent, job, calm>>

NoOtp == [code |-> FALSE, token |-> FALSE, user |-> None, count |-> 0, recent |-> FALSE]

\* code: otp before expiresAt; token: token before tokenExpiresAt; user: userId,
\* set together with verifiedAt; recent: lastRequestAt is in the window.
OtpRequest == [code: BOOLEAN, token: BOOLEAN, user: Users \cup {None},
               count: 1..MaxRequests, recent: BOOLEAN]

Verified(row) == row.user # None

Init ==
  /\ otp = [p \in Phones |-> NoOtp]
  /\ phoneOf = [u \in Users |-> None]
  /\ member = {}
  /\ formerly = [u \in Users |-> {}]
  /\ sent = [p \in Phones |-> 0]
  /\ NoJobs

SameUsers == UNCHANGED <<phoneOf, member, formerly>>

-----------------------------------------------------------------------------
(* The code and the token *)

\* Mutant: the limit is passed by one.
BelowLimitOrAtIt(row) == row.recent => row.count <= MaxRequests

BelowLimit(row) == row.recent => row.count < MaxRequests

CheckRequestOtp(h, p) ==
  /\ ~Verified(otp[p])
  /\ BelowLimit(otp[p])
  /\ Begin(h, [op |-> "request", phone |-> p, row |-> otp[p]])
  /\ SameUsers /\ UNCHANGED <<otp, sent>>

Counted(row) == IF row.recent THEN row.count + 1 ELSE 1

\* The row is saved as it was read, verifiedAt reset, with the new code; a new
\* row meets the partial unique index.  Then the SMS is sent.
RequestOtpPhone(h) ==
  /\ At(h, "request")
  /\ LET j == job[h]
     IN  /\ j.row = NoOtp => otp[j.phone] = NoOtp
         /\ otp' = [otp EXCEPT ![j.phone] =
              [j.row EXCEPT !.code = TRUE, !.user = None, !.recent = TRUE,
                            !.count = Counted(j.row)]]
         /\ sent' = [sent EXCEPT ![j.phone] = IF @ > MaxRequests THEN @ ELSE @ + 1]
  /\ End(h) /\ SameUsers

CheckVerifyOtp(h, p) ==
  /\ ~Verified(otp[p])
  /\ otp[p].code
  /\ Begin(h, [op |-> "verify", phone |-> p, row |-> otp[p]])
  /\ SameUsers /\ UNCHANGED <<otp, sent>>

\* Again the row that was read, with a token; the code stays.
VerifyOtp(h) ==
  /\ At(h, "verify")
  /\ otp' = [otp EXCEPT ![job[h].phone] = [job[h].row EXCEPT !.token = TRUE]]
  /\ End(h) /\ SameUsers /\ UNCHANGED sent

-----------------------------------------------------------------------------
(* Registration *)

\* verifiedAt and userId of the row, reloaded by its id: deleted or not.
MarkedVerified(rows, p, u) ==
  IF rows[p] = NoOtp THEN rows ELSE [rows EXCEPT ![p].user = u]

CheckRegister(h, u, p) ==
  /\ otp[p].token
  /\ ~Verified(otp[p])
  /\ Begin(h, [op |-> "register", user |-> u, phone |-> p])
  /\ SameUsers /\ UNCHANGED <<otp, sent>>

\* Mutant: the row is not marked as verified, the token is not taken away.
RegisterOnly(h) ==
  /\ At(h, "register")
  /\ job[h].user \notin member
  /\ member' = member \cup {job[h].user}
  /\ phoneOf' = [phoneOf EXCEPT ![job[h].user] = job[h].phone]
  /\ End(h) /\ UNCHANGED <<otp, formerly, sent>>

\* "Check if user already exists"; the row is reloaded but not checked again.
Register(h) ==
  /\ At(h, "register")
  /\ LET u == job[h].user
         p == job[h].phone
     IN  /\ u \notin member
         /\ member' = member \cup {u}
         /\ phoneOf' = [phoneOf EXCEPT ![u] = p]
         /\ otp' = MarkedVerified([otp EXCEPT ![p].token = FALSE], p, u)
  /\ End(h) /\ UNCHANGED <<formerly, sent>>

-----------------------------------------------------------------------------
(* The number of a profile *)

\* A number that is not the profile's own needs a token for it.
CheckUpdateProfile(h, u, p) ==
  /\ u \in member
  /\ p # phoneOf[u]
  /\ otp[p].token
  /\ Verified(otp[p]) => otp[p].user = u
  /\ Begin(h, [op |-> "profile", user |-> u, phone |-> p, current |-> phoneOf[u]])
  /\ SameUsers /\ UNCHANGED <<otp, sent>>

\* The row looked for, by number and user, may be one deleted before: then the
\* one in use stays.
WithoutOldRow(u, p) ==
  IF p = None \/ otp[p].user # u THEN {otp}
  ELSE {[otp EXCEPT ![p] = NoOtp]} \cup IF p \in formerly[u] THEN {otp} ELSE {}

\* One transaction; the token is not taken away.  (A row that was deleted and
\* made anew since the check is taken for the old one.)
UpdateProfile(h) ==
  /\ At(h, "profile")
  /\ LET j == job[h]
     IN  /\ \E rows \in WithoutOldRow(j.user, j.current) :
              otp' = MarkedVerified(rows, j.phone, j.user)
         /\ formerly' = IF j.current # None /\ otp[j.current].user = j.user
                        THEN [formerly EXCEPT ![j.user] = @ \cup {j.current}] ELSE formerly
         /\ phoneOf' = [phoneOf EXCEPT ![j.user] = j.phone]
  /\ sent' = [p \in Phones |-> IF otp'[p] = NoOtp THEN 0 ELSE sent[p]]
  /\ End(h) /\ UNCHANGED member

\* Whoever reads a profile and saves it as it was saves the number with it: a
\* profile that changes otherwise, GET me and login (IPs), rewards (points),
\* update-user.
CheckSaveProfile(h, u) ==
  /\ u \in member
  /\ Begin(h, [op |-> "save", user |-> u, current |-> phoneOf[u]])
  /\ SameUsers /\ UNCHANGED <<otp, sent>>

SaveProfile(h) ==
  /\ At(h, "save")
  /\ phoneOf' = [phoneOf EXCEPT ![job[h].user] = job[h].current]
  /\ End(h) /\ UNCHANGED <<otp, member, formerly, sent>>

\* An empty number is no change of number: no token, and the row stays.
ClearPhone(u) ==
  /\ u \in member
  /\ phoneOf' = [phoneOf EXCEPT ![u] = None]
  /\ AtOnce /\ UNCHANGED <<otp, member, formerly, sent>>

-----------------------------------------------------------------------------

\* The code, the token and the throttle window end by themselves.
Expire(p) ==
  /\ \/ otp[p].code /\ otp' = [otp EXCEPT ![p].code = FALSE] /\ UNCHANGED sent
     \/ otp[p].token /\ otp' = [otp EXCEPT ![p].token = FALSE] /\ UNCHANGED sent
     \/ otp[p].recent /\ otp' = [otp EXCEPT ![p].recent = FALSE]
                      /\ sent' = [sent EXCEPT ![p] = 0]
  /\ SameUsers /\ UNCHANGED <<job, calm>>

Fail(h) == ~Idle(h) /\ End(h) /\ SameUsers /\ UNCHANGED <<otp, sent>>

AuthController(h) ==
  \E p \in Phones :
    \/ CheckRequestOtp(h, p) \/ CheckVerifyOtp(h, p)
    \/ \E u \in Users : CheckRegister(h, u, p)

UserController(h) ==
  \E u \in Users :
    \/ ClearPhone(u) \/ CheckSaveProfile(h, u)
    \/ \E p \in Phones : CheckUpdateProfile(h, u, p)

Finish(h) ==
  \/ RequestOtpPhone(h) \/ VerifyOtp(h) \/ Register(h)
  \/ UpdateProfile(h) \/ SaveProfile(h)
  \/ Fail(h)

Next ==
  \/ \E h \in Handlers : AuthController(h) \/ UserController(h) \/ Finish(h)
  \/ \E p \in Phones : Expire(p)

Spec == Init /\ [][Next]_vars

-----------------------------------------------------------------------------
(* Properties *)

\* Every variable has its type.
TypeOK ==
  /\ otp \in [Phones -> OtpRequest \cup {NoOtp}]
  /\ phoneOf \in [Users -> Phones \cup {None}]
  /\ member \subseteq Users
  /\ formerly \in [Users -> SUBSET Phones]
  /\ sent \in [Phones -> Nat]
  /\ calm \in BOOLEAN

\* As long as use cases do not overlap, two users never have one number, the
\* row of a number is verified for the user who has it, and no more codes are
\* sent within the window of a row than the limit (a number that is given up
\* starts with a new row, and a new count).  A token that registers
\* twice at once, a request for a code that saves a stale row, or a profile that
\* is saved with the number it had breaks it.
CalmPhones ==
  calm =>
    /\ \A u \in Users : phoneOf[u] # None => otp[phoneOf[u]].user = u
    /\ \A p \in Phones : sent[p] <= MaxRequests

-----------------------------------------------------------------------------
(* What makes it inductive; the proofs are in AccountsProofs.               *)

\* A use case in progress names users and numbers, and a row as it can be read.
JobIsReal(j) ==
  /\ j.op \in {"request", "verify", "register", "profile"} => j.phone \in Phones
  /\ j.op = "request" => j.row \in OtpRequest \cup {NoOtp} /\ BelowLimit(j.row)
  /\ j.op = "verify" => j.row \in OtpRequest
  /\ j.op \in {"register", "profile", "save"} => j.user \in Users
  /\ j.op \in {"profile", "save"} => j.current \in Phones \cup {None}

RowsAreTyped ==
  /\ otp \in [Phones -> OtpRequest \cup {NoOtp}]
  /\ phoneOf \in [Users -> Phones \cup {None}]
  /\ sent \in [Phones -> Nat]

JobsAreReal == DOMAIN job = Handlers /\ \A h \in Handlers : JobIsReal(job[h])

\* Codes sent in the window are counted in the row.
SentIn(row) == IF row.recent THEN row.count ELSE 0

SentIsCounted == \A p \in Phones : sent[p] <= SentIn(otp[p])

\* While use cases do not overlap, what one has checked is still so, but for what
\* has expired meanwhile.
CheckStands(j) ==
  /\ j.op \in {"request", "verify"} =>
       /\ ~Verified(j.row) /\ ~Verified(otp[j.phone])
       /\ j.row = NoOtp <=> otp[j.phone] = NoOtp
       /\ sent[j.phone] <= SentIn(j.row)
  /\ j.op = "register" => otp[j.phone] # NoOtp /\ ~Verified(otp[j.phone])
  /\ j.op = "profile" =>
       /\ j.current = phoneOf[j.user] /\ j.phone # j.current
       /\ otp[j.phone] # NoOtp /\ otp[j.phone].user \in {None, j.user}
  /\ j.op = "save" => j.current = phoneOf[j.user]

ChecksStand ==
  calm => /\ \A g, h \in Handlers : ~Idle(g) /\ ~Idle(h) => g = h
          /\ \A h \in Handlers : CheckStands(job[h])

NumbersAreTheirs == \A u \in Users : phoneOf[u] # None => otp[phoneOf[u]].user = u
=============================================================================
