------------------------------- MODULE Sessions -------------------------------
(***************************************************************************)
(* Sessions and passwords, of users and of administrators: the two are      *)
(* written alike.  A session is a row that a pair of JWTs names; a refresh  *)
(* revokes the row and makes another.  A forgotten password is changed with *)
(* a code sent by mail and then a token, both kept in Redis for 3 minutes.  *)
(*                                                                          *)
(* An account begins active or inactive, an administrator switches it on    *)
(* and off or deletes it, which ends its sessions.                          *)
(*                                                                          *)
(* All these use cases check what they read before a transaction and write  *)
(* in it; most save the whole account as they read it, also those that      *)
(* change nothing of it that this module looks at: every writer of users,   *)
(* admins, user_tokens and admin_tokens is here.                            *)
(***************************************************************************)
EXTENDS UseCases

CONSTANTS
  Users,
  Admins,
  Tokens,        \* ids of user_tokens and admin_tokens, in the order they are made
  Grants,        \* ids of the tokens to reset a password
  MaxPasswords   \* bound of the model: changes of a password

\* Assumed of the constants.
TokensAreOrdered == Tokens \subseteq Nat

MaxPasswordsIsNumber == MaxPasswords \in Nat

Accounts == Users \cup Admins

NoneIsNoId == None \notin Tokens \cup Accounts

VARIABLES
  account,   \* users, admins: passwordHash, whether lastLoginAt is of today, and
             \* state of isActive and deletedAt
  token,     \* user_tokens, admin_tokens
  code,      \* otp:forgot-password:<id> in Redis: there is one
  grant,     \* token:forgot-password:<token> in Redis: whose
  rewarded,  \* history: first_login_daily rewards of today
  resetAt    \* history: the password set by the last reset

vars == <<account, token, code, grant, rewarded, resetAt, job, calm>>

NoToken == [of |-> None, live |-> FALSE, from |-> None, password |-> 0]

Account == [password: 0..MaxPasswords, today: BOOLEAN,
            state: {"none", "active", "inactive", "deleted"}]

UserToken == [of: Accounts, live: BOOLEAN, from: Tokens \cup {None},
              password: 0..MaxPasswords]

Init ==
  /\ account = [a \in Accounts |-> [password |-> 0, today |-> FALSE, state |-> "none"]]
  /\ token = [t \in Tokens |-> NoToken]
  /\ code = [a \in Accounts |-> FALSE]
  /\ grant = [g \in Grants |-> None]
  /\ rewarded = [u \in Users |-> 0]
  /\ resetAt = [a \in Accounts |-> 0]
  /\ NoJobs

SameRedis == UNCHANGED <<code, grant>>
SameHistory == UNCHANGED <<rewarded, resetAt>>
SameAccounts == UNCHANGED <<account, token>>

\* What findById and findByEmail find, and isActive of it.
Present(a) == account[a].state \in {"active", "inactive"}

Active(a) == account[a].state = "active"

\* JwtAuthGuard: not revoked and not expired; nothing is asked of the account.
Valid(t, a) == token[t].of = a /\ token[t].live

Fresh(t) == token[t] = NoToken /\ \A s \in Tokens : s < t => token[s] # NoToken

Issued(t, a, from) ==
  [of |-> a, live |-> TRUE, from |-> from, password |-> account[a].password]

TokensOf(a) == {t \in Tokens : token[t].of = a}

Revoked(ts) == [t \in Tokens |-> [token[t] EXCEPT !.live = @ /\ t \notin ts]]

-----------------------------------------------------------------------------
(* Login, refresh, logout *)

\* The password is compared with the one that is read here.
CheckLogin(h, a) ==
  /\ Active(a)
  /\ \E point \in BOOLEAN :
       Begin(h, [op |-> "login", who |-> a, seen |-> account[a],
                 reward |-> point /\ a \in Users /\ ~account[a].today])
  /\ SameAccounts /\ SameRedis /\ SameHistory

\* The account is saved as it was read, with lastLoginAt set.
StartSession(h) ==
  /\ At(h, "login")
  /\ LET j == job[h]
     IN  /\ account' = [account EXCEPT ![j.who] = [j.seen EXCEPT !.today = TRUE]]
         /\ \E t \in Tokens : /\ Fresh(t)
                              /\ token' = [token EXCEPT ![t] = Issued(t, j.who, None)]
  /\ End(h) /\ SameRedis /\ UNCHANGED resetAt

Login(h) ==
  /\ StartSession(h)
  /\ job[h].who \in Users
  /\ rewarded' = IF job[h].reward THEN [rewarded EXCEPT ![job[h].who] = @ + 1]
                 ELSE rewarded

AdminLogin(h) == StartSession(h) /\ job[h].who \in Admins /\ UNCHANGED rewarded

CheckRefresh(h, a, t) ==
  /\ Valid(t, a)
  /\ Active(a)
  /\ Begin(h, [op |-> "refresh", who |-> a, token |-> t])
  /\ SameAccounts /\ SameRedis /\ SameHistory

\* "Revoke old token" does not ask whether it still is one.
Renew(h) ==
  /\ At(h, "refresh")
  /\ \E t \in Tokens :
       /\ Fresh(t)
       /\ token' = [Revoked({job[h].token}) EXCEPT ![t] =
                      Issued(t, job[h].who, job[h].token)]
  /\ End(h) /\ SameRedis /\ SameHistory /\ UNCHANGED account

RefreshToken(h) == Renew(h) /\ job[h].who \in Users

AdminRefreshToken(h) == Renew(h) /\ job[h].who \in Admins

Logout(a, t) ==
  /\ Valid(t, a)
  /\ token' = Revoked({t})
  /\ AtOnce /\ SameRedis /\ SameHistory /\ UNCHANGED account

-----------------------------------------------------------------------------
(* Passwords *)

\* Users and administrators: the others' sessions end if logoutAll is asked for.
CheckChangePassword(h, a, t) ==
  /\ Valid(t, a)
  /\ Present(a)
  /\ account[a].password < MaxPasswords
  /\ \E logoutAll \in BOOLEAN :
       Begin(h, [op |-> "change", who |-> a, seen |-> account[a],
                 tokens |-> IF logoutAll THEN TokensOf(a) \ {t} ELSE {}])
  /\ SameAccounts /\ SameRedis /\ SameHistory

\* The password after the one that was read.
NewPassword(h) ==
  account' = [account EXCEPT ![job[h].who] = [job[h].seen EXCEPT !.password = @ + 1]]

SetPassword(h) ==
  /\ At(h, "change")
  /\ NewPassword(h)
  /\ token' = Revoked(job[h].tokens)
  /\ End(h) /\ SameRedis /\ SameHistory

ChangePassword(h) == SetPassword(h) /\ job[h].who \in Users

AdminChangePassword(h) == SetPassword(h) /\ job[h].who \in Admins

\* The key is looked up, then set: two requests at once send two codes.
CheckRequestOtp(h, a) ==
  /\ Active(a)
  /\ ~code[a]
  /\ Begin(h, [op |-> "otp", who |-> a])
  /\ SameAccounts /\ SameRedis /\ SameHistory

StoreOtp(h) ==
  /\ At(h, "otp")
  /\ code' = [code EXCEPT ![job[h].who] = TRUE]
  /\ End(h) /\ SameAccounts /\ SameHistory /\ UNCHANGED grant

RequestOtp(h) == StoreOtp(h) /\ job[h].who \in Users

AdminRequestOtp(h) == StoreOtp(h) /\ job[h].who \in Admins

CheckVerifyOtp(h, a) ==
  /\ Active(a)
  /\ code[a]
  /\ Begin(h, [op |-> "verify", who |-> a])
  /\ SameAccounts /\ SameRedis /\ SameHistory

\* The token is set, then the code is deleted: the second may be missing.
Grant(h) ==
  /\ At(h, "verify")
  /\ \E g \in Grants : grant[g] = None /\ grant' = [grant EXCEPT ![g] = job[h].who]
  /\ \E deleted \in BOOLEAN :
       code' = IF deleted THEN [code EXCEPT ![job[h].who] = FALSE] ELSE code
  /\ End(h) /\ SameAccounts /\ SameHistory

VerifyOtpForgotPassword(h) == Grant(h) /\ job[h].who \in Users

AdminVerifyOtpForgotPassword(h) == Grant(h) /\ job[h].who \in Admins

\* The account and all its tokens are read before the transaction.
CheckResetPassword(h, g) ==
  /\ grant[g] # None
  /\ Active(grant[g])
  /\ account[grant[g]].password < MaxPasswords
  /\ Begin(h, [op |-> "reset", who |-> grant[g], grant |-> g, seen |-> account[grant[g]],
               tokens |-> TokensOf(grant[g])])
  /\ SameAccounts /\ SameRedis /\ SameHistory

\* Mutant: a reset leaves the sessions as they are.
NewPasswordOnly(h) ==
  /\ At(h, "reset")
  /\ NewPassword(h)
  /\ resetAt' = [resetAt EXCEPT ![job[h].who] = job[h].seen.password + 1]
  /\ Continue(h, [op |-> "used", who |-> job[h].who, grant |-> job[h].grant])
  /\ SameRedis /\ UNCHANGED <<token, rewarded>>

\* "Revoke all user tokens", those that were read.
Reset(h) ==
  /\ At(h, "reset")
  /\ NewPassword(h)
  /\ token' = Revoked(job[h].tokens)
  /\ resetAt' = [resetAt EXCEPT ![job[h].who] = job[h].seen.password + 1]
  /\ Continue(h, [op |-> "used", who |-> job[h].who, grant |-> job[h].grant])
  /\ SameRedis /\ UNCHANGED rewarded

ResetPassword(h) == Reset(h) /\ job[h].who \in Users

AdminResetPassword(h) == Reset(h) /\ job[h].who \in Admins

\* "Delete token from Redis after successful password reset".
UseUpGrant(h) ==
  /\ At(h, "used")
  /\ grant' = [grant EXCEPT ![job[h].grant] = None]
  /\ End(h) /\ SameAccounts /\ SameHistory /\ UNCHANGED code

-----------------------------------------------------------------------------
(* Accounts *)

NewAccount(a, state) ==
  /\ account[a].state = "none"
  /\ account' = [account EXCEPT ![a].state = state]
  /\ AtOnce /\ SameRedis /\ SameHistory /\ UNCHANGED token

Register(u) == NewAccount(u, "active")

\* isActive is a field of the request.
CreateUser(u) == \E state \in {"active", "inactive"} : NewAccount(u, state)

CreateAdmin(a) == NewAccount(a, "active")

ReadAccount(h, a) ==
  /\ Present(a)
  /\ Begin(h, [op |-> "profile", who |-> a, seen |-> account[a]])
  /\ SameAccounts /\ SameRedis /\ SameHistory

\* update-profile, and GET me, which saves the IP.
CheckUpdateProfile(h, a, t) == Valid(t, a) /\ ReadAccount(h, a)

\* By an administrator, and the user need not be logged in.
CheckRemoveBadge(h, u) == ReadAccount(h, u)

\* Names, IPs or points change, and the account is saved with them as it was
\* read.
SaveProfile(h) ==
  /\ At(h, "profile")
  /\ account' = [account EXCEPT ![job[h].who] = job[h].seen]
  /\ End(h) /\ SameRedis /\ SameHistory /\ UNCHANGED token

UpdateProfile(h) == SaveProfile(h) /\ job[h].who \in Users

AdminUpdateProfile(h) == SaveProfile(h) /\ job[h].who \in Admins

\* By an administrator: isActive is set or left as it was read.
CheckUpdateUser(h, u) ==
  /\ Present(u)
  /\ \E state \in {"active", "inactive"} :
       Begin(h, [op |-> "update", who |-> u, seen |-> account[u], state |-> state])
  /\ SameAccounts /\ SameRedis /\ SameHistory

\* "Revoke all tokens if user is being deactivated": those that are live now, if
\* the user was active when read.
UpdateUser(h) ==
  /\ At(h, "update")
  /\ LET j == job[h]
     IN  /\ account' = [account EXCEPT ![j.who] = [j.seen EXCEPT !.state = j.state]]
         /\ token' = IF j.seen.state = "active" /\ j.state = "inactive"
                     THEN Revoked(TokensOf(j.who)) ELSE token
  /\ End(h) /\ SameRedis /\ SameHistory

CheckDeleteUser(h, u) ==
  /\ Present(u)
  /\ Begin(h, [op |-> "delete", who |-> u, seen |-> account[u]])
  /\ SameAccounts /\ SameRedis /\ SameHistory

DeleteUser(h) ==
  /\ At(h, "delete")
  /\ account' = [account EXCEPT ![job[h].who] = [job[h].seen EXCEPT !.state = "deleted"]]
  /\ token' = Revoked(TokensOf(job[h].who))
  /\ End(h) /\ SameRedis /\ SameHistory

-----------------------------------------------------------------------------

\* What Redis keeps ends by itself.
Expire ==
  /\ \/ \E a \in Accounts : code[a] /\ code' = [code EXCEPT ![a] = FALSE] /\ UNCHANGED grant
     \/ \E g \in Grants : /\ grant[g] # None
                          /\ grant' = [grant EXCEPT ![g] = None]
                          /\ UNCHANGED code
  /\ SameAccounts /\ SameHistory /\ UNCHANGED <<job, calm>>

\* Midnight in Korea: what was read as a login of today is one of yesterday.
NewDay ==
  /\ account' = [a \in Accounts |-> [account[a] EXCEPT !.today = FALSE]]
  /\ rewarded' = [u \in Users |-> 0]
  /\ job' = [h \in Handlers |->
       IF "seen" \in DOMAIN job[h] THEN [job[h] EXCEPT !.seen.today = FALSE] ELSE job[h]]
  /\ SameRedis /\ UNCHANGED <<token, resetAt, calm>>

Fail(h) == ~Idle(h) /\ End(h) /\ SameAccounts /\ SameRedis /\ SameHistory

\* The routes that begin these use cases.
Routes(h, as) ==
  \E a \in as :
    \/ CheckLogin(h, a) \/ CheckRequestOtp(h, a) \/ CheckVerifyOtp(h, a)
    \/ \E t \in Tokens :
         \/ CheckRefresh(h, a, t) \/ Logout(a, t)
         \/ CheckChangePassword(h, a, t) \/ CheckUpdateProfile(h, a, t)
    \/ \E g \in Grants : grant[g] = a /\ CheckResetPassword(h, g)

AuthController(h) == Routes(h, Users) \/ \E u \in Users : Register(u)

AdminController(h) == Routes(h, Admins) \/ \E a \in Admins : CreateAdmin(a)

AdminUserController(h) ==
  \E u \in Users :
    CreateUser(u) \/ CheckUpdateUser(h, u) \/ CheckDeleteUser(h, u) \/ CheckRemoveBadge(h, u)

Finish(h) ==
  \/ Login(h) \/ RefreshToken(h) \/ ChangePassword(h)
  \/ RequestOtp(h) \/ VerifyOtpForgotPassword(h) \/ ResetPassword(h)
  \/ AdminLogin(h) \/ AdminRefreshToken(h) \/ AdminChangePassword(h)
  \/ AdminRequestOtp(h) \/ AdminVerifyOtpForgotPassword(h) \/ AdminResetPassword(h)
  \/ UpdateProfile(h) \/ AdminUpdateProfile(h) \/ UpdateUser(h) \/ DeleteUser(h)
  \/ UseUpGrant(h) \/ Fail(h)

Next ==
  \/ \E h \in Handlers :
       AuthController(h) \/ AdminController(h) \/ AdminUserController(h) \/ Finish(h)
  \/ Expire
  \/ NewDay

Spec == Init /\ [][Next]_vars

-----------------------------------------------------------------------------
(* Properties *)

\* Every variable has its type.
TypeOK ==
  /\ account \in [Accounts -> Account]
  /\ token \in [Tokens -> UserToken \cup {NoToken}]
  /\ code \in [Accounts -> BOOLEAN]
  /\ grant \in [Grants -> Accounts \cup {None}]
  /\ rewarded \in [Users -> Nat]
  /\ resetAt \in [Accounts -> 0..MaxPasswords]
  /\ calm \in BOOLEAN

\* The parts of the type that do not depend on how many requests there are, and
\* the jobs: what a refresh has found stays a token.
RowsAreTyped ==
  /\ account \in [Accounts -> Account]
  /\ token \in [Tokens -> UserToken \cup {NoToken}]
  /\ grant \in [Grants -> Accounts \cup {None}]
  /\ rewarded \in [Users -> Nat]
  /\ resetAt \in [Accounts -> 0..MaxPasswords]
  /\ calm \in BOOLEAN

Jobs ==
  [op: {"login"}, who: Accounts, seen: Account, reward: BOOLEAN]
    \cup [op: {"refresh"}, who: Accounts, token: Tokens]
    \cup [op: {"change"}, who: Accounts, seen: Account, tokens: SUBSET Tokens]
    \cup [op: {"otp", "verify"}, who: Accounts]
    \cup [op: {"reset"}, who: Accounts, grant: Grants, seen: Account, tokens: SUBSET Tokens]
    \cup [op: {"used"}, who: Accounts, grant: Grants]
    \cup [op: {"profile", "delete"}, who: Accounts, seen: Account]
    \cup [op: {"update"}, who: Accounts, seen: Account, state: {"active", "inactive"}]

JobIsReal(j) ==
  /\ j \in Jobs
  /\ j.op = "login" => j.seen.state = "active" /\ (j.reward => j.who \in Users)
  /\ j.op = "refresh" => token[j.token] # NoToken
  /\ j.op \in {"change", "reset"} => j.seen.password < MaxPasswords

JobsAreReal ==
  DOMAIN job = Handlers /\ \A h \in Handlers : Idle(h) \/ JobIsReal(job[h])

\* A token is renewed by a later one.
FromIsToken ==
  \A s, t \in Tokens : token[s].from = t => token[t] # NoToken

\* Alone, a request still finds what it has read.
ReadStands(j) ==
  /\ j.op \in {"login", "change", "reset", "profile", "update", "delete"} =>
       j.seen = account[j.who]
  /\ j.op = "login" /\ j.reward => rewarded[j.who] = 0
  /\ j.op = "refresh" => token[j.token].live /\ Active(j.who)
  /\ j.op = "reset" => TokensOf(j.who) \subseteq j.tokens

ReadsStand ==
  calm =>
    /\ \A g, h \in Handlers : Idle(g) \/ Idle(h) \/ g = h
    /\ \A h \in Handlers : ReadStands(job[h])
    /\ \A a \in Accounts : account[a].password >= resetAt[a]
    /\ \A u \in Users : rewarded[u] = 0 \/ account[u].today

\* As long as use cases do not overlap: a refresh token is used once and is dead
\* then; no session is older than the last reset of its account's password,
\* directly or through refreshes, and none is of an account that is inactive or
\* deleted, whatever order it was switched off and on, logged in to and saved by
\* other use cases; and the first login of a day is rewarded once.  Each is a
\* check before a transaction, and two refreshes, a refresh and a reset or a
\* deactivation, two logins, or a profile saved beside a reset, which puts the
\* old password back, break it.
CalmSessions ==
  calm =>
    /\ \A t \in Tokens : token[t].live => \A s \in Tokens : token[s].from # t
    /\ \A s, t \in Tokens : token[s].from # None /\ token[s].from = token[t].from => s = t
    /\ \A t \in Tokens : token[t].live =>
         token[t].password >= resetAt[token[t].of] /\ Active(token[t].of)
    /\ \A u \in Users : rewarded[u] <= 1
=============================================================================
