------------------------------ MODULE BlockedIps ------------------------------
(***************************************************************************)
(* Which addresses are kept out, for everybody or for one user, and which   *)
(* addresses a user came from.                                              *)
(*                                                                          *)
(* The tables are PostgreSQL's; requests are judged by copies in Redis,     *)
(* which an admin's change rebuilds in the background with one command      *)
(* after the other, and which expire after half an hour.  What users came   *)
(* from goes the other way: collected in Redis, copied to the table by a    *)
(* job of every five seconds.                                               *)
(***************************************************************************)
EXTENDS UseCases

CONSTANTS
  Users,
  Everybody,   \* the scope of the global list
  Ips

\* Assumed of the constants: the global list is no user's.
EverybodyIsNoUser == Everybody \notin Users

Scopes == Users \cup {Everybody}

VARIABLES
  seen,      \* user_ips: the addresses a user has rows for
  blocked,   \* blocked_ips, and user_ips.isBlocked
  cache,     \* blocked:ips:global, blocked:ips:user:<id>; an empty set is no key
  expires,   \* whether the key has a time to live
  tracked,   \* user:ips:<id>
  broken     \* history: a refresh of this scope was cut short

vars == <<seen, blocked, cache, expires, tracked, broken, job, calm>>

Init ==
  /\ seen = [u \in Users |-> {}]
  /\ blocked = [c \in Scopes |-> {}]
  /\ cache = [c \in Scopes |-> {}]
  /\ expires = [c \in Scopes |-> FALSE]
  /\ tracked = [u \in Users |-> {}]
  /\ broken = [c \in Scopes |-> FALSE]
  /\ NoJobs

SameTables == UNCHANGED <<seen, blocked>>
SameCache == UNCHANGED <<cache, expires>>

-----------------------------------------------------------------------------
(* Requests *)

\* "Cache miss - assume not blocked".
CheckBlocked(c, ip) == ip \in cache[c]

\* The middleware asks for the global list, the interceptor for the user's.
Request(u, ip) ==
  /\ ~CheckBlocked(Everybody, ip)
  /\ ~CheckBlocked(u, ip)
  /\ tracked' = [tracked EXCEPT ![u] = @ \cup {ip}]
  /\ SameTables /\ SameCache /\ UNCHANGED <<broken, job, calm>>

SyncUserIps ==
  /\ seen' = [u \in Users |-> seen[u] \cup tracked[u]]
  /\ SameCache /\ UNCHANGED <<blocked, tracked, broken, job, calm>>

-----------------------------------------------------------------------------
(* The admin, and the refresh that follows *)

Refresh(h, c) == Begin(h, [op |-> "read", scope |-> c])

\* Mutant: any address may be blocked for a user.
MayBlockAny(c, ip) == c \in Scopes /\ ip \in Ips

\* Only an address the user has come from has a row to be blocked in.
MayBlock(c, ip) == c # Everybody => ip \in seen[c]

BlockIp(h, c, ip) ==
  /\ MayBlock(c, ip)
  /\ blocked' = [blocked EXCEPT ![c] = @ \cup {ip}]
  /\ Refresh(h, c) /\ SameCache /\ UNCHANGED <<seen, tracked, broken>>

UnblockIp(h, c, ip) ==
  /\ MayBlock(c, ip)
  /\ blocked' = [blocked EXCEPT ![c] = @ \ {ip}]
  /\ Refresh(h, c) /\ SameCache /\ UNCHANGED <<seen, tracked, broken>>

TriggerIpSync(h, u) ==
  /\ seen' = [seen EXCEPT ![u] = @ \cup tracked[u]]
  /\ Refresh(h, u) /\ SameCache /\ UNCHANGED <<blocked, tracked, broken>>

FindBlockedIps(h) ==
  /\ At(h, "read")
  /\ Continue(h, [op |-> "del", scope |-> job[h].scope, ips |-> blocked[job[h].scope]])
  /\ SameTables /\ SameCache /\ UNCHANGED <<tracked, broken>>

\* Mutant: the set that is there is added to.
KeepOldSet(h) ==
  /\ At(h, "del")
  /\ IF job[h].ips = {} THEN End(h) ELSE Continue(h, [job[h] EXCEPT !.op = "add"])
  /\ SameTables /\ SameCache /\ UNCHANGED <<tracked, broken>>

\* "Clear existing set".
ClearSet(h) ==
  /\ At(h, "del")
  /\ cache' = [cache EXCEPT ![job[h].scope] = {}]
  /\ expires' = [expires EXCEPT ![job[h].scope] = FALSE]
  /\ IF job[h].ips = {} THEN End(h) ELSE Continue(h, [job[h] EXCEPT !.op = "add"])
  /\ SameTables /\ UNCHANGED <<tracked, broken>>

\* sAdd makes the key without a time to live, or adds to one that is there.
AddIps(h) ==
  /\ At(h, "add")
  /\ cache' = [cache EXCEPT ![job[h].scope] = @ \cup job[h].ips]
  /\ Continue(h, [job[h] EXCEPT !.op = "expire"])
  /\ SameTables /\ UNCHANGED <<expires, tracked, broken>>

SetExpiry(h) ==
  /\ At(h, "expire")
  /\ expires' = [expires EXCEPT ![job[h].scope] = cache[job[h].scope] # {}]
  /\ End(h)
  /\ SameTables /\ UNCHANGED <<cache, tracked, broken>>

\* An error is logged, or the process ends.
Fail(h) ==
  /\ ~Idle(h)
  /\ broken' = [broken EXCEPT ![job[h].scope] = TRUE]
  /\ End(h) /\ SameTables /\ SameCache /\ UNCHANGED tracked

\* Redis drops a key.
Expire ==
  \/ /\ \E c \in Scopes :
          /\ expires[c]
          /\ cache' = [cache EXCEPT ![c] = {}]
          /\ expires' = [expires EXCEPT ![c] = FALSE]
     /\ SameTables /\ UNCHANGED <<tracked, broken, job, calm>>
  \/ /\ \E u \in Users : tracked[u] # {} /\ tracked' = [tracked EXCEPT ![u] = {}]
     /\ SameTables /\ SameCache /\ UNCHANGED <<broken, job, calm>>

UserController(h) ==
  \/ \E c \in Scopes, ip \in Ips : BlockIp(h, c, ip) \/ UnblockIp(h, c, ip)
  \/ \E u \in Users : TriggerIpSync(h, u)

CacheIps(h) ==
  FindBlockedIps(h) \/ ClearSet(h) \/ AddIps(h) \/ SetExpiry(h) \/ Fail(h)

Next ==
  \/ \E u \in Users, ip \in Ips : Request(u, ip)
  \/ SyncUserIps
  \/ \E h \in Handlers : UserController(h) \/ CacheIps(h)
  \/ Expire

Spec == Init /\ [][Next]_vars

-----------------------------------------------------------------------------
(* Properties *)

\* Every variable has its type.
TypeOK ==
  /\ seen \in [Users -> SUBSET Ips]
  /\ blocked \in [Scopes -> SUBSET Ips]
  /\ \A u \in Users : blocked[u] \subseteq seen[u]
  /\ cache \in [Scopes -> SUBSET Ips]
  /\ expires \in [Scopes -> BOOLEAN]
  /\ tracked \in [Users -> SUBSET Ips]
  /\ broken \in [Scopes -> BOOLEAN]
  /\ calm \in BOOLEAN

\* Unless a refresh is cut short: a copy always expires, or a refresh is about to
\* say that it does, whatever overlaps; and as long as admins do not overlap, the
\* copy is missing or is the list, whenever no refresh is under way.
CopiesFollow ==
  \A c \in Scopes :
    ~broken[c] =>
      /\ cache[c] # {} /\ ~expires[c] =>
           \E h \in Busy({"expire"}) : job[h].scope = c
      /\ calm /\ (\A h \in Handlers : Idle(h)) => cache[c] \in {{}, blocked[c]}

-----------------------------------------------------------------------------
(* What makes it inductive; the proofs are in ContentProofs.                *)

\* A refresh in progress is of a list there is.
RefreshesAreReal ==
  /\ DOMAIN job = Handlers
  /\ \A h \in Handlers :
       \/ Idle(h)
       \/ /\ job[h].op \in {"read", "del", "add", "expire"}
          /\ job[h].scope \in Scopes
          /\ job[h].op \in {"del", "add"} => job[h].ips \subseteq Ips

\* A copy without a time to live is about to get one.
CopiesExpire ==
  \A c \in Scopes :
    ~broken[c] /\ cache[c] # {} /\ ~expires[c] => \E h \in Busy({"expire"}) : job[h].scope = c

\* While admins do not overlap, a refresh carries the list as it is and puts it
\* where nothing is, and all other copies are missing or the list.
CopiesStand ==
  calm =>
    /\ \A g, h \in Handlers : ~Idle(g) /\ ~Idle(h) => g = h
    /\ \A h \in Handlers :
         /\ job[h].op \in {"del", "add"} => job[h].ips = blocked[job[h].scope]
         /\ job[h].op = "add" => cache[job[h].scope] = {}
         /\ job[h].op = "expire" => cache[job[h].scope] \in {{}, blocked[job[h].scope]}
    /\ \A c \in Scopes :
         ~broken[c] /\ (\A h \in Handlers : ~Idle(h) => job[h].scope # c)
           => cache[c] \in {{}, blocked[c]}
=============================================================================
