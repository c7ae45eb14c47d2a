----------------------------- MODULE AuthService -----------------------------
(***************************************************************************)
(* src/src/auth: login, token rotation, session validation and logout.     *)
(*                                                                         *)
(* Every handler is an async function and the backend runs one process per *)
(* core (ecosystem.config.js), so between two awaits any other request may *)
(* run.  A request in flight is a record req[r]; its field pc names the    *)
(* await it is at, and one action performs that database or cache call and *)
(* the code up to the next one.  Each statement is its own transaction:    *)
(* the service opens none.                                                 *)
(*                                                                         *)
(* Abstracted: a user is one (email, googleId) pair, the profile's name    *)
(* and picture are dropped, a refresh token is an identifier together with *)
(* the session in its payload, and its SHA-256 hash is the identifier.     *)
(***************************************************************************)
EXTENDS Naturals, FiniteSets

CONSTANTS
  Users,          \* people who may sign in
  Sids,           \* session identifiers (bound: sessions ever created)
  Tokens,         \* refresh tokens (bound: tokens ever signed)
  Reqs,           \* requests in flight at one time
  None,           \* null
  MaxDevices,     \* jwt.maxDevicesPerUser; 0 means no limit
  DevMode,        \* AUTH_DEV_MODE: the dev signup and login routes exist
  CacheAttached,  \* setCacheService() was called
  CacheMayFail,   \* a cache call may fail; the service swallows the error
  RequestsMayDie  \* a process may stop, or the database fail, at any await

ASSUME NoneIsFresh == None \notin Users \cup Sids \cup Tokens
ASSUME Limits == MaxDevices \in Nat
ASSUME ReqsFinite == IsFiniteSet(Reqs)
ASSUME Switches == {DevMode, CacheAttached, CacheMayFail, RequestsMayDie} \subseteq BOOLEAN

VARIABLES
  \* MySQL
  account,  \* account[u]: how the user row was made, "absent" if there is none
  deleted,  \* users whose row has deletedAt set (UserService writes it)
  owner,    \* owner[s]: userId of the session row, None if there is no row
  valid,    \* sessions with isValid = true
  hash,     \* hash[s]: the refreshToken column, None for the empty string
  expired,  \* sessions whose expiresAt has passed
  \* tokens
  issuedFor,  \* issuedFor[t]: sessionId in the payload of t, None if unsigned
  held,       \* tokens some client has received
  \* Redis
  marked,  \* session_invalid:{sid} keys
  info,    \* user_info:{uid} keys
  \* requests
  req

db == <<account, deleted, owner, valid, hash, expired>>
tokens == <<issuedFor, held>>
cache == <<marked, info>>
vars == <<db, tokens, cache, req>>

LoginKinds == {"google", "signup", "devLogin"}
LogoutKinds == {"logout", "logoutAll"}
Kinds == LoginKinds \cup LogoutKinds \cup {"refresh"}

Awaits == {"findByEmail", "createUser", "findActive", "invalidateSeen",
           "createSession", "storeHash", "invalidateOwned", "createHashed",
           "cacheInfo", "respond", "rotate", "expireRow", "findAll",
           "invalidateAll", "mark", "checkMark", "readInfo", "readRow",
           "cacheValidated", "invalidateOne", "clearInfo"}

Idle == [pc |-> "idle", kind |-> "none", user |-> None, sid |-> None,
         tok |-> None, ids |-> {}, todo |-> {}]

Request == [pc : Awaits \cup {"idle"}, kind : Kinds \cup {"none"},
            user : Users \cup {None}, sid : Sids \cup {None},
            tok : Tokens \cup {None}, ids : SUBSET Sids, todo : SUBSET Sids]

-----------------------------------------------------------------------------
\* Faulty variant: the where clause forgets the user.
ActiveOfAnyone(u) == valid
\* findMany({ userId, isValid: true, deletedAt: null }), and the where clause
\* of the updateMany calls.  No code sets deletedAt on a session.
Active(u) == {s \in valid : owner[s] = u}

\* The soft delete middleware hides a deleted user from findUnique.
Findable(u) == account[u] # "absent" /\ u \notin deleted

At(r, l) == req[r].pc = l
Goto(r, l) == req' = [req EXCEPT ![r].pc = l]
Finish(r) == req' = [req EXCEPT ![r] = Idle]

\* Faulty variant: the request does not know its user.
BeginAnonymous(r, k, u, l) ==
  req[r] = Idle /\ req' = [req EXCEPT ![r] = [Idle EXCEPT !.pc = l, !.kind = k]]
Begin(r, k, u, l) ==
  /\ req[r] = Idle
  /\ req' = [req EXCEPT ![r] = [Idle EXCEPT !.pc = l, !.kind = k, !.user = u]]

\* Bound: a request starts only when the identifiers it may need are left, so
\* that running out of them never stops a request half way.
LoginRoom ==
  LET creating == {r \in Reqs : req[r].kind \in LoginKinds /\ req[r].sid = None}
      signing  == {r \in Reqs : \/ req[r].kind \in LoginKinds /\ req[r].tok = None
                                \/ At(r, "rotate")}
  IN /\ Cardinality(creating) < Cardinality({s \in Sids : owner[s] = None})
     /\ Cardinality(signing) < Cardinality({t \in Tokens : issuedFor[t] = None})
RefreshRoom ==
  LET signing == {r \in Reqs : \/ req[r].kind \in LoginKinds /\ req[r].tok = None
                               \/ At(r, "rotate")}
  IN Cardinality(signing) < Cardinality({t \in Tokens : issuedFor[t] = None})

\* A cache write that takes effect, or whose error is caught and logged.
CacheWrites(effect, unchanged) == effect \/ (CacheMayFail /\ unchanged)

\* What follows the cache marking loop, or the invalidation itself when there
\* is nothing to mark or no cache to mark it in.
AfterMarks(k) ==
  CASE k = "google" -> "createSession"
    [] k = "refresh" -> "idle"
    [] OTHER -> IF CacheAttached THEN "clearInfo" ELSE "idle"

\* Faulty variant: the loop is entered with nothing to iterate over.
LeaveEmptyHanded(r, l, S) ==
  req' = [req EXCEPT ![r] = IF l = "idle" THEN Idle ELSE [@ EXCEPT !.pc = l]]
\* Request r leaves for l; "idle" ends it.
Leave(r, l, S) ==
  req' = [req EXCEPT ![r] = IF l = "idle" THEN Idle
                            ELSE [@ EXCEPT !.pc = l, !.todo = S]]

\* Sessions S have just been invalidated: mark them one by one, or go on.
ThenMark(r, S) ==
  IF CacheAttached /\ S # {} THEN Leave(r, "mark", S)
  ELSE Leave(r, AfterMarks(req[r].kind), {})

-----------------------------------------------------------------------------
(* handleGoogleLogin *)

\* Faulty variant: the lookup by googleId sees soft-deleted rows.
GoogleLoginSeesDeleted(r, u) ==
  /\ LoginRoom
  /\ Begin(r, "google", u, IF account[u] = "google" THEN "findActive" ELSE "findByEmail")
  /\ UNCHANGED <<db, tokens, cache>>
\* findUnique({ googleId }); the profile update of a known user changes
\* nothing this module keeps.
GoogleLogin(r, u) ==
  /\ LoginRoom
  /\ Begin(r, "google", u, IF account[u] = "google" /\ u \notin deleted
                           THEN "findActive" ELSE "findByEmail")
  /\ UNCHANGED <<db, tokens, cache>>

\* findUnique({ email }): a row made some other way refuses the login.
FindByEmail(r) ==
  /\ At(r, "findByEmail")
  /\ IF Findable(req[r].user) THEN Finish(r) ELSE Goto(r, "createUser")
  /\ UNCHANGED <<db, tokens, cache>>

\* user.create; the unique columns still see soft-deleted rows, and P2002 is
\* not caught here.
CreateUser(r) ==
  /\ At(r, "createUser")
  /\ \/ /\ account[req[r].user] = "absent"
        /\ account' = [account EXCEPT ![req[r].user] = "google"]
        /\ Goto(r, "findActive")
     \/ /\ account[req[r].user] # "absent"
        /\ Finish(r)
        /\ UNCHANGED account
  /\ UNCHANGED <<deleted, owner, valid, hash, expired, tokens, cache>>

\* Faulty variant: one session too many is let through.
OverLimitOffByOne(n) == MaxDevices > 0 /\ n > MaxDevices
OverLimit(n) == MaxDevices > 0 /\ n >= MaxDevices

\* invalidateExistingSessions: the ids to invalidate are those read here.
FindActive(r) ==
  LET ids == Active(req[r].user)
      over == OverLimit(Cardinality(ids))
  IN /\ At(r, "findActive")
     /\ req' = [req EXCEPT ![r].pc = IF over THEN "invalidateSeen" ELSE "createSession",
                           ![r].ids = IF over THEN ids ELSE {}]
     /\ UNCHANGED <<db, tokens, cache>>

\* Faulty variant: the sessions are marked in the cache but not in the database.
InvalidateSeenInCacheOnly(r) ==
  At(r, "invalidateSeen") /\ ThenMark(r, req[r].ids) /\ UNCHANGED <<db, tokens, cache>>
InvalidateSeen(r) ==
  /\ At(r, "invalidateSeen")
  /\ valid' = valid \ req[r].ids
  /\ ThenMark(r, req[r].ids)
  /\ UNCHANGED <<account, deleted, owner, hash, expired, tokens, cache>>

\* markSessionInvalidInCache, once per pass of the loop.
Mark(r) ==
  /\ At(r, "mark")
  /\ \E s \in req[r].todo :
       /\ CacheWrites(marked' = marked \cup {s}, marked' = marked)
       /\ LET rest == req[r].todo \ {s}
          IN Leave(r, IF rest = {} THEN AfterMarks(req[r].kind) ELSE "mark", rest)
  /\ UNCHANGED <<db, tokens, info>>

\* createSession: the row is valid before its refresh token exists.
CreateSession(r) ==
  /\ At(r, "createSession")
  /\ \E s \in Sids :
       /\ owner[s] = None
       /\ owner' = [owner EXCEPT ![s] = req[r].user]
       /\ valid' = valid \cup {s}
       /\ req' = [req EXCEPT ![r].pc = "storeHash", ![r].sid = s]
  /\ UNCHANGED <<account, deleted, hash, expired, tokens, cache>>

\* Faulty variant: the hash is not written.
StoreHashForgotten(r) ==
  /\ At(r, "storeHash")
  /\ \E t \in Tokens :
       /\ issuedFor[t] = None
       /\ issuedFor' = [issuedFor EXCEPT ![t] = req[r].sid]
       /\ req' = [req EXCEPT ![r].tok = t, ![r].pc = "respond"]
  /\ UNCHANGED <<db, held, cache>>
\* generateTokens and the update that stores the hash.
StoreHash(r) ==
  /\ At(r, "storeHash")
  /\ \E t \in Tokens :
       /\ issuedFor[t] = None
       /\ issuedFor' = [issuedFor EXCEPT ![t] = req[r].sid]
       /\ hash' = [hash EXCEPT ![req[r].sid] = t]
       /\ req' = [req EXCEPT ![r].tok = t,
                             ![r].pc = IF CacheAttached THEN "cacheInfo" ELSE "respond"]
  /\ UNCHANGED <<account, deleted, owner, valid, expired, held, cache>>

CacheInfo(r) ==
  /\ At(r, "cacheInfo")
  /\ CacheWrites(info' = info \cup {req[r].user}, info' = info)
  /\ Goto(r, "respond")
  /\ UNCHANGED <<db, tokens, marked>>

\* The controller sends the token pair to the client.
Respond(r) ==
  /\ At(r, "respond")
  /\ held' = held \cup {req[r].tok}
  /\ Finish(r)
  /\ UNCHANGED <<db, issuedFor, cache>>

-----------------------------------------------------------------------------
(* handleDevSignup and handleDevLogin *)

\* user.create; an email already there is answered with a conflict.
DevSignup(r, u) ==
  /\ DevMode /\ LoginRoom
  /\ account[u] = "absent"
  /\ account' = [account EXCEPT ![u] = "dev"]
  /\ Begin(r, "signup", u, "createHashed")
  /\ UNCHANGED <<deleted, owner, valid, hash, expired, tokens, cache>>

\* findUnique({ email }) and the password check, which only a dev row passes.
DevLogin(r, u) ==
  /\ DevMode /\ LoginRoom
  /\ account[u] = "dev" /\ u \notin deleted
  /\ Begin(r, "devLogin", u, "invalidateOwned")
  /\ UNCHANGED <<db, tokens, cache>>

\* One updateMany, whatever the device limit; nothing is marked in the cache.
InvalidateOwned(r) ==
  /\ At(r, "invalidateOwned")
  /\ valid' = valid \ Active(req[r].user)
  /\ Goto(r, "createHashed")
  /\ UNCHANGED <<account, deleted, owner, hash, expired, tokens, cache>>

\* createAuthenticatedSession: one row, hash included.
CreateHashed(r) ==
  /\ At(r, "createHashed")
  /\ \E s \in Sids, t \in Tokens :
       /\ owner[s] = None /\ issuedFor[t] = None
       /\ owner' = [owner EXCEPT ![s] = req[r].user]
       /\ valid' = valid \cup {s}
       /\ hash' = [hash EXCEPT ![s] = t]
       /\ issuedFor' = [issuedFor EXCEPT ![t] = s]
       /\ req' = [req EXCEPT ![r].sid = s, ![r].tok = t,
                             ![r].pc = IF CacheAttached THEN "cacheInfo" ELSE "respond"]
  /\ UNCHANGED <<account, deleted, expired, held, cache>>

-----------------------------------------------------------------------------
(* refreshTokens *)

\* The row of the session named in the token is read, and the checks run on
\* what was read.  A closed session is refused without a write.
RefreshTokens(r, t) ==
  LET s == issuedFor[t]
  IN /\ t \in held /\ s \in valid
     /\ req[r] = Idle
     /\ s \notin expired /\ hash[s] = t => RefreshRoom
     /\ req' = [req EXCEPT ![r] =
          [Idle EXCEPT !.kind = "refresh", !.user = owner[s], !.sid = s, !.tok = t,
                       !.pc = IF s \in expired THEN "expireRow"
                              ELSE IF hash[s] # t THEN "findAll" ELSE "rotate"]]
     /\ UNCHANGED <<db, tokens, cache>>

\* Faulty variant: the answer carries the token that was just replaced.
RotateReturnsOld(r) ==
  /\ At(r, "rotate")
  /\ \E t \in Tokens :
       /\ issuedFor[t] = None
       /\ issuedFor' = [issuedFor EXCEPT ![t] = req[r].sid]
       /\ hash' = [hash EXCEPT ![req[r].sid] = t]
       /\ Goto(r, "respond")
  /\ UNCHANGED <<account, deleted, owner, valid, expired, held, cache>>
\* The update that stores the new hash names the row by id alone.
Rotate(r) ==
  /\ At(r, "rotate")
  /\ \E t \in Tokens :
       /\ issuedFor[t] = None
       /\ issuedFor' = [issuedFor EXCEPT ![t] = req[r].sid]
       /\ hash' = [hash EXCEPT ![req[r].sid] = t]
       /\ req' = [req EXCEPT ![r].tok = t, ![r].pc = "respond"]
  /\ UNCHANGED <<account, deleted, owner, valid, expired, held, cache>>

\* A session found past its expiresAt is closed and the request refused.
ExpireRow(r) ==
  /\ At(r, "expireRow")
  /\ valid' = valid \ {req[r].sid}
  /\ Finish(r)
  /\ UNCHANGED <<account, deleted, owner, hash, expired, tokens, cache>>

\* invalidateAllUserSessions: the sessions to mark are read first, ...
FindAll(r) ==
  LET ids == Active(req[r].user)
  IN /\ At(r, "findAll")
     /\ IF ids = {} THEN Leave(r, AfterMarks(req[r].kind), {})
        ELSE req' = [req EXCEPT ![r].pc = "invalidateAll", ![r].ids = ids]
     /\ UNCHANGED <<db, tokens, cache>>

\* ... then every session the user has by now is invalidated.
InvalidateAll(r) ==
  /\ At(r, "invalidateAll")
  /\ valid' = valid \ Active(req[r].user)
  /\ ThenMark(r, req[r].ids)
  /\ UNCHANGED <<account, deleted, owner, hash, expired, tokens, cache>>

-----------------------------------------------------------------------------
(* logout, behind TokenValidationGuard and so validateSession *)

LogoutBody(k) == IF k = "logout" THEN "invalidateOne" ELSE "findAll"

Logout(r, t, k) ==
  LET s == issuedFor[t]
  IN /\ t \in held
     /\ req[r] = Idle
     /\ req' = [req EXCEPT ![r] =
          [Idle EXCEPT !.kind = k, !.user = owner[s], !.sid = s,
                       !.pc = IF CacheAttached THEN "checkMark" ELSE "readRow"]]
     /\ UNCHANGED <<db, tokens, cache>>

\* exists(session_invalid:{sid}); an error counts as "not marked".
CheckMark(r) ==
  /\ At(r, "checkMark")
  /\ \/ req[r].sid \in marked /\ Finish(r)
     \/ (req[r].sid \notin marked \/ CacheMayFail) /\ Goto(r, "readInfo")
  /\ UNCHANGED <<db, tokens, cache>>

\* get(user_info:{uid}): a hit accepts the session without reading its row.
ReadInfo(r) ==
  /\ At(r, "readInfo")
  /\ \/ req[r].user \in info /\ Goto(r, LogoutBody(req[r].kind))
     \/ (req[r].user \notin info \/ CacheMayFail) /\ Goto(r, "readRow")
  /\ UNCHANGED <<db, tokens, cache>>

ReadRow(r) ==
  LET s == req[r].sid
  IN /\ At(r, "readRow")
     /\ \/ s \notin valid /\ Finish(r)
        \/ s \in valid /\ s \in expired /\ Goto(r, "expireRow")
        \/ s \in valid /\ s \notin expired
           /\ Goto(r, IF CacheAttached THEN "cacheValidated" ELSE LogoutBody(req[r].kind))
     /\ UNCHANGED <<db, tokens, cache>>

CacheValidated(r) ==
  /\ At(r, "cacheValidated")
  /\ CacheWrites(info' = info \cup {req[r].user}, info' = info)
  /\ Goto(r, LogoutBody(req[r].kind))
  /\ UNCHANGED <<db, tokens, marked>>

InvalidateOne(r) ==
  /\ At(r, "invalidateOne")
  /\ valid' = valid \ {req[r].sid}
  /\ ThenMark(r, {req[r].sid})
  /\ UNCHANGED <<account, deleted, owner, hash, expired, tokens, cache>>

ClearInfo(r) ==
  /\ At(r, "clearInfo")
  /\ CacheWrites(info' = info \ {req[r].user}, info' = info)
  /\ Finish(r)
  /\ UNCHANGED <<db, tokens, marked>>

-----------------------------------------------------------------------------
(* Surroundings *)

\* expiresAt passes.
Expire(s) ==
  /\ owner[s] # None /\ s \notin expired
  /\ expired' = expired \cup {s}
  /\ UNCHANGED <<account, deleted, owner, valid, hash, tokens, cache, req>>

\* The TTL of user_info runs out.  A session_invalid key lives 30 days, longer
\* than any access token that could present its session, so it is kept.
InfoExpires(u) ==
  /\ u \in info
  /\ info' = info \ {u}
  /\ UNCHANGED <<db, tokens, marked, req>>

\* The process stops or the awaited call throws: no further step, no answer.
\* At "respond" it is the answer that is lost.
Die(r) ==
  /\ RequestsMayDie
  /\ ~At(r, "idle")
  /\ Finish(r)
  /\ UNCHANGED <<db, tokens, cache>>

\* Requests refused before any write, which clients may always send: a refresh
\* token that does not verify or whose session is closed, a signup for an
\* existing e-mail, a dev login with an unknown e-mail or a wrong password.
Refuse(r) == req[r] = Idle /\ UNCHANGED vars

Step(r) ==
  \/ FindByEmail(r) \/ CreateUser(r) \/ FindActive(r) \/ InvalidateSeen(r)
  \/ Mark(r) \/ CreateSession(r) \/ StoreHash(r) \/ CacheInfo(r) \/ Respond(r)
  \/ InvalidateOwned(r) \/ CreateHashed(r)
  \/ Rotate(r) \/ ExpireRow(r) \/ FindAll(r) \/ InvalidateAll(r)
  \/ CheckMark(r) \/ ReadInfo(r) \/ ReadRow(r) \/ CacheValidated(r)
  \/ InvalidateOne(r) \/ ClearInfo(r)

Start(r) ==
  \/ \E u \in Users : GoogleLogin(r, u) \/ DevSignup(r, u) \/ DevLogin(r, u)
  \/ Refuse(r)
  \/ \E t \in Tokens : RefreshTokens(r, t)
  \/ \E t \in Tokens, k \in LogoutKinds : Logout(r, t, k)

Init ==
  /\ account = [u \in Users |-> "absent"]
  /\ deleted = {}
  /\ owner = [s \in Sids |-> None]
  /\ valid = {}
  /\ hash = [s \in Sids |-> None]
  /\ expired = {}
  /\ issuedFor = [t \in Tokens |-> None]
  /\ held = {}
  /\ marked = {}
  /\ info = {}
  /\ req = [r \in Reqs |-> Idle]

Next ==
  \/ \E r \in Reqs : Start(r) \/ Step(r) \/ Die(r)
  \/ \E s \in Sids : Expire(s)
  \/ \E u \in Users : InfoExpires(u)

Spec == Init /\ [][Next]_vars

\* Node resumes every pending await and MySQL and Redis answer or time out.
FairSpec == Spec /\ \A r \in Reqs : WF_vars(Step(r))

-----------------------------------------------------------------------------
(* Properties *)

TypeOK ==
  /\ account \in [Users -> {"absent", "google", "dev"}]
  /\ deleted \subseteq Users
  /\ owner \in [Sids -> Users \cup {None}]
  /\ valid \subseteq {s \in Sids : owner[s] # None}
  /\ hash \in [Sids -> Tokens \cup {None}]
  /\ expired \subseteq Sids
  /\ issuedFor \in [Tokens -> Sids \cup {None}]
  /\ held \subseteq Tokens
  /\ marked \subseteq Sids
  /\ info \subseteq Users
  /\ req \in [Reqs -> Request]
  /\ \A r \in Reqs : req[r] # Idle => req[r].user \in Users

\* Token t was issued for a session whose row exists and has a hash.
Backed(t) ==
  issuedFor[t] \in Sids /\ owner[issuedFor[t]] # None /\ hash[issuedFor[t]] # None

\* A session's stored hash is that of a token issued for it, and a client only
\* ever holds tokens of sessions whose hash has been stored: the login answers
\* after its last write, whatever dies in between.
TokensConsistent ==
  /\ \A s \in Sids : hash[s] # None => issuedFor[hash[s]] = s
  /\ \A t \in held : Backed(t)

\* Once a login over the limit, a logout from all devices or a reused token has
\* done its updateMany, none of the sessions it had read is usable again, even
\* if a refresh of one of them was in flight and writes its row afterwards.
Displaced ==
  \A r \in Reqs :
    req[r].pc \notin {"invalidateSeen", "invalidateAll"} => req[r].ids \cap valid = {}

\* session_invalid is never set for a session that is valid in the database: the
\* guard's first check refuses nobody who should pass.
MarkedStaysOut == marked \cap valid = {}

\* With a device limit, a user has at most that many valid sessions plus one for
\* each further request that may overlap a login: concurrent logins that missed
\* each other are all caught by the next one that reads after them.
BoundedOverrun ==
  MaxDevices > 0 =>
    \A u \in Users : Cardinality(Active(u)) < MaxDevices + Cardinality(Reqs)

\* The token whose hash is stored is on its way to a client or has arrived, so a
\* reuse alarm always has a second holder behind it.  Only where no answer is
\* lost: after a lost answer the client's retry with its old token is the alarm.
CurrentTokenReachable ==
  \A s \in valid : hash[s] # None =>
    hash[s] \in held \/ \E r \in Reqs : req[r].tok = hash[s] /\ req[r].sid = s

\* What a request in flight carries, in step with the tables: the invariant that
\* AuthServiceProofs shows inductive.
NeedsSid == {"storeHash", "rotate", "expireRow", "checkMark", "readInfo", "readRow",
             "cacheValidated", "invalidateOne"}

Carries(r) ==
  /\ req[r].pc \in NeedsSid => req[r].sid # None
  /\ req[r].pc \in {"cacheInfo", "respond"} => req[r].tok # None
  /\ req[r].sid # None => owner[req[r].sid] = req[r].user
  /\ \A s \in req[r].ids \cup req[r].todo : owner[s] = req[r].user
  /\ req[r].todo \cap valid = {}
  /\ req[r].tok # None => Backed(req[r].tok)

IInv ==
  /\ TypeOK /\ TokensConsistent /\ Displaced /\ MarkedStaysOut
  /\ \A s \in marked : owner[s] # None
  /\ \A r \in Reqs : Carries(r)

\* The session table as the rest of the system may rely on it: no handler
\* reopens a session, moves it, or closes a session of another user.
Lifecycle == INSTANCE SessionLifecycle WITH holder <- owner, live <- valid
ImplementsLifecycle == Lifecycle!Spec

\* Every request ends: no handler waits for another, and the marking loop runs out.
RequestsFinish == \A r \in Reqs : ~At(r, "idle") ~> At(r, "idle")

\* ARCHITECTURE.md 7.3 B: one device per account, a new login ends the others.
DeviceLimit == MaxDevices > 0 => \A u \in Users : Cardinality(Active(u)) <= MaxDevices

\* ARCHITECTURE.md 7.3 A: a refresh token is exchanged once; what a rotation
\* replaces is the very token it was asked to exchange.
RotationReplacesPresented ==
  [][\A r \in Reqs : At(r, "rotate") /\ req'[r].pc = "respond"
       => hash[req[r].sid] = req[r].tok]_vars
=============================================================================
