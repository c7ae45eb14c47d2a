-------------------------- MODULE AuthServiceProofs --------------------------
(***************************************************************************)
(* Proofs about AuthService and about its composition with the account     *)
(* calls, AccountLifecycle, for every value of their constants.            *)
(*                                                                         *)
(* IInv is inductive.  One lemma per action, each with one step per part   *)
(* of IInv; the argument is the same throughout: rows, hashes and tokens   *)
(* never lose what they have, only a row that did not exist becomes valid, *)
(* and a request only touches its own record.  The bound on concurrent     *)
(* logins rests on an account of every user's sessions, Explained: those   *)
(* one look left, fewer than the limit, and one for each request since.    *)
(* The account calls leave the session tables alone, so what is proved of  *)
(* AuthService carries over to the composition; and a login that began on  *)
(* a deleted account gets no further than the unique column.               *)
(***************************************************************************)
EXTENDS AccountLifecycle, FiniteSetTheorems, TLAPS

\* The empty tables satisfy the invariant.
LEMMA InitIInv == Init => IInv
BY NoneIsFresh DEF Init, IInv, TypeOK, TokensConsistent, Displaced, MarkedStaysOut,
   Carries, NeedsSid, Idle, Request, Kinds, Awaits

-----------------------------------------------------------------------------
(* How the record of a request moves *)

ReqTyped ==
  /\ req \in [Reqs -> Request]
  /\ \A q \in Reqs : req[q] # Idle => req[q].user \in Users

\* Request r now waits at l, or has ended; what it carries besides its list of
\* sessions to mark is unchanged.
Moved(r, l, S) ==
  /\ ReqTyped'
  /\ \A q \in Reqs \ {r} : req'[q] = req[q]
  /\ \/ req'[r] = Idle
     \/ /\ l # "idle" /\ req'[r].pc = l /\ req'[r].todo = S
        /\ req'[r].user = req[r].user /\ req'[r].sid = req[r].sid
        /\ req'[r].tok = req[r].tok /\ req'[r].ids = req[r].ids

\* After the marking loop a request creates its session, clears the cached login or ends.
LEMMA AfterMarksType ==
  ASSUME NEW k PROVE AfterMarks(k) \in {"createSession", "idle", "clearInfo"}
BY DEF AfterMarks

\* Going to another await keeps everything the request carries.
LEMMA GotoMoves ==
  ASSUME IInv, NEW r \in Reqs, NEW l \in Awaits, req[r].pc # "idle", Goto(r, l)
  PROVE Moved(r, l, req[r].todo)
<1>1. req[r] \in Request /\ req[r].user \in Users
  BY DEF IInv, TypeOK, Idle
<1>2. req' \in [Reqs -> Request]
  BY <1>1 DEF IInv, TypeOK, Goto, Request
<1>3. ASSUME NEW q \in Reqs, req'[q] # Idle PROVE req'[q].user \in Users
  BY <1>1, <1>3 DEF IInv, TypeOK, Goto, Request
<1>4. l # "idle"
  BY DEF Awaits
<1>5. QED BY <1>1, <1>2, <1>3, <1>4 DEF IInv, TypeOK, Goto, Request, Moved, ReqTyped

\* So does leaving for one with a new list of sessions to mark.
LEMMA LeaveMoves ==
  ASSUME IInv, NEW r \in Reqs, NEW l \in Awaits \cup {"idle"}, NEW S \in SUBSET Sids,
         req[r].pc # "idle", Leave(r, l, S)
  PROVE Moved(r, l, S)
<1>1. req[r] \in Request /\ req[r].user \in Users
  BY DEF IInv, TypeOK, Idle
<1>2. Idle \in Request
  BY DEF Idle, Request
<1>3. req' \in [Reqs -> Request]
  BY <1>1, <1>2 DEF IInv, TypeOK, Leave, Request
<1>4. ASSUME NEW q \in Reqs, req'[q] # Idle PROVE req'[q].user \in Users
  BY <1>1, <1>4 DEF IInv, TypeOK, Leave, Request
<1>5. QED BY <1>1, <1>3, <1>4 DEF IInv, TypeOK, Leave, Request, Moved, ReqTyped

\* After an invalidation the request has exactly the invalidated sessions to mark,
\* or nothing.
LEMMA ThenMarkMoves ==
  ASSUME IInv, NEW r \in Reqs, NEW S \in SUBSET Sids, req[r].pc # "idle", ThenMark(r, S)
  PROVE \E l \in {"mark", "createSession", "clearInfo", "idle"}, T \in SUBSET S : Moved(r, l, T)
<1>1. CASE CacheAttached /\ S # {}
  BY <1>1, LeaveMoves DEF ThenMark, Awaits
<1>2. CASE ~(CacheAttached /\ S # {})
  BY <1>2, LeaveMoves, AfterMarksType DEF ThenMark, Awaits
<1>3. QED BY <1>1, <1>2

\* An ended request carries nothing.
LEMMA FinishMoves ==
  ASSUME IInv, NEW r \in Reqs, Finish(r)
  PROVE ReqTyped'
<1>1. Idle \in Request
  BY DEF Idle, Request
<1>2. QED
  BY <1>1 DEF IInv, TypeOK, Finish, ReqTyped

\* The record of a request is replaced by one that has a user.
LEMMA ReplaceTyped ==
  ASSUME IInv, NEW r \in Reqs, NEW q \in Request, q.user \in Users,
         req' = [req EXCEPT ![r] = q]
  PROVE ReqTyped'
BY DEF IInv, TypeOK, ReqTyped

-----------------------------------------------------------------------------
(* IInv is preserved by every action *)

\* A Google login starts with its user alone.
LEMMA GoogleLoginKeeps == ASSUME IInv, NEW r \in Reqs, NEW u \in Users, GoogleLogin(r, u) PROVE IInv'
<1> USE NoneIsFresh DEF IInv, TypeOK, Carries, NeedsSid, Request, Idle, Kinds, LoginKinds,
        LogoutKinds, Awaits, GoogleLogin, At, Begin, tokens, cache, db
<1>1. TypeOK'
  OBVIOUS
<1>2. TokensConsistent' /\ MarkedStaysOut' /\ \A s \in marked' : owner'[s] # None
  BY DEF TokensConsistent, MarkedStaysOut, Backed
<1>3. Displaced'
  BY DEF Displaced
<1>4. ASSUME NEW q \in Reqs PROVE Carries(q)'
  BY DEF Backed, TokensConsistent
<1>5. QED
  BY <1>1, <1>2, <1>3, <1>4

\* A dev signup creates its user row and starts.
LEMMA DevSignupKeeps == ASSUME IInv, NEW r \in Reqs, NEW u \in Users, DevSignup(r, u) PROVE IInv'
<1> USE NoneIsFresh DEF IInv, TypeOK, Carries, NeedsSid, Request, Idle, Kinds, LoginKinds,
        LogoutKinds, Awaits, DevSignup, At, Begin, tokens, cache, db
<1>1. TypeOK'
  OBVIOUS
<1>2. TokensConsistent' /\ MarkedStaysOut' /\ \A s \in marked' : owner'[s] # None
  BY DEF TokensConsistent, MarkedStaysOut, Backed
<1>3. Displaced'
  BY DEF Displaced
<1>4. ASSUME NEW q \in Reqs PROVE Carries(q)'
  BY DEF Backed, TokensConsistent
<1>5. QED
  BY <1>1, <1>2, <1>3, <1>4

\* A dev login starts with its user alone.
LEMMA DevLoginKeeps == ASSUME IInv, NEW r \in Reqs, NEW u \in Users, DevLogin(r, u) PROVE IInv'
<1> USE NoneIsFresh DEF IInv, TypeOK, Carries, NeedsSid, Request, Idle, Kinds, LoginKinds,
        LogoutKinds, Awaits, DevLogin, At, Begin, tokens, cache, db
<1>1. TypeOK'
  OBVIOUS
<1>2. TokensConsistent' /\ MarkedStaysOut' /\ \A s \in marked' : owner'[s] # None
  BY DEF TokensConsistent, MarkedStaysOut, Backed
<1>3. Displaced'
  BY DEF Displaced
<1>4. ASSUME NEW q \in Reqs PROVE Carries(q)'
  BY DEF Backed, TokensConsistent
<1>5. QED
  BY <1>1, <1>2, <1>3, <1>4

\* A refresh starts with the session its held token names, which has a row.
LEMMA RefreshTokensKeeps == ASSUME IInv, NEW r \in Reqs, NEW t \in Tokens, RefreshTokens(r, t) PROVE IInv'
<1> DEFINE opened == [Idle EXCEPT !.kind = "refresh", !.user = owner[issuedFor[t]],
                       !.sid = issuedFor[t], !.tok = t,
                       !.pc = IF issuedFor[t] \in expired THEN "expireRow"
                              ELSE IF hash[issuedFor[t]] # t THEN "findAll" ELSE "rotate"]
<1>1. ReqTyped'
  <2>1. issuedFor[t] \in Sids /\ owner[issuedFor[t]] \in Users
    BY DEF RefreshTokens, IInv, TypeOK, TokensConsistent, Backed
  <2>2. opened \in Request /\ opened.user \in Users
    BY <2>1 DEF Idle, Request, Awaits, Kinds, LogoutKinds
  <2>3. req' = [req EXCEPT ![r] = opened]
    BY DEF RefreshTokens
  <2>4. QED
    BY <2>2, <2>3, ReplaceTyped
<1> HIDE DEF opened
<1>2. TypeOK'
  BY <1>1 DEF IInv, TypeOK, ReqTyped, RefreshTokens, tokens, cache, db
<1> USE NoneIsFresh DEF IInv, TypeOK, Carries, NeedsSid, Request, Idle, Kinds, LoginKinds,
        LogoutKinds, Awaits, RefreshTokens, At, tokens, cache, db
<1>3. TokensConsistent' /\ MarkedStaysOut' /\ \A s \in marked' : owner'[s] # None
  BY DEF TokensConsistent, MarkedStaysOut, Backed
<1>4. Displaced'
  BY DEF Displaced
<1>5. ASSUME NEW q \in Reqs PROVE Carries(q)'
  BY DEF Backed, TokensConsistent
<1>6. QED
  BY <1>2, <1>3, <1>4, <1>5

\* So does a logout.
LEMMA LogoutKeeps == ASSUME IInv, NEW r \in Reqs, NEW t \in Tokens, NEW k \in LogoutKinds, Logout(r, t, k) PROVE IInv'
<1> DEFINE opened == [Idle EXCEPT !.kind = k, !.user = owner[issuedFor[t]], !.sid = issuedFor[t],
                       !.pc = IF CacheAttached THEN "checkMark" ELSE "readRow"]
<1>1. ReqTyped'
  <2>1. issuedFor[t] \in Sids /\ owner[issuedFor[t]] \in Users
    BY DEF Logout, IInv, TypeOK, TokensConsistent, Backed
  <2>2. opened \in Request /\ opened.user \in Users
    BY <2>1 DEF Idle, Request, Awaits, Kinds, LogoutKinds
  <2>3. req' = [req EXCEPT ![r] = opened]
    BY DEF Logout
  <2>4. QED
    BY <2>2, <2>3, ReplaceTyped
<1> HIDE DEF opened
<1>2. TypeOK'
  BY <1>1 DEF IInv, TypeOK, ReqTyped, Logout, tokens, cache, db
<1> USE NoneIsFresh DEF IInv, TypeOK, Carries, NeedsSid, Request, Idle, Kinds, LoginKinds,
        LogoutKinds, Awaits, Logout, At, tokens, cache, db
<1>3. TokensConsistent' /\ MarkedStaysOut' /\ \A s \in marked' : owner'[s] # None
  BY DEF TokensConsistent, MarkedStaysOut, Backed
<1>4. Displaced'
  BY DEF Displaced
<1>5. ASSUME NEW q \in Reqs PROVE Carries(q)'
  BY DEF Backed, TokensConsistent
<1>6. QED
  BY <1>2, <1>3, <1>4, <1>5

\* Looking up the e-mail writes nothing.
LEMMA FindByEmailKeeps == ASSUME IInv, NEW r \in Reqs, FindByEmail(r) PROVE IInv'
<1>1. ReqTyped'
  BY GotoMoves, FinishMoves DEF FindByEmail, At, Moved, Awaits
<1>2. TypeOK'
  BY <1>1 DEF IInv, TypeOK, ReqTyped, FindByEmail, tokens, cache, db
<1> USE NoneIsFresh DEF IInv, TypeOK, Carries, NeedsSid, Request, Idle, Kinds, LoginKinds,
        LogoutKinds, Awaits, FindByEmail, At, Goto, Finish, tokens, cache, db
<1>3. TokensConsistent' /\ MarkedStaysOut' /\ \A s \in marked' : owner'[s] # None
  BY DEF TokensConsistent, MarkedStaysOut, Backed
<1>4. Displaced'
  BY DEF Displaced
<1>5. ASSUME NEW q \in Reqs PROVE Carries(q)'
  BY DEF Backed, TokensConsistent
<1>6. QED
  BY <1>2, <1>3, <1>4, <1>5

\* Creating the user row disturbs no session.
LEMMA CreateUserKeeps == ASSUME IInv, NEW r \in Reqs, CreateUser(r) PROVE IInv'
<1>1. ReqTyped'
  BY GotoMoves, FinishMoves DEF CreateUser, At, Moved, Awaits
<1>2. TypeOK'
  BY <1>1 DEF IInv, TypeOK, ReqTyped, CreateUser, tokens, cache, db
<1> USE NoneIsFresh DEF IInv, TypeOK, Carries, NeedsSid, Request, Idle, Kinds, LoginKinds,
        LogoutKinds, Awaits, CreateUser, At, Goto, Finish, tokens, cache, db
<1>3. TokensConsistent' /\ MarkedStaysOut' /\ \A s \in marked' : owner'[s] # None
  BY DEF TokensConsistent, MarkedStaysOut, Backed
<1>4. Displaced'
  BY DEF Displaced
<1>5. ASSUME NEW q \in Reqs PROVE Carries(q)'
  BY DEF Backed, TokensConsistent
<1>6. QED
  BY <1>2, <1>3, <1>4, <1>5

\* The sessions a login reads are the user's own.
LEMMA FindActiveKeeps == ASSUME IInv, NEW r \in Reqs, FindActive(r) PROVE IInv'
<1>1. PICK l \in {"invalidateSeen", "createSession"}, ids \in SUBSET Active(req[r].user) :
         /\ l = "createSession" => ids = {}
         /\ req' = [req EXCEPT ![r] = [req[r] EXCEPT !.pc = l, !.ids = ids]]
  BY DEF FindActive, IInv, TypeOK
<1>2. req[r] \in Request /\ req[r].user \in Users /\ Active(req[r].user) \subseteq Sids
  BY DEF FindActive, At, IInv, TypeOK, Idle, Active
<1>3. ReqTyped'
  <2>1. [req[r] EXCEPT !.pc = l, !.ids = ids] \in Request /\ [req[r] EXCEPT !.pc = l, !.ids = ids].user \in Users
    BY <1>2 DEF Request, Awaits
  <2>2. QED
    BY <1>1, <2>1, ReplaceTyped
<1>4. TypeOK'
  BY <1>3 DEF IInv, TypeOK, ReqTyped, FindActive, tokens, cache, db
<1>5. TokensConsistent' /\ MarkedStaysOut' /\ \A s \in marked' : owner'[s] # None
  BY DEF IInv, TokensConsistent, MarkedStaysOut, Backed, FindActive, tokens, cache, db
<1>6. Displaced'
  BY <1>1, <1>2 DEF IInv, TypeOK, Displaced, FindActive, tokens, cache, db, Request
<1>7. ASSUME NEW q \in Reqs PROVE Carries(q)'
  BY <1>1, <1>2 DEF IInv, TypeOK, Carries, NeedsSid, Active, FindActive, tokens, cache, db, Request, Backed
<1>8. QED
  BY <1>4, <1>5, <1>6, <1>7 DEF IInv

\* Invalidating the sessions read establishes that they are out before any is marked.
LEMMA InvalidateSeenKeeps == ASSUME IInv, NEW r \in Reqs, InvalidateSeen(r) PROVE IInv'
<1>1. req[r].ids \in SUBSET Sids /\ \A s \in req[r].ids : owner[s] = req[r].user
  BY NoneIsFresh DEF IInv, TypeOK, Request, Carries, NeedsSid, InvalidateSeen, At
<1>2. PICK l \in {"mark", "createSession", "clearInfo", "idle"}, T \in SUBSET req[r].ids : Moved(r, l, T)
  BY <1>1, ThenMarkMoves DEF InvalidateSeen, At
<1>3. TypeOK'
  BY <1>2 DEF IInv, TypeOK, InvalidateSeen, Moved, ReqTyped, tokens, cache
<1>4. TokensConsistent' /\ MarkedStaysOut' /\ \A s \in marked' : owner'[s] # None
  BY DEF IInv, TokensConsistent, MarkedStaysOut, Backed, InvalidateSeen, tokens, cache
<1>5. Displaced'
  BY <1>1, <1>2 DEF IInv, TypeOK, Carries, Displaced, Moved, InvalidateSeen, At, Idle
<1>6. ASSUME NEW q \in Reqs PROVE Carries(q)'
  BY <1>1, <1>2 DEF IInv, TypeOK, Carries, Moved, InvalidateSeen, Idle, NeedsSid, Backed, tokens, cache
<1>7. QED
  BY <1>3, <1>4, <1>5, <1>6 DEF IInv

\* A session is marked only while it is on the list of those already out.
LEMMA MarkKeeps == ASSUME IInv, NEW r \in Reqs, Mark(r) PROVE IInv'
<1>1. PICK s \in req[r].todo :
          /\ CacheWrites(marked' = marked \cup {s}, marked' = marked)
          /\ Leave(r, IF req[r].todo \ {s} = {} THEN AfterMarks(req[r].kind) ELSE "mark",
                   req[r].todo \ {s})
  BY DEF Mark
<1>2. req[r].todo \in SUBSET Sids /\ req[r].pc = "mark"
  BY DEF IInv, TypeOK, Request, Mark, At
<1>3. PICK l \in {"mark", "createSession", "clearInfo", "idle"} : Moved(r, l, req[r].todo \ {s})
  BY <1>1, <1>2, AfterMarksType, LeaveMoves DEF Awaits
<1>4. TypeOK'
  BY <1>1, <1>2, <1>3 DEF IInv, TypeOK, ReqTyped, Moved, Mark, CacheWrites, db, tokens
<1>5. TokensConsistent' /\ MarkedStaysOut' /\ \A m \in marked' : owner'[m] # None
  BY <1>1, <1>2, NoneIsFresh DEF IInv, TypeOK, TokensConsistent, MarkedStaysOut, Backed, Carries,
     Mark, CacheWrites, Idle, db, tokens
<1>6. Displaced'
  BY <1>2, <1>3 DEF IInv, Displaced, Moved, Mark, Idle, db
<1>7. ASSUME NEW q \in Reqs PROVE Carries(q)'
  BY <1>2, <1>3 DEF IInv, Carries, Moved, Mark, Idle, NeedsSid, Backed, db, tokens
<1>8. QED
  BY <1>4, <1>5, <1>6, <1>7 DEF IInv

\* A new session row was nobody's, so no request and no mark names it.
LEMMA CreateSessionKeeps == ASSUME IInv, NEW r \in Reqs, CreateSession(r) PROVE IInv'
<1> USE NoneIsFresh DEF IInv, TypeOK, Carries, NeedsSid, Request, Idle, Kinds, LoginKinds,
        LogoutKinds, Awaits, CreateSession, At, tokens, cache, db
<1>1. TypeOK'
  OBVIOUS
<1>2. TokensConsistent' /\ MarkedStaysOut' /\ \A s \in marked' : owner'[s] # None
  BY DEF TokensConsistent, MarkedStaysOut, Backed
<1>3. Displaced'
  BY DEF Displaced
<1>4. ASSUME NEW q \in Reqs PROVE Carries(q)'
  BY DEF Backed, TokensConsistent
<1>5. QED
  BY <1>1, <1>2, <1>3, <1>4

\* The stored hash is that of the token signed for this session.
LEMMA StoreHashKeeps == ASSUME IInv, NEW r \in Reqs, StoreHash(r) PROVE IInv'
<1> USE NoneIsFresh DEF IInv, TypeOK, Carries, NeedsSid, Request, Idle, Kinds, LoginKinds,
        LogoutKinds, Awaits, StoreHash, At, tokens, cache, db
<1>1. TypeOK'
  OBVIOUS
<1>2. TokensConsistent' /\ MarkedStaysOut' /\ \A s \in marked' : owner'[s] # None
  BY DEF TokensConsistent, MarkedStaysOut, Backed
<1>3. Displaced'
  BY DEF Displaced
<1>4. ASSUME NEW q \in Reqs PROVE Carries(q)'
  BY DEF Backed, TokensConsistent
<1>5. QED
  BY <1>1, <1>2, <1>3, <1>4

\* Caching the login touches no row.
LEMMA CacheInfoKeeps == ASSUME IInv, NEW r \in Reqs, CacheInfo(r) PROVE IInv'
<1>1. ReqTyped'
  BY GotoMoves DEF CacheInfo, At, Moved, Awaits
<1>2. TypeOK'
  BY <1>1 DEF IInv, TypeOK, ReqTyped, CacheInfo, At, Idle, tokens, cache, db, CacheWrites
<1> USE NoneIsFresh DEF IInv, TypeOK, Carries, NeedsSid, Request, Idle, Kinds, LoginKinds,
        LogoutKinds, Awaits, CacheInfo, At, CacheWrites, Goto, tokens, cache, db
<1>3. TokensConsistent' /\ MarkedStaysOut' /\ \A s \in marked' : owner'[s] # None
  BY DEF TokensConsistent, MarkedStaysOut, Backed
<1>4. Displaced'
  BY DEF Displaced
<1>5. ASSUME NEW q \in Reqs PROVE Carries(q)'
  BY DEF Backed, TokensConsistent
<1>6. QED
  BY <1>2, <1>3, <1>4, <1>5

\* A token reaches its client only after its session's hash has been stored.
LEMMA RespondKeeps == ASSUME IInv, NEW r \in Reqs, Respond(r) PROVE IInv'
<1> USE NoneIsFresh DEF IInv, TypeOK, Carries, NeedsSid, Request, Idle, Kinds, LoginKinds,
        LogoutKinds, Awaits, Respond, At, Finish, tokens, cache, db
<1>1. TypeOK'
  OBVIOUS
<1>2. TokensConsistent' /\ MarkedStaysOut' /\ \A s \in marked' : owner'[s] # None
  BY DEF TokensConsistent, MarkedStaysOut, Backed
<1>3. Displaced'
  BY DEF Displaced
<1>4. ASSUME NEW q \in Reqs PROVE Carries(q)'
  BY DEF Backed, TokensConsistent
<1>5. QED
  BY <1>1, <1>2, <1>3, <1>4

\* Dev login closes all sessions of its user at once.
LEMMA InvalidateOwnedKeeps == ASSUME IInv, NEW r \in Reqs, InvalidateOwned(r) PROVE IInv'
<1>1. ReqTyped'
  BY GotoMoves DEF InvalidateOwned, At, Moved, Awaits
<1>2. TypeOK'
  BY <1>1 DEF IInv, TypeOK, ReqTyped, InvalidateOwned, Active, tokens, cache, db
<1> USE NoneIsFresh DEF IInv, TypeOK, Carries, NeedsSid, Request, Idle, Kinds, LoginKinds,
        LogoutKinds, Awaits, InvalidateOwned, At, Active, Goto, tokens, cache, db
<1>3. TokensConsistent' /\ MarkedStaysOut' /\ \A s \in marked' : owner'[s] # None
  BY DEF TokensConsistent, MarkedStaysOut, Backed
<1>4. Displaced'
  BY DEF Displaced
<1>5. ASSUME NEW q \in Reqs PROVE Carries(q)'
  BY DEF Backed, TokensConsistent
<1>6. QED
  BY <1>2, <1>3, <1>4, <1>5

\* A session created together with its hash is consistent at once.
LEMMA CreateHashedKeeps == ASSUME IInv, NEW r \in Reqs, CreateHashed(r) PROVE IInv'
<1> USE NoneIsFresh DEF IInv, TypeOK, Carries, NeedsSid, Request, Idle, Kinds, LoginKinds,
        LogoutKinds, Awaits, CreateHashed, At, tokens, cache, db
<1>1. TypeOK'
  OBVIOUS
<1>2. TokensConsistent' /\ MarkedStaysOut' /\ \A s \in marked' : owner'[s] # None
  BY DEF TokensConsistent, MarkedStaysOut, Backed
<1>3. Displaced'
  BY DEF Displaced
<1>4. ASSUME NEW q \in Reqs PROVE Carries(q)'
  BY DEF Backed, TokensConsistent
<1>5. QED
  BY <1>1, <1>2, <1>3, <1>4

\* Rotation writes the hash of a token signed for the same session and never isValid.
LEMMA RotateKeeps == ASSUME IInv, NEW r \in Reqs, Rotate(r) PROVE IInv'
<1> USE NoneIsFresh DEF IInv, TypeOK, Carries, NeedsSid, Request, Idle, Kinds, LoginKinds,
        LogoutKinds, Awaits, Rotate, At, tokens, cache, db
<1>1. TypeOK'
  OBVIOUS
<1>2. TokensConsistent' /\ MarkedStaysOut' /\ \A s \in marked' : owner'[s] # None
  BY DEF TokensConsistent, MarkedStaysOut, Backed
<1>3. Displaced'
  BY DEF Displaced
<1>4. ASSUME NEW q \in Reqs PROVE Carries(q)'
  BY DEF Backed, TokensConsistent
<1>5. QED
  BY <1>1, <1>2, <1>3, <1>4

\* Closing an expired session only shrinks the valid ones.
LEMMA ExpireRowKeeps == ASSUME IInv, NEW r \in Reqs, ExpireRow(r) PROVE IInv'
<1> USE NoneIsFresh DEF IInv, TypeOK, Carries, NeedsSid, Request, Idle, Kinds, LoginKinds,
        LogoutKinds, Awaits, ExpireRow, At, Finish, tokens, cache, db
<1>1. TypeOK'
  OBVIOUS
<1>2. TokensConsistent' /\ MarkedStaysOut' /\ \A s \in marked' : owner'[s] # None
  BY DEF TokensConsistent, MarkedStaysOut, Backed
<1>3. Displaced'
  BY DEF Displaced
<1>4. ASSUME NEW q \in Reqs PROVE Carries(q)'
  BY DEF Backed, TokensConsistent
<1>5. QED
  BY <1>1, <1>2, <1>3, <1>4

\* The sessions a logout reads are the user's own.
LEMMA FindAllKeeps == ASSUME IInv, NEW r \in Reqs, FindAll(r) PROVE IInv'
<1> DEFINE leaving == [req[r] EXCEPT !.pc = "invalidateAll", !.ids = Active(req[r].user)]
<1>1. req[r] \in Request /\ req[r].user \in Users /\ Active(req[r].user) \subseteq Sids
  BY DEF FindAll, At, IInv, TypeOK, Idle, Active
<1>2. /\ TokensConsistent' /\ MarkedStaysOut' /\ \A s \in marked' : owner'[s] # None
      /\ ReqTyped' => TypeOK'
  BY DEF IInv, TypeOK, ReqTyped, TokensConsistent, MarkedStaysOut, Backed, FindAll, tokens, cache, db
<1>3. CASE Active(req[r].user) = {}
  <2>1. PICK l \in {"createSession", "clearInfo", "idle"} : Moved(r, l, {})
    BY <1>3, AfterMarksType, LeaveMoves DEF FindAll, At, Awaits
  <2>2. Displaced'
    BY <2>1 DEF IInv, Displaced, Moved, FindAll, At, Idle, db
  <2>3. ASSUME NEW p \in Reqs PROVE Carries(p)'
    BY <2>1 DEF IInv, Carries, Moved, FindAll, Idle, NeedsSid, Backed, tokens, cache, db
  <2>4. QED
    BY <1>2, <2>1, <2>2, <2>3 DEF IInv, Moved
<1>4. CASE Active(req[r].user) # {}
  <2>1. req' = [req EXCEPT ![r] = leaving]
    BY <1>4, <1>1 DEF FindAll, IInv, TypeOK
  <2>2. ReqTyped'
    <3>1. leaving \in Request /\ leaving.user \in Users
      BY <1>1 DEF Request, Awaits
    <3>2. QED
      BY <2>1, <3>1, ReplaceTyped
  <2>3. Displaced'
    BY <2>1, <1>1 DEF IInv, TypeOK, Displaced, FindAll, db, Request
  <2>4. ASSUME NEW p \in Reqs PROVE Carries(p)'
    BY <2>1, <1>1 DEF IInv, TypeOK, Carries, FindAll, NeedsSid, Active, Backed, tokens, cache, db, Request
  <2>5. QED
    BY <1>2, <2>2, <2>3, <2>4 DEF IInv
<1>5. QED
  BY <1>3, <1>4

\* Invalidating everything the user has covers the sessions read before.
LEMMA InvalidateAllKeeps == ASSUME IInv, NEW r \in Reqs, InvalidateAll(r) PROVE IInv'
<1>1. req[r].ids \in SUBSET Sids /\ \A s \in req[r].ids : owner[s] = req[r].user
  BY NoneIsFresh DEF IInv, TypeOK, Request, Carries, NeedsSid, InvalidateAll, At
<1>2. PICK l \in {"mark", "createSession", "clearInfo", "idle"}, T \in SUBSET req[r].ids : Moved(r, l, T)
  BY <1>1, ThenMarkMoves DEF InvalidateAll, At
<1>3. TypeOK'
  BY <1>2 DEF IInv, TypeOK, InvalidateAll, Active, Moved, ReqTyped, tokens, cache
<1>4. TokensConsistent' /\ MarkedStaysOut' /\ \A s \in marked' : owner'[s] # None
  BY DEF IInv, TokensConsistent, MarkedStaysOut, Backed, InvalidateAll, Active, tokens, cache
<1>5. Displaced'
  BY <1>1, <1>2 DEF IInv, TypeOK, Carries, Displaced, Moved, InvalidateAll, Active, At, Idle
<1>6. ASSUME NEW q \in Reqs PROVE Carries(q)'
  BY <1>1, <1>2 DEF IInv, TypeOK, Carries, Moved, InvalidateAll, Active, Idle, NeedsSid, Backed, tokens, cache
<1>7. QED
  BY <1>3, <1>4, <1>5, <1>6 DEF IInv

\* Checking the mark writes nothing.
LEMMA CheckMarkKeeps == ASSUME IInv, NEW r \in Reqs, CheckMark(r) PROVE IInv'
<1>1. ReqTyped'
  BY GotoMoves, FinishMoves DEF CheckMark, At, Moved, Awaits
<1>2. TypeOK'
  BY <1>1 DEF IInv, TypeOK, ReqTyped, CheckMark, tokens, cache, db
<1> USE NoneIsFresh DEF IInv, TypeOK, Carries, NeedsSid, Request, Idle, Kinds, LoginKinds,
        LogoutKinds, Awaits, CheckMark, At, Goto, Finish, tokens, cache, db
<1>3. TokensConsistent' /\ MarkedStaysOut' /\ \A s \in marked' : owner'[s] # None
  BY DEF TokensConsistent, MarkedStaysOut, Backed
<1>4. Displaced'
  BY DEF Displaced
<1>5. ASSUME NEW q \in Reqs PROVE Carries(q)'
  BY DEF Backed, TokensConsistent
<1>6. QED
  BY <1>2, <1>3, <1>4, <1>5

\* Reading the cached login writes nothing.
LEMMA ReadInfoKeeps == ASSUME IInv, NEW r \in Reqs, ReadInfo(r) PROVE IInv'
<1>1. ReqTyped'
  BY GotoMoves DEF ReadInfo, At, Moved, Awaits, LogoutBody
<1>2. TypeOK'
  BY <1>1 DEF IInv, TypeOK, ReqTyped, ReadInfo, tokens, cache, db
<1> USE NoneIsFresh DEF IInv, TypeOK, Carries, NeedsSid, Request, Idle, Kinds, LoginKinds,
        LogoutKinds, Awaits, ReadInfo, At, Goto, LogoutBody, tokens, cache, db
<1>3. TokensConsistent' /\ MarkedStaysOut' /\ \A s \in marked' : owner'[s] # None
  BY DEF TokensConsistent, MarkedStaysOut, Backed
<1>4. Displaced'
  BY DEF Displaced
<1>5. ASSUME NEW q \in Reqs PROVE Carries(q)'
  BY DEF Backed, TokensConsistent
<1>6. QED
  BY <1>2, <1>3, <1>4, <1>5

\* Reading the session row writes nothing.
LEMMA ReadRowKeeps == ASSUME IInv, NEW r \in Reqs, ReadRow(r) PROVE IInv'
<1>1. ReqTyped'
  BY GotoMoves, FinishMoves DEF ReadRow, At, Moved, Awaits, LogoutBody
<1>2. TypeOK'
  BY <1>1 DEF IInv, TypeOK, ReqTyped, ReadRow, tokens, cache, db
<1> USE NoneIsFresh DEF IInv, TypeOK, Carries, NeedsSid, Request, Idle, Kinds, LoginKinds,
        LogoutKinds, Awaits, ReadRow, At, Goto, Finish, LogoutBody, tokens, cache, db
<1>3. TokensConsistent' /\ MarkedStaysOut' /\ \A s \in marked' : owner'[s] # None
  BY DEF TokensConsistent, MarkedStaysOut, Backed
<1>4. Displaced'
  BY DEF Displaced
<1>5. ASSUME NEW q \in Reqs PROVE Carries(q)'
  BY DEF Backed, TokensConsistent
<1>6. QED
  BY <1>2, <1>3, <1>4, <1>5

\* Caching a validated login touches no row.
LEMMA CacheValidatedKeeps == ASSUME IInv, NEW r \in Reqs, CacheValidated(r) PROVE IInv'
<1>1. ReqTyped'
  BY GotoMoves DEF CacheValidated, At, Moved, Awaits, LogoutBody
<1>2. TypeOK'
  BY <1>1 DEF IInv, TypeOK, ReqTyped, CacheValidated, At, Idle, tokens, cache, db, CacheWrites
<1> USE NoneIsFresh DEF IInv, TypeOK, Carries, NeedsSid, Request, Idle, Kinds, LoginKinds,
        LogoutKinds, Awaits, CacheValidated, At, CacheWrites, Goto, LogoutBody, tokens, cache, db
<1>3. TokensConsistent' /\ MarkedStaysOut' /\ \A s \in marked' : owner'[s] # None
  BY DEF TokensConsistent, MarkedStaysOut, Backed
<1>4. Displaced'
  BY DEF Displaced
<1>5. ASSUME NEW q \in Reqs PROVE Carries(q)'
  BY DEF Backed, TokensConsistent
<1>6. QED
  BY <1>2, <1>3, <1>4, <1>5

\* A single logout has one session out and that one to mark.
LEMMA InvalidateOneKeeps == ASSUME IInv, NEW r \in Reqs, InvalidateOne(r) PROVE IInv'
<1>1. {req[r].sid} \in SUBSET Sids /\ \A s \in {req[r].sid} : owner[s] = req[r].user
  BY NoneIsFresh DEF IInv, TypeOK, Request, Carries, NeedsSid, InvalidateOne, At
<1>2. PICK l \in {"mark", "createSession", "clearInfo", "idle"}, T \in SUBSET {req[r].sid} : Moved(r, l, T)
  BY <1>1, ThenMarkMoves DEF InvalidateOne, At
<1>3. TypeOK'
  BY <1>2 DEF IInv, TypeOK, InvalidateOne, Moved, ReqTyped, tokens, cache
<1>4. TokensConsistent' /\ MarkedStaysOut' /\ \A s \in marked' : owner'[s] # None
  BY DEF IInv, TokensConsistent, MarkedStaysOut, Backed, InvalidateOne, tokens, cache
<1>5. Displaced'
  BY <1>1, <1>2 DEF IInv, TypeOK, Carries, Displaced, Moved, InvalidateOne, At, Idle
<1>6. ASSUME NEW q \in Reqs PROVE Carries(q)'
  BY <1>1, <1>2 DEF IInv, TypeOK, Carries, Moved, InvalidateOne, Idle, NeedsSid, Backed, tokens, cache
<1>7. QED
  BY <1>3, <1>4, <1>5, <1>6 DEF IInv

\* Deleting the cached login touches no row.
LEMMA ClearInfoKeeps == ASSUME IInv, NEW r \in Reqs, ClearInfo(r) PROVE IInv'
<1> USE NoneIsFresh DEF IInv, TypeOK, Carries, NeedsSid, Request, Idle, Kinds, LoginKinds,
        LogoutKinds, Awaits, ClearInfo, At, CacheWrites, Finish, tokens, cache, db
<1>1. TypeOK'
  OBVIOUS
<1>2. TokensConsistent' /\ MarkedStaysOut' /\ \A s \in marked' : owner'[s] # None
  BY DEF TokensConsistent, MarkedStaysOut, Backed
<1>3. Displaced'
  BY DEF Displaced
<1>4. ASSUME NEW q \in Reqs PROVE Carries(q)'
  BY DEF Backed, TokensConsistent
<1>5. QED
  BY <1>1, <1>2, <1>3, <1>4

\* A request that dies leaves the tables as its last statement left them.
LEMMA DieKeeps == ASSUME IInv, NEW r \in Reqs, Die(r) PROVE IInv'
<1> USE NoneIsFresh DEF IInv, TypeOK, Carries, NeedsSid, Request, Idle, Kinds, LoginKinds,
        LogoutKinds, Awaits, Die, At, Finish, tokens, cache, db
<1>1. TypeOK'
  OBVIOUS
<1>2. TokensConsistent' /\ MarkedStaysOut' /\ \A s \in marked' : owner'[s] # None
  BY DEF TokensConsistent, MarkedStaysOut, Backed
<1>3. Displaced'
  BY DEF Displaced
<1>4. ASSUME NEW q \in Reqs PROVE Carries(q)'
  BY DEF Backed, TokensConsistent
<1>5. QED
  BY <1>1, <1>2, <1>3, <1>4

\* Time passing closes nothing by itself.
LEMMA ExpireKeeps == ASSUME IInv, NEW s \in Sids, Expire(s) PROVE IInv'
BY DEF IInv, TypeOK, TokensConsistent, Displaced, MarkedStaysOut, Carries, Backed, Expire,
   tokens, cache

\* A cached login running out touches no row.
LEMMA InfoExpiresKeeps == ASSUME IInv, NEW u \in Users, InfoExpires(u) PROVE IInv'
BY DEF IInv, TypeOK, TokensConsistent, Displaced, MarkedStaysOut, Carries, Backed, InfoExpires,
   tokens, db

\* Stuttering keeps the invariant.
LEMMA UnchangedKeeps == ASSUME IInv, UNCHANGED vars PROVE IInv'
BY DEF IInv, TypeOK, TokensConsistent, Displaced, MarkedStaysOut, Carries, Backed, vars,
   db, tokens, cache

\* Every step keeps the invariant.
LEMMA NextKeeps == IInv /\ [Next]_vars => IInv'
<1> SUFFICES ASSUME IInv, [Next]_vars PROVE IInv'
  OBVIOUS
<1>1. ASSUME NEW r \in Reqs, Start(r) PROVE IInv'
  BY <1>1, GoogleLoginKeeps, DevSignupKeeps, DevLoginKeeps, RefreshTokensKeeps, LogoutKeeps,
     UnchangedKeeps DEF Start, Refuse
<1>2. ASSUME NEW r \in Reqs, Step(r) PROVE IInv'
  BY <1>2, FindByEmailKeeps, CreateUserKeeps, FindActiveKeeps, InvalidateSeenKeeps, MarkKeeps,
     CreateSessionKeeps, StoreHashKeeps, CacheInfoKeeps, RespondKeeps, InvalidateOwnedKeeps,
     CreateHashedKeeps, RotateKeeps, ExpireRowKeeps, FindAllKeeps, InvalidateAllKeeps,
     CheckMarkKeeps, ReadInfoKeeps, ReadRowKeeps, CacheValidatedKeeps, InvalidateOneKeeps,
     ClearInfoKeeps DEF Step
<1>3. QED
  BY <1>1, <1>2, DieKeeps, ExpireKeeps, InfoExpiresKeeps, UnchangedKeeps DEF Next

\* The inductive invariant holds in every reachable state of the auth service.
THEOREM Invariance == Spec => []IInv
<1>1. QED
  BY InitIInv, NextKeeps, PTL DEF Spec

\* Type correctness.
THEOREM TypeCorrect == Spec => []TypeOK
BY Invariance, PTL DEF IInv

\* Stored hashes and the tokens clients hold belong together, however many
\* requests overlap and wherever they die.
THEOREM TokensStayConsistent == Spec => []TokensConsistent
BY Invariance, PTL DEF IInv

\* Sessions displaced by a login, a logout from all devices or a reused token stay
\* out, whatever refresh was in flight.
THEOREM DisplacedStayOut == Spec => []Displaced
BY Invariance, PTL DEF IInv

\* The cache's session_invalid keys never contradict a valid row.
THEOREM MarksNeverContradict == Spec => []MarkedStaysOut
BY Invariance, PTL DEF IInv

-----------------------------------------------------------------------------
(* Refinement of SessionLifecycle *)

\* A step that leaves the session rows alone is a stutter of SessionLifecycle.
LEMMA RowsKept ==
  ASSUME UNCHANGED <<owner, valid>> PROVE [Lifecycle!Next]_(Lifecycle!vars)
BY DEF Lifecycle!vars

\* Closing sessions of one user is a Close step of SessionLifecycle.
LEMMA Closes ==
  ASSUME NEW u \in Users, NEW S, \A s \in S \cap valid : owner[s] = u,
         valid' = valid \ S, owner' = owner
  PROVE  Lifecycle!Next
<1> DEFINE T == S \cap valid
<1>1. T \in SUBSET {s \in valid : owner[s] = u} /\ valid' = valid \ T
  OBVIOUS
<1>2. Lifecycle!Close(T)
  BY <1>1 DEF Lifecycle!Close
<1>3. QED
  BY <1>1, <1>2 DEF Lifecycle!Next

\* Every step opens one session, closes some of one user, or leaves the rows alone.
LEMMA StepRefines ==
  ASSUME IInv, NEW r \in Reqs, Step(r) PROVE [Lifecycle!Next]_(Lifecycle!vars)
<1>1. ASSUME req[r].pc # "idle" PROVE req[r].user \in Users
  BY <1>1 DEF IInv, TypeOK, Idle
<1>2. CASE CreateSession(r) \/ CreateHashed(r)
  BY <1>1, <1>2 DEF CreateSession, CreateHashed, At, Lifecycle!Next, Lifecycle!Open
<1>3. CASE InvalidateSeen(r)
  BY <1>1, <1>3, Closes DEF InvalidateSeen, At, IInv, Carries
<1>4. CASE InvalidateOwned(r) \/ InvalidateAll(r)
  BY <1>1, <1>4, Closes DEF InvalidateOwned, InvalidateAll, Active, At
<1>5. CASE InvalidateOne(r) \/ ExpireRow(r)
  BY <1>1, <1>5, Closes DEF InvalidateOne, ExpireRow, At, IInv, Carries, NeedsSid
<1>6. CASE \/ FindByEmail(r) \/ CreateUser(r) \/ FindActive(r) \/ Mark(r) \/ StoreHash(r)
           \/ CacheInfo(r) \/ Respond(r) \/ Rotate(r) \/ FindAll(r) \/ CheckMark(r)
           \/ ReadInfo(r) \/ ReadRow(r) \/ CacheValidated(r) \/ ClearInfo(r)
  BY <1>6, RowsKept DEF FindByEmail, CreateUser, FindActive, Mark, StoreHash, CacheInfo, Respond,
     Rotate, FindAll, CheckMark, ReadInfo, ReadRow, CacheValidated, ClearInfo, db
<1>7. QED
  BY <1>2, <1>3, <1>4, <1>5, <1>6 DEF Step

\* So does every step of the service.
LEMMA NextRefines == IInv /\ [Next]_vars => [Lifecycle!Next]_(Lifecycle!vars)
<1> SUFFICES ASSUME IInv, [Next]_vars PROVE [Lifecycle!Next]_(Lifecycle!vars)
  OBVIOUS
<1>1. ASSUME NEW r \in Reqs, Start(r) PROVE UNCHANGED <<owner, valid>>
  BY <1>1 DEF Start, GoogleLogin, DevSignup, DevLogin, RefreshTokens, Logout, Refuse, vars, db
<1>2. ASSUME NEW r \in Reqs, Die(r) PROVE UNCHANGED <<owner, valid>>
  BY <1>2 DEF Die, db
<1>3. CASE \/ \E s \in Sids : Expire(s)
           \/ \E u \in Users : InfoExpires(u)
           \/ UNCHANGED vars
  BY <1>3, RowsKept DEF Expire, InfoExpires, vars, db
<1>4. QED
  BY <1>1, <1>2, <1>3, StepRefines, RowsKept DEF Next

\* No interleaving of the handlers reopens a session, moves it to another user or
\* closes sessions of two users in one step: the auth service implements the
\* session table of SessionLifecycle.
THEOREM Refinement == Spec => ImplementsLifecycle
<1>1. Init => Lifecycle!Init
  BY DEF Init, Lifecycle!Init
<1>2. QED
  BY <1>1, NextRefines, Invariance, PTL DEF Spec, ImplementsLifecycle, Lifecycle!Spec

\* Hence a closed session is never valid again and never changes hands.
THEOREM ClosedStaysClosed == Spec => Lifecycle!ClosedForGood
<1>1. IInv /\ [Lifecycle!Next]_(Lifecycle!vars) => [Lifecycle!KeepsClosed]_(Lifecycle!vars)
  BY DEF IInv, TypeOK, Lifecycle!Next, Lifecycle!Open, Lifecycle!Close, Lifecycle!vars,
     Lifecycle!KeepsClosed
<1>2. QED
  BY <1>1, Invariance, Refinement, PTL
     DEF ImplementsLifecycle, Lifecycle!Spec, Lifecycle!ClosedForGood

-----------------------------------------------------------------------------
(* Where the current token is *)

\* Request r is about to answer with the token whose hash session s stores.
Delivering(r, s) ==
  req[r].pc \in {"cacheInfo", "respond"} /\ req[r].tok = hash[s] /\ req[r].sid = s

\* CurrentTokenReachable, for closed sessions too and with the awaits of the
\* request that carries the token: the form that is inductive.
Reachable ==
  \A s \in Sids : hash[s] # None => hash[s] \in held \/ \E r \in Reqs : Delivering(r, s)

\* A request that is not about to answer may move as it likes while no hash changes.
LEMMA ElsewhereKeeps ==
  ASSUME Reachable, hash' = hash, held' = held, NEW r \in Reqs,
         req[r].pc \notin {"cacheInfo", "respond"}, \A q \in Reqs \ {r} : req'[q] = req[q]
  PROVE  Reachable'
BY DEF Reachable, Delivering

\* A new hash is stored by a request that from then on carries the token itself.
LEMMA NewTokenKeeps ==
  ASSUME IInv, Reachable, NEW r \in Reqs, StoreHash(r) \/ CreateHashed(r) \/ Rotate(r)
  PROVE  Reachable'
<1>1. PICK s \in Sids, t \in Tokens : /\ hash' = [hash EXCEPT ![s] = t]
                                      /\ req'[r].tok = t /\ req'[r].sid = s
                                      /\ req'[r].pc \in {"cacheInfo", "respond"}
  <2>1. req[r] \in Request /\ (At(r, "storeHash") \/ At(r, "rotate") => req[r].sid \in Sids)
    BY DEF At, IInv, TypeOK, Request, Carries, NeedsSid
  <2>2. CASE StoreHash(r)
    <3>1. PICK t \in Tokens :
            /\ hash' = [hash EXCEPT ![req[r].sid] = t]
            /\ req' = [req EXCEPT ![r].tok = t,
                                  ![r].pc = IF CacheAttached THEN "cacheInfo" ELSE "respond"]
      BY <2>2 DEF StoreHash
    <3>2. req'[r].tok = t /\ req'[r].sid = req[r].sid /\ req'[r].pc \in {"cacheInfo", "respond"}
      BY <2>1, <3>1 DEF IInv, TypeOK, Request
    <3>3. QED
      BY <2>1, <2>2, <3>1, <3>2 DEF StoreHash
  <2>3. CASE CreateHashed(r)
    <3>1. PICK s \in Sids, t \in Tokens :
            /\ hash' = [hash EXCEPT ![s] = t]
            /\ req' = [req EXCEPT ![r].sid = s, ![r].tok = t,
                                  ![r].pc = IF CacheAttached THEN "cacheInfo" ELSE "respond"]
      BY <2>3 DEF CreateHashed
    <3>2. req'[r].tok = t /\ req'[r].sid = s /\ req'[r].pc \in {"cacheInfo", "respond"}
      BY <2>1, <3>1 DEF IInv, TypeOK, Request
    <3>3. QED
      BY <3>1, <3>2
  <2>4. CASE Rotate(r)
    <3>1. PICK t \in Tokens :
            /\ hash' = [hash EXCEPT ![req[r].sid] = t]
            /\ req' = [req EXCEPT ![r].tok = t, ![r].pc = "respond"]
      BY <2>4 DEF Rotate
    <3>2. req'[r].tok = t /\ req'[r].sid = req[r].sid /\ req'[r].pc = "respond"
      BY <2>1, <3>1 DEF IInv, TypeOK, Request
    <3>3. QED
      BY <2>1, <2>4, <3>1, <3>2 DEF Rotate
  <2>5. QED
    BY <2>2, <2>3, <2>4
<1>2. held' = held /\ \A q \in Reqs \ {r} : req'[q] = req[q]
  BY DEF StoreHash, CreateHashed, Rotate, IInv, TypeOK
<1>3. req[r].pc \notin {"cacheInfo", "respond"}
  BY DEF StoreHash, CreateHashed, Rotate, At
<1>4. Delivering(r, s)'
  BY <1>1 DEF Delivering, IInv, TypeOK
<1>5. ASSUME NEW w \in Sids \ {s}, hash[w] # None
      PROVE hash[w] \in held' \/ \E q \in Reqs : Delivering(q, w)'
  BY <1>1, <1>2, <1>3, <1>5 DEF Reachable, Delivering, IInv, TypeOK
<1>6. \A w \in Sids \ {s} : hash'[w] = hash[w]
  BY <1>1 DEF IInv, TypeOK
<1>7. QED
  BY <1>4, <1>5, <1>6 DEF Reachable

\* The answer puts the token into the client's hands.
LEMMA RespondDelivers ==
  ASSUME IInv, Reachable, NEW r \in Reqs, CacheInfo(r) \/ Respond(r)
  PROVE  Reachable'
<1>1. CASE CacheInfo(r)
  BY <1>1 DEF CacheInfo, Goto, Reachable, Delivering, db, tokens, IInv, TypeOK, Request
<1>2. CASE Respond(r)
  BY <1>2 DEF Respond, Finish, Reachable, Delivering, db, IInv, TypeOK
<1>3. QED
  BY <1>1, <1>2

\* No step but the loss of an answer lets the current token go.
LEMMA ReachableKept ==
  ASSUME ~RequestsMayDie
  PROVE  IInv /\ Reachable /\ [Next]_vars => Reachable'
<1> SUFFICES ASSUME IInv, Reachable, [Next]_vars PROVE Reachable'
  OBVIOUS
<1>1. ASSUME NEW r \in Reqs, Start(r) PROVE Reachable'
  <2>1. CASE Refuse(r)
    BY <2>1 DEF Refuse, vars, db, tokens, Reachable, Delivering
  <2>2. CASE ~Refuse(r)
    <3>1. hash' = hash /\ held' = held /\ req[r] = Idle
      BY <1>1, <2>2 DEF Start, GoogleLogin, DevSignup, DevLogin, RefreshTokens, Logout, Begin,
         db, tokens
    <3>2. \A q \in Reqs \ {r} : req'[q] = req[q]
      BY <1>1, <2>2 DEF Start, GoogleLogin, DevSignup, DevLogin, RefreshTokens, Logout, Begin,
         IInv, TypeOK
    <3>3. QED
      BY <3>1, <3>2, ElsewhereKeeps DEF Idle
  <2>3. QED
    BY <2>1, <2>2
<1>2. ASSUME NEW r \in Reqs, FindByEmail(r) \/ CreateUser(r) \/ FindActive(r) \/ CheckMark(r)
                             \/ ReadInfo(r) \/ ReadRow(r) \/ CacheValidated(r) \/ ClearInfo(r)
                             \/ InvalidateOwned(r) \/ ExpireRow(r)
      PROVE Reachable'
  BY <1>2, ElsewhereKeeps DEF FindByEmail, CreateUser, FindActive, CheckMark, ReadInfo, ReadRow,
     CacheValidated, ClearInfo, InvalidateOwned, ExpireRow, At, Goto, Finish, db, tokens, IInv, TypeOK
<1>3. ASSUME NEW r \in Reqs, InvalidateSeen(r) \/ Mark(r) \/ FindAll(r) \/ InvalidateAll(r)
                             \/ InvalidateOne(r)
      PROVE Reachable'
  BY <1>3, ElsewhereKeeps DEF InvalidateSeen, Mark, FindAll, InvalidateAll, InvalidateOne, ThenMark,
     Leave, At, db, tokens, IInv, TypeOK
<1>8. ASSUME NEW r \in Reqs, CreateSession(r) PROVE Reachable'
  BY <1>8, ElsewhereKeeps DEF CreateSession, At, tokens, IInv, TypeOK
<1>4. ASSUME NEW r \in Reqs, Step(r) PROVE Reachable'
  BY <1>2, <1>3, <1>8, <1>4, NewTokenKeeps, RespondDelivers DEF Step
<1>5. CASE (\E s \in Sids : Expire(s)) \/ (\E u \in Users : InfoExpires(u)) \/ UNCHANGED vars
  BY <1>5 DEF Expire, InfoExpires, vars, db, tokens, Reachable, Delivering
<1>6. ASSUME NEW r \in Reqs PROVE ~Die(r)
  BY DEF Die
<1>7. QED
  BY <1>1, <1>4, <1>5, <1>6 DEF Next

\* Where no answer is lost, the token whose hash is stored is with a client or on its
\* way to one, however many refreshes, logins and logouts overlap: a reuse alarm
\* always has a second holder behind it (auth.service.ts:274-302).
THEOREM CurrentTokenStaysReachable ==
  ASSUME ~RequestsMayDie
  PROVE  Spec => []CurrentTokenReachable
<1>1. Init => Reachable
  BY DEF Init, Reachable
<1>2. IInv /\ Reachable => CurrentTokenReachable
  BY DEF IInv, TypeOK, Reachable, Delivering, CurrentTokenReachable
<1>3. QED
  BY <1>1, <1>2, ReachableKept, Invariance, PTL DEF Spec

-----------------------------------------------------------------------------
(* How many sessions overlapping logins leave *)

\* The sessions A are accounted for by fewer than MaxDevices of them, K, and one request
\* each for the others: f.  Of the requests Q that are about to add to A, each has looked
\* at A once, at E[q], and leaves fewer than MaxDevices of what it saw; what was seen
\* later includes what was seen earlier; and a request that already accounts for a
\* session looked after that one and all of K were there.
Accounts(A, Q, ids, K, f, E) ==
  /\ IsFiniteSet(K) /\ Cardinality(K) < MaxDevices
  /\ \A s, t \in A \ K : f[s] = f[t] => s = t
  /\ \A q \in Q : Cardinality(E[q] \ ids[q]) < MaxDevices
  /\ \A p, q \in Q : E[p] \subseteq E[q] \/ E[q] \subseteq E[p]
  /\ \A s \in A \ K : f[s] \in Q => s \in E[f[s]] /\ K \subseteq E[f[s]]

\* There is such an account.
Explained(A, Q, ids) ==
  \E K \in SUBSET A : \E f \in [A \ K -> Reqs], E \in [Q -> SUBSET A] :
    Accounts(A, Q, ids, K, f, E)

\* What is explained is no more than the theorem says.
LEMMA ExplainedBound ==
  ASSUME NEW A, NEW Q, NEW ids, Explained(A, Q, ids)
  PROVE  IsFiniteSet(A) /\ Cardinality(A) < MaxDevices + Cardinality(Reqs)
<1>0. PICK K \in SUBSET A : \E f \in [A \ K -> Reqs], E \in [Q -> SUBSET A] :
        Accounts(A, Q, ids, K, f, E)
  BY DEF Explained
<1>1. PICK f \in [A \ K -> Reqs] :
        /\ IsFiniteSet(K) /\ Cardinality(K) < MaxDevices
        /\ \A s, t \in A \ K : f[s] = f[t] => s = t
  BY <1>0 DEF Accounts
<1> DEFINE B == A \ K
<1>2. f \in Injection(B, Reqs)
  BY <1>1 DEF Injection, IsInjective
<1>3. A = K \cup B /\ K \cap B = {}
  BY <1>1
<1> HIDE DEF B
<1>4. IsFiniteSet(B) /\ Cardinality(B) <= Cardinality(Reqs)
  BY <1>2, ReqsFinite, FS_Injection
<1>5. IsFiniteSet(A) /\ Cardinality(A) = Cardinality(K) + Cardinality(B) - Cardinality({})
  BY <1>1, <1>3, <1>4, FS_Union
<1>6. /\ Cardinality({}) = 0 /\ Cardinality(K) \in Nat /\ Cardinality(B) \in Nat
      /\ Cardinality(Reqs) \in Nat
  BY <1>1, <1>4, ReqsFinite, FS_EmptySet, FS_CardinalityType
<1>7. QED
  BY <1>1, <1>4, <1>5, <1>6, Limits

\* A smaller set is at most as large.
LEMMA Fewer ==
  ASSUME NEW S, IsFiniteSet(S), NEW T \in SUBSET S, Cardinality(S) < MaxDevices
  PROVE  IsFiniteSet(T) /\ Cardinality(T) < MaxDevices
<1>1. IsFiniteSet(T) /\ Cardinality(T) <= Cardinality(S)
  BY FS_Subset
<1>2. Cardinality(T) \in Nat /\ Cardinality(S) \in Nat
  BY <1>1, FS_CardinalityType
<1>3. QED
  BY <1>1, <1>2, Limits

\* Sessions that close and requests that give up take their part of the account along.
LEMMA ExplainedLess ==
  ASSUME NEW A, NEW Q, NEW ids, Explained(A, Q, ids),
         NEW B \in SUBSET A, NEW P \in SUBSET Q, NEW new, \A q \in P : new[q] = ids[q]
  PROVE  Explained(B, P, new)
<1>0. PICK K \in SUBSET A : \E f \in [A \ K -> Reqs], E \in [Q -> SUBSET A] :
        Accounts(A, Q, ids, K, f, E)
  BY DEF Explained
<1>1. PICK f \in [A \ K -> Reqs], E \in [Q -> SUBSET A] : Accounts(A, Q, ids, K, f, E)
  BY <1>0
<1>2. IsFiniteSet(A)
  BY ExplainedBound
<1> DEFINE L == K \cap B
           g == [s \in B \ L |-> f[s]]
           F == [q \in P |-> E[q] \cap B]
<1>3. B \ L \subseteq A \ K /\ L \in SUBSET B /\ L \in SUBSET K
  OBVIOUS
<1>4. g \in [B \ L -> Reqs] /\ \A s, t \in B \ L : g[s] = g[t] => s = t
  BY <1>1, <1>3 DEF Accounts
<1>5. IsFiniteSet(L) /\ Cardinality(L) < MaxDevices
  <2> HIDE DEF L
  <2>1. QED
    BY <1>1, <1>3, Fewer DEF Accounts
<1>6. ASSUME NEW q \in P PROVE Cardinality(F[q] \ new[q]) < MaxDevices
  <2>1. Cardinality(E[q] \ ids[q]) < MaxDevices
    BY <1>1 DEF Accounts
  <2>2. E[q] \ ids[q] \in SUBSET A
    BY <1>1
  <2>3. IsFiniteSet(E[q] \ ids[q])
    BY <1>2, <2>2, FS_Subset
  <2>4. F[q] \ new[q] \in SUBSET (E[q] \ ids[q])
    BY <1>6
  <2> HIDE DEF F
  <2>5. QED
    BY <2>1, <2>3, <2>4, Fewer
<1>7. F \in [P -> SUBSET B]
  OBVIOUS
<1>8. \A p, q \in P : F[p] \subseteq F[q] \/ F[q] \subseteq F[p]
  BY <1>1 DEF Accounts
<1>9. ASSUME NEW s \in B \ L, g[s] \in P PROVE s \in F[g[s]] /\ L \subseteq F[g[s]]
  <2>1. g[s] = f[s] /\ s \in A \ K /\ f[s] \in Q /\ f[s] \in P
    BY <1>3, <1>9
  <2>2. s \in E[f[s]] /\ K \subseteq E[f[s]]
    BY <1>1, <2>1 DEF Accounts
  <2>3. F[f[s]] = E[f[s]] \cap B
    BY <2>1
  <2>4. QED
    BY <2>1, <2>2, <2>3
<1> HIDE DEF L, g, F
<1>10. Accounts(B, P, new, L, g, F)
  BY <1>4, <1>5, <1>6, <1>8, <1>9 DEF Accounts
<1>11. QED
  BY <1>3, <1>4, <1>7, <1>10 DEF Explained

\* A request that has just looked has seen everything.
LEMMA ExplainedJoin ==
  ASSUME NEW A, NEW Q, NEW ids, Explained(A, Q, ids), NEW r, NEW new,
         Cardinality(A \ new[r]) < MaxDevices, \A q \in Q \ {r} : new[q] = ids[q]
  PROVE  Explained(A, Q \cup {r}, new)
<1>0. PICK K \in SUBSET A : \E f \in [A \ K -> Reqs], E \in [Q -> SUBSET A] :
        Accounts(A, Q, ids, K, f, E)
  BY DEF Explained
<1>1. PICK f \in [A \ K -> Reqs], E \in [Q -> SUBSET A] : Accounts(A, Q, ids, K, f, E)
  BY <1>0
<1> DEFINE P == Q \cup {r}
           F == [q \in P |-> IF q = r THEN A ELSE E[q]]
<1>2. F \in [P -> SUBSET A] /\ F[r] = A /\ \A q \in P \ {r} : F[q] = E[q] /\ q \in Q
  OBVIOUS
<1> HIDE DEF F
<1>3. ASSUME NEW q \in P PROVE Cardinality(F[q] \ new[q]) < MaxDevices
  <2>1. CASE q = r
    BY <1>2, <2>1
  <2>2. CASE q # r
    BY <1>1, <1>2, <2>2 DEF Accounts
  <2>3. QED
    BY <2>1, <2>2
<1>4. ASSUME NEW p \in P, NEW q \in P PROVE F[p] \subseteq F[q] \/ F[q] \subseteq F[p]
  <2>1. CASE p = r \/ q = r
    <3>1. F[p] \subseteq A /\ F[q] \subseteq A
      BY <1>2
    <3>2. QED
      BY <1>2, <2>1, <3>1
  <2>2. CASE p # r /\ q # r
    BY <1>1, <1>2, <2>2 DEF Accounts
  <2>3. QED
    BY <2>1, <2>2
<1>5. ASSUME NEW s \in A \ K, f[s] \in P PROVE s \in F[f[s]] /\ K \subseteq F[f[s]]
  <2>1. CASE f[s] = r
    BY <1>2, <2>1
  <2>2. CASE f[s] # r
    BY <1>1, <1>2, <1>5, <2>2 DEF Accounts
  <2>3. QED
    BY <2>1, <2>2
<1> HIDE DEF P
<1>6. Accounts(A, P, new, K, f, F)
  BY <1>1, <1>3, <1>4, <1>5 DEF Accounts
<1>7. QED
  BY <1>2, <1>6 DEF Explained, P

\* A request adds its session.  If it accounts for none, it accounts for this one.
\* Otherwise its look starts a new account: what it saw and left is few, and each session
\* that came since is the first of another request.
LEMMA ExplainedMore ==
  ASSUME NEW A, NEW Q, NEW ids, Explained(A, Q, ids), NEW r \in Reqs, r \in Q,
         ids[r] \cap A = {}, NEW s, s \notin A
  PROVE  Explained(A \cup {s}, Q \ {r}, ids)
<1>0. PICK K \in SUBSET A : \E f \in [A \ K -> Reqs], E \in [Q -> SUBSET A] :
        Accounts(A, Q, ids, K, f, E)
  BY DEF Explained
<1>1. PICK f \in [A \ K -> Reqs], E \in [Q -> SUBSET A] : Accounts(A, Q, ids, K, f, E)
  BY <1>0
<1> DEFINE B == A \cup {s}
           P == Q \ {r}
           F == [q \in P |-> E[q]]
<1>2. ASSUME NEW L \in SUBSET A, IsFiniteSet(L), Cardinality(L) < MaxDevices, A \ L \subseteq A \ K,
             \A a \in A \ L : f[a] # r,
             \A a \in A \ L : f[a] \in P => L \subseteq E[f[a]]
      PROVE  Explained(B, P, ids)
  <2> DEFINE g == [a \in B \ L |-> IF a = s THEN r ELSE f[a]]
  <2>1. B \ L = (A \ L) \cup {s} /\ s \notin L /\ L \in SUBSET B
    OBVIOUS
  <2>2. g \in [B \ L -> Reqs] /\ g[s] = r /\ \A a \in A \ L : g[a] = f[a] /\ a \in A \ K
    BY <1>2, <2>1
  <2> HIDE DEF g
  <2>3. ASSUME NEW a \in B \ L, NEW b \in B \ L, g[a] = g[b] PROVE a = b
    <3>1. CASE a \in A \ L /\ b \in A \ L
      BY <1>1, <2>2, <2>3, <3>1 DEF Accounts
    <3>2. CASE a = s \/ b = s
      BY <1>2, <2>1, <2>2, <2>3, <3>2
    <3>3. QED
      BY <2>1, <3>1, <3>2
  <2>4. F \in [P -> SUBSET B] /\ \A q \in P : F[q] = E[q]
    BY <1>1
  <2> HIDE DEF F
  <2>5. ASSUME NEW q \in P PROVE Cardinality(F[q] \ ids[q]) < MaxDevices
    BY <1>1, <2>4 DEF Accounts
  <2>6. ASSUME NEW p \in P, NEW q \in P PROVE F[p] \subseteq F[q] \/ F[q] \subseteq F[p]
    BY <1>1, <2>4 DEF Accounts
  <2>7. ASSUME NEW a \in B \ L, g[a] \in P PROVE a \in F[g[a]] /\ L \subseteq F[g[a]]
    <3>1. a # s /\ a \in A \ L
      BY <2>1, <2>2, <2>7
    <3>2. g[a] = f[a] /\ a \in A \ K /\ f[a] \in P
      BY <2>2, <2>7, <3>1
    <3>3. a \in E[f[a]]
      BY <1>1, <3>2 DEF Accounts
    <3>4. L \subseteq E[f[a]]
      BY <1>2, <3>1, <3>2
    <3>5. QED
      BY <2>4, <3>2, <3>3, <3>4
  <2> HIDE DEF B, P
  <2>8. Accounts(B, P, ids, L, g, F)
    BY <1>2, <2>3, <2>5, <2>6, <2>7 DEF Accounts
  <2>9. QED
    BY <2>1, <2>2, <2>4, <2>8 DEF Explained
<1>3. CASE \A a \in A \ K : f[a] # r
  <2>1. \A a \in A \ K : f[a] \in P => K \subseteq E[f[a]]
    BY <1>1 DEF Accounts
  <2>2. IsFiniteSet(K) /\ Cardinality(K) < MaxDevices
    BY <1>1 DEF Accounts
  <2> HIDE DEF B, P, F
  <2>3. Explained(B, P, ids)
    BY <1>2, <1>3, <2>1, <2>2
  <2>4. QED
    BY <2>3 DEF B, P
<1>4. CASE ~(\A a \in A \ K : f[a] # r)
  <2>1. PICK c \in A \ K : f[c] = r
    BY <1>4
  <2>2. K \subseteq E[r] /\ c \in E[r] /\ E[r] \in SUBSET A
    BY <1>1, <2>1 DEF Accounts
  <2>3. E[r] \ ids[r] = E[r]
    BY <2>2
  <2>4. Cardinality(E[r]) < MaxDevices
    <3>1. Cardinality(E[r] \ ids[r]) < MaxDevices
      BY <1>1 DEF Accounts
    <3>2. QED
      BY <2>3, <3>1
  <2>5. IsFiniteSet(E[r])
    <3>1. IsFiniteSet(A)
      BY ExplainedBound
    <3>2. QED
      BY <2>2, <3>1, FS_Subset
  <2>6. A \ E[r] \subseteq A \ K
    BY <2>2
  <2>7. \A a \in A \ E[r] : f[a] # r
    BY <1>1, <2>1, <2>2, <2>6 DEF Accounts
  <2>8. ASSUME NEW a \in A \ E[r], f[a] \in P PROVE E[r] \subseteq E[f[a]]
    <3>1. a \in E[f[a]] /\ f[a] \in Q
      BY <1>1, <2>6, <2>8 DEF Accounts
    <3>2. E[r] \subseteq E[f[a]] \/ E[f[a]] \subseteq E[r]
      BY <1>1, <3>1 DEF Accounts
    <3>3. QED
      BY <3>1, <3>2
  <2> HIDE DEF B, P, F
  <2>9. Explained(B, P, ids)
    BY <1>2, <2>2, <2>4, <2>5, <2>6, <2>7, <2>8
  <2>10. QED
    BY <2>9 DEF B, P
<1>5. QED
  BY <1>3, <1>4

-----------------------------------------------------------------------------
(* The requests that are about to create a session *)

Seeks(q) ==
  q.pc \in {"invalidateSeen", "createSession", "createHashed"} \/ (q.pc = "mark" /\ q.kind = "google")
Seekers(u) == {q \in Reqs : Seeks(req[q]) /\ req[q].user = u}
Seen == [q \in Reqs |-> req[q].ids]

\* Which handler a request is in, and that the row of a user outlives no lookup of it.
GoogleAwaits == {"findByEmail", "createUser", "findActive", "invalidateSeen", "mark",
                 "createSession", "storeHash", "cacheInfo", "respond"}

RowsFirst ==
  /\ \A q \in Reqs : req[q].kind = "google" => req[q].pc \in GoogleAwaits
  /\ \A s \in Sids : owner[s] # None => account[owner[s]] # "absent"
  /\ \A q \in Reqs : Seeks(req[q]) \/ req[q].pc \in {"findActive", "invalidateOwned"} =>
       account[req[q].user] # "absent"

\* Every user's sessions are explained by the requests about to add to them.
AllExplained == \A u \in Users : Explained(Active(u), Seekers(u), Seen)

\* A step after which no session is new and no further request is about to create one.
Quiet ==
  /\ valid' \subseteq valid /\ owner' = owner
  /\ \A q \in Reqs : Seeks(req'[q]) =>
       Seeks(req[q]) /\ req'[q].user = req[q].user /\ req'[q].ids = req[q].ids

\* Such a step leaves every user's sessions explained.
LEMMA QuietKeeps ==
  ASSUME AllExplained, Quiet PROVE AllExplained'
<1>1. ASSUME NEW u \in Users PROVE Explained(Active(u)', Seekers(u)', Seen')
  <2>1. Active(u)' \in SUBSET Active(u)
    BY DEF Quiet, Active
  <2>2. Seekers(u)' \in SUBSET Seekers(u) /\ \A q \in Seekers(u)' : Seen'[q] = Seen[q]
    BY DEF Quiet, Seekers, Seen, Seeks
  <2>3. Explained(Active(u), Seekers(u), Seen)
    BY DEF AllExplained
  <2>4. QED
    BY <2>1, <2>2, <2>3, ExplainedLess
<1>2. QED
  BY <1>1 DEF AllExplained, Explained, Accounts

\* A Google login starts with lookups.
LEMMA GoogleLoginQuiet ==
  ASSUME IInv, RowsFirst, NEW r \in Reqs, NEW u \in Users, GoogleLogin(r, u) PROVE RowsFirst' /\ Quiet
BY DEF IInv, TypeOK, RowsFirst, Quiet, GoogleLogin, Begin, Seeks, Idle, GoogleAwaits, db, tokens, cache

\* A dev login starts before the sessions it will end.
LEMMA DevLoginQuiet ==
  ASSUME IInv, RowsFirst, NEW r \in Reqs, NEW u \in Users, DevLogin(r, u) PROVE RowsFirst' /\ Quiet
BY DEF IInv, TypeOK, RowsFirst, Quiet, DevLogin, Begin, Seeks, Idle, GoogleAwaits, db, tokens, cache

\* A refresh never creates a session.
LEMMA RefreshTokensQuiet ==
  ASSUME IInv, RowsFirst, NEW r \in Reqs, NEW t \in Tokens, RefreshTokens(r, t) PROVE RowsFirst' /\ Quiet
BY DEF IInv, TypeOK, RowsFirst, Quiet, RefreshTokens, Seeks, Idle, GoogleAwaits, db, tokens, cache

\* Nor does a logout.
LEMMA LogoutQuiet ==
  ASSUME IInv, RowsFirst, NEW r \in Reqs, NEW t \in Tokens, NEW k \in LogoutKinds, Logout(r, t, k)
  PROVE RowsFirst' /\ Quiet
BY DEF IInv, TypeOK, RowsFirst, Quiet, Logout, LogoutKinds, Seeks, Idle, GoogleAwaits, db, tokens, cache

\* Request r ends, or moves on as its handler does; rows stay and none becomes valid.
Onward(r) ==
  /\ valid' \subseteq valid /\ owner' = owner
  /\ \A u \in Users : account[u] # "absent" => account'[u] # "absent"
  /\ \A q \in Reqs \ {r} : req'[q] = req[q]
  /\ \/ req'[r] = Idle
     \/ /\ req'[r].kind = req[r].kind /\ req'[r].user = req[r].user
        /\ req[r].kind = "google" => req'[r].pc \in GoogleAwaits
        /\ Seeks(req'[r]) => Seeks(req[r]) /\ req'[r].ids = req[r].ids
        /\ req'[r].pc \notin {"findActive", "invalidateOwned"} \/ account'[req[r].user] # "absent"

\* Such a move is quiet and keeps the rows first.
LEMMA OnwardQuiet ==
  ASSUME IInv, RowsFirst, NEW r \in Reqs, Onward(r) PROVE RowsFirst' /\ Quiet
<1>0. ~Seeks(Idle) /\ Idle.pc = "idle" /\ Idle.kind = "none"
  BY DEF Seeks, Idle
<1>1. Quiet
  BY <1>0 DEF Onward, Quiet
<1>2. ASSUME NEW s \in Sids, owner'[s] # None PROVE account'[owner'[s]] # "absent"
  BY <1>2 DEF Onward, RowsFirst, IInv, TypeOK
<1>3. ASSUME NEW q \in Reqs, req'[q].kind = "google" PROVE req'[q].pc \in GoogleAwaits
  BY <1>0, <1>3 DEF Onward, RowsFirst
<1>4. ASSUME NEW q \in Reqs, Seeks(req'[q]) \/ req'[q].pc \in {"findActive", "invalidateOwned"}
      PROVE  account'[req'[q].user] # "absent"
  <2>1. req[q].pc # "idle" => req[q].user \in Users
    BY DEF IInv, TypeOK, Idle
  <2>2. Seeks(req[q]) \/ req[q].pc \in {"findActive", "invalidateOwned"} => req[q].user \in Users
    BY <2>1 DEF Seeks
  <2>3. CASE q # r
    BY <1>4, <2>2, <2>3 DEF Onward, RowsFirst
  <2>4. CASE q = r
    <3>1. CASE req'[r] = Idle
      BY <1>0, <1>4, <2>4, <3>1
    <3>2. CASE req'[r].pc \in {"findActive", "invalidateOwned"} /\ req'[r] # Idle
      BY <2>4, <3>2 DEF Onward
    <3>3. CASE Seeks(req'[r]) /\ req'[r] # Idle
      BY <2>2, <2>4, <3>3 DEF Onward, RowsFirst
    <3>4. QED
      BY <1>4, <2>4, <3>1, <3>2, <3>3
  <2>5. QED
    BY <2>3, <2>4
<1>5. RowsFirst'
  BY <1>2, <1>3, <1>4 DEF RowsFirst, Seeks
<1>6. QED
  BY <1>1, <1>5

\* Every await but the five that look, close everything or create.
LEMMA AwaitsOnward ==
  ASSUME IInv, RowsFirst, NEW r \in Reqs,
         \/ FindByEmail(r) \/ CreateUser(r) \/ InvalidateSeen(r) \/ Mark(r)
         \/ StoreHash(r) \/ CacheInfo(r) \/ Respond(r)
         \/ Rotate(r) \/ ExpireRow(r) \/ FindAll(r) \/ InvalidateAll(r)
         \/ CheckMark(r) \/ ReadInfo(r) \/ ReadRow(r) \/ CacheValidated(r)
         \/ InvalidateOne(r) \/ ClearInfo(r) \/ Die(r)
  PROVE  Onward(r)
<1>0. /\ req[r] \in Request /\ req \in [Reqs -> Request] /\ account \in [Users -> {"absent", "google", "dev"}]
      /\ req[r].pc # "idle" => req[r].user \in Users
      /\ req[r].kind = "google" => req[r].pc \in GoogleAwaits
  BY DEF IInv, TypeOK, RowsFirst, Idle
<1>a. ASSUME NEW l, req[r].pc # "idle", Goto(r, l)
      PROVE  /\ \A q \in Reqs \ {r} : req'[q] = req[q]
             /\ req'[r].pc = l /\ req'[r].kind = req[r].kind
             /\ req'[r].user = req[r].user /\ req'[r].ids = req[r].ids
  BY <1>0, <1>a DEF Goto, Request
<1>b. ASSUME NEW l, NEW S, Leave(r, l, S)
      PROVE  /\ \A q \in Reqs \ {r} : req'[q] = req[q]
             /\ \/ req'[r] = Idle
                \/ /\ req'[r].pc = l /\ req'[r].kind = req[r].kind
                   /\ req'[r].user = req[r].user /\ req'[r].ids = req[r].ids
  BY <1>0, <1>b DEF Leave, Request
<1>c. Finish(r) => req'[r] = Idle /\ \A q \in Reqs \ {r} : req'[q] = req[q]
  BY <1>0 DEF Finish
<1> USE DEF Onward, Seeks, GoogleAwaits, At, db, tokens, cache
<1>d. ASSUME NEW S, ThenMark(r, S)
      PROVE  /\ \A q \in Reqs \ {r} : req'[q] = req[q]
             /\ \/ req'[r] = Idle
                \/ /\ \/ req'[r].pc \in {"mark", "clearInfo"}
                      \/ req'[r].pc = "createSession" /\ req[r].kind = "google"
                   /\ req[r].kind = "google" => req'[r].pc \in {"mark", "createSession"}
                   /\ req'[r].kind = req[r].kind
                   /\ req'[r].user = req[r].user /\ req'[r].ids = req[r].ids
  <2>1. \/ Leave(r, "mark", S) 
        \/ Leave(r, AfterMarks(req[r].kind), {})
    BY <1>d DEF ThenMark
  <2>2. CASE Leave(r, "mark", S)
    BY <1>b, <2>2
  <2>3. CASE Leave(r, AfterMarks(req[r].kind), {})
    <3>1. CASE req[r].kind = "google"
      BY <1>b, <2>3, <3>1 DEF AfterMarks
    <3>2. CASE req[r].kind # "google" /\ (req[r].kind = "refresh" \/ ~CacheAttached)
      <4>1. AfterMarks(req[r].kind) = "idle"
        BY <3>2 DEF AfterMarks
      <4>2. req'[r] = Idle /\ \A q \in Reqs \ {r} : req'[q] = req[q]
        BY <1>0, <2>3, <4>1 DEF Leave
      <4>3. QED
        BY <4>2
    <3>3. CASE req[r].kind # "google" /\ req[r].kind # "refresh" /\ CacheAttached
      <4>1. AfterMarks(req[r].kind) = "clearInfo"
        BY <3>3 DEF AfterMarks
      <4>2. QED
        BY <1>b, <2>3, <3>3, <4>1
    <3>4. QED
      BY <3>1, <3>2, <3>3
  <2>4. QED
    BY <2>1, <2>2, <2>3
<1>1. CASE FindByEmail(r)
  BY <1>0, <1>1, <1>a, <1>c DEF FindByEmail
<1>2. CASE CreateUser(r)
  <2>1. /\ req[r].user \in Users /\ valid' = valid /\ owner' = owner
        /\ \/ Goto(r, "findActive") /\ account' = [account EXCEPT ![req[r].user] = "google"]
           \/ Finish(r) /\ account' = account
    BY <1>0, <1>2 DEF CreateUser
  <2>2. CASE Goto(r, "findActive") /\ account' = [account EXCEPT ![req[r].user] = "google"]
    <3>1. \A u \in Users : account[u] # "absent" => account'[u] # "absent"
      BY <1>0, <2>2
    <3>2. account'[req[r].user] # "absent"
      BY <1>0, <2>1, <2>2
    <3>3. req[r].pc # "idle"
      BY <1>2 DEF CreateUser
    <3>4. QED
      BY <1>a, <2>1, <2>2, <3>1, <3>2, <3>3
  <2>3. CASE Finish(r) /\ account' = account
    BY <1>c, <2>1, <2>3
  <2>4. QED
    BY <2>1, <2>2, <2>3
<1>3. CASE InvalidateSeen(r)
  BY <1>0, <1>3, <1>d DEF InvalidateSeen
<1>4. CASE Mark(r)
  <2>1. \/ Leave(r, "mark", req[r].todo)
        \/ \E S \in SUBSET Sids : Leave(r, AfterMarks(req[r].kind), S) \/ Leave(r, "mark", S)
    BY <1>0, <1>4 DEF Mark, Request
  <2>2. account' = account /\ valid' = valid /\ owner' = owner /\ req[r].pc = "mark"
    BY <1>4 DEF Mark
  <2>3. ASSUME NEW S, Leave(r, "mark", S) PROVE Onward(r)
    BY <1>b, <2>2, <2>3
  <2>4. ASSUME NEW S, Leave(r, AfterMarks(req[r].kind), S) PROVE Onward(r)
    <3>1. CASE req[r].kind = "google"
      BY <1>b, <2>2, <2>4, <3>1 DEF AfterMarks
    <3>2. CASE req[r].kind # "google"
      <4>1. AfterMarks(req[r].kind) \in {"idle", "clearInfo"}
        BY <3>2 DEF AfterMarks
      <4>2. QED
        BY <1>b, <2>2, <2>4, <3>2, <4>1
    <3>3. QED
      BY <3>1, <3>2
  <2>5. QED
    BY <2>1, <2>3, <2>4
<1>5. CASE StoreHash(r)
  <2>0. PICK t \in Tokens : req' = [req EXCEPT ![r].tok = t, ![r].pc = IF CacheAttached THEN "cacheInfo"
                                                                     ELSE "respond"]
    BY <1>5 DEF StoreHash
  <2>1. /\ \A q \in Reqs \ {r} : req'[q] = req[q]
        /\ req'[r].pc \in {"cacheInfo", "respond"} /\ req'[r].kind = req[r].kind
        /\ req'[r].user = req[r].user
    BY <1>0, <2>0 DEF Request
  <2>2. account' = account /\ valid' = valid /\ owner' = owner
    BY <1>5 DEF StoreHash
  <2>3. QED
    BY <2>1, <2>2
<1>6. CASE CacheInfo(r)
  BY <1>0, <1>6, <1>a DEF CacheInfo
<1>7. CASE Respond(r)
  BY <1>0, <1>7, <1>c DEF Respond
<1>8. CASE Rotate(r)
  <2>0. PICK t \in Tokens : req' = [req EXCEPT ![r].tok = t, ![r].pc = "respond"]
    BY <1>8 DEF Rotate
  <2>1. /\ \A q \in Reqs \ {r} : req'[q] = req[q]
        /\ req'[r].pc = "respond" /\ req'[r].kind = req[r].kind
        /\ req'[r].user = req[r].user
    BY <1>0, <2>0 DEF Request
  <2>2. account' = account /\ valid' = valid /\ owner' = owner
    BY <1>8 DEF Rotate
  <2>3. QED
    BY <2>1, <2>2
<1>9. CASE ExpireRow(r)
  BY <1>0, <1>9, <1>c DEF ExpireRow
<1>10. CASE FindAll(r)
  <2>1. account' = account /\ valid' = valid /\ owner' = owner /\ req[r].kind # "google"
    BY <1>0, <1>10 DEF FindAll
  <2>2. CASE Leave(r, AfterMarks(req[r].kind), {})
    <3>1. AfterMarks(req[r].kind) \in {"idle", "clearInfo"}
      BY <2>1 DEF AfterMarks
    <3>2. QED
      BY <1>b, <2>1, <2>2, <3>1
  <2>3. CASE req' = [req EXCEPT ![r].pc = "invalidateAll", ![r].ids = Active(req[r].user)]
    <3>1. /\ \A q \in Reqs \ {r} : req'[q] = req[q]
          /\ req'[r].pc = "invalidateAll" /\ req'[r].kind = req[r].kind
          /\ req'[r].user = req[r].user
      BY <1>0, <2>3 DEF Request
    <3>2. QED
      BY <2>1, <3>1
  <2>4. QED
    BY <1>10, <2>2, <2>3 DEF FindAll
<1>11. CASE InvalidateAll(r)
  BY <1>0, <1>11, <1>d DEF InvalidateAll
<1>12. CASE CheckMark(r)
  BY <1>0, <1>12, <1>a, <1>c DEF CheckMark
<1>13. CASE ReadInfo(r)
  BY <1>0, <1>13, <1>a DEF ReadInfo, LogoutBody
<1>14. CASE ReadRow(r)
  BY <1>0, <1>14, <1>a, <1>c DEF ReadRow, LogoutBody
<1>15. CASE CacheValidated(r)
  BY <1>0, <1>15, <1>a DEF CacheValidated, LogoutBody
<1>16. CASE InvalidateOne(r)
  BY <1>0, <1>16, <1>d DEF InvalidateOne
<1>17. CASE ClearInfo(r)
  BY <1>0, <1>17, <1>c DEF ClearInfo
<1>18. CASE Die(r)
  BY <1>0, <1>18, <1>c DEF Die
<1>19. QED
  BY <1>1, <1>2, <1>3, <1>4, <1>5, <1>6, <1>7, <1>8, <1>9, <1>10, <1>11, <1>12, <1>13, <1>14,
     <1>15, <1>16, <1>17, <1>18

\* A step after which request r of user v is about to create a session, having seen all
\* but fewer than MaxDevices of the user's sessions to their end.
Joins(r, v) ==
  /\ valid' \subseteq valid /\ owner' = owner
  /\ \A q \in Reqs \ {r} : req'[q] = req[q]
  /\ req'[r].user = v
  /\ IsFiniteSet(Active(v)) => Cardinality(Active(v)' \ req'[r].ids) < MaxDevices

\* It leaves every user's sessions explained.
LEMMA JoinKeeps ==
  ASSUME MaxDevices > 0, AllExplained, NEW r \in Reqs, NEW v \in Users, Joins(r, v)
  PROVE  AllExplained'
<1>1. ASSUME NEW u \in Users PROVE Explained(Active(u)', Seekers(u)', Seen')
  <2>1. Active(u)' \in SUBSET Active(u)
    BY DEF Joins, Active
  <2>2. Explained(Active(u), Seekers(u), Seen)
    BY DEF AllExplained
  <2> DEFINE P == Seekers(u) \cap Seekers(u)'
  <2>3. P \in SUBSET Seekers(u) /\ \A q \in P : Seen[q] = Seen[q]
    OBVIOUS
  <2>4. Explained(Active(u)', P, Seen)
    <3> HIDE DEF P
    <3>1. QED
      BY <2>1, <2>2, <2>3, ExplainedLess
  <2>5. \A q \in P \ {r} : Seen'[q] = Seen[q]
    BY DEF Joins, Seekers, Seen
  <2>6. Seekers(u)' \ {r} \subseteq P
    BY DEF Joins, Seekers, Seeks
  <2>7. CASE u = v
    <3>1. Seen'[r] = req'[r].ids
      BY DEF Seen
    <3>2. IsFiniteSet(Active(v))
      BY <2>2, <2>7, ExplainedBound
    <3>3. Cardinality(Active(u)' \ Seen'[r]) < MaxDevices
      BY <2>7, <3>1, <3>2 DEF Joins
    <3>4. Explained(Active(u)', P \cup {r}, Seen')
      <4> HIDE DEF P
      <4>1. QED
        BY <2>4, <2>5, <3>3, ExplainedJoin
    <3>5. Seekers(u)' \in SUBSET (P \cup {r}) /\ \A q \in Seekers(u)' : Seen'[q] = Seen'[q]
      BY <2>6
    <3>6. Active(u)' \in SUBSET Active(u)'
      OBVIOUS
    <3> HIDE DEF P
    <3>7. QED
      BY <3>4, <3>5, <3>6, ExplainedLess
  <2>8. CASE u # v
    <3>1. Seekers(u)' \in SUBSET Seekers(u) /\ \A q \in Seekers(u)' : Seen'[q] = Seen[q]
      <4>1. r \notin Seekers(u)'
        BY <2>8 DEF Joins, Seekers
      <4>2. QED
        BY <4>1 DEF Joins, Seekers, Seeks, Seen
    <3>2. QED
      BY <2>1, <2>2, <3>1, ExplainedLess
  <2>9. QED
    BY <2>7, <2>8
<1>2. QED
  BY <1>1 DEF AllExplained, Explained, Accounts

\* A step by which request r, whose sessions to end have ended, creates s for its user.
Creates(r, s) ==
  /\ owner[s] = None /\ s \notin valid
  /\ owner' = [owner EXCEPT ![s] = req[r].user] /\ valid' = valid \cup {s}
  /\ \A q \in Reqs \ {r} : req'[q] = req[q]
  /\ Seeks(req[r]) /\ ~Seeks(req'[r]) /\ req[r].ids \cap valid = {}

\* So does the creation itself.
LEMMA CreateKeeps ==
  ASSUME IInv, AllExplained, NEW r \in Reqs, NEW s \in Sids, Creates(r, s)
  PROVE  AllExplained'
<1>0. owner \in [Sids -> Users \cup {None}] /\ valid \subseteq Sids
  BY DEF IInv, TypeOK
<1>1. ASSUME NEW u \in Users PROVE Explained(Active(u)', Seekers(u)', Seen')
  <2>1. Explained(Active(u), Seekers(u), Seen)
    BY DEF AllExplained
  <2>2. Seekers(u)' = Seekers(u) \ {r}
    BY DEF Creates, Seekers, Seeks
  <2>3. \A q \in Seekers(u)' : Seen'[q] = Seen[q]
    BY <2>2 DEF Creates, Seekers, Seen
  <2>4. CASE req[r].user = u
    <3>1. Active(u)' = Active(u) \cup {s} /\ s \notin Active(u)
      BY <1>0, <2>4 DEF Creates, Active
    <3>2. r \in Seekers(u) /\ Seen[r] \cap Active(u) = {}
      BY <2>4 DEF Creates, Seekers, Seen, Active
    <3>3. Explained(Active(u) \cup {s}, Seekers(u) \ {r}, Seen)
      BY <2>1, <3>1, <3>2, ExplainedMore
    <3>4. Explained(Active(u)', Seekers(u)', Seen)
      BY <2>2, <3>1, <3>3
    <3>5. QED
      <4>1. Active(u)' \in SUBSET Active(u)' /\ Seekers(u)' \in SUBSET Seekers(u)'
        OBVIOUS
      <4>2. QED
        BY <2>3, <3>4, <4>1, ExplainedLess
  <2>5. CASE req[r].user # u
    <3>1. Active(u)' \in SUBSET Active(u)
      BY <1>0, <2>5, NoneIsFresh DEF Creates, Active
    <3>2. Seekers(u)' \in SUBSET Seekers(u)
      BY <2>2
    <3>3. QED
      BY <2>1, <2>3, <3>1, <3>2, ExplainedLess
  <2>6. QED
    BY <2>4, <2>5
<1>2. QED
  BY <1>1 DEF AllExplained, Explained, Accounts

\* What the theorem rests on, besides IInv.
LimitInv == RowsFirst /\ (MaxDevices > 0 => AllExplained)

\* A look over the limit takes all sessions along; one below it leaves fewer.
LEMMA FindActiveLooks ==
  ASSUME IInv, LimitInv, NEW r \in Reqs, FindActive(r) PROVE LimitInv'
<1>1. /\ req[r] \in Request /\ req \in [Reqs -> Request] /\ req[r].user \in Users
      /\ req[r].pc = "findActive"
  BY DEF IInv, TypeOK, Idle, FindActive, At
<1>v. PICK v \in Users : v = req[r].user
  BY <1>1
<1>o. PICK over \in BOOLEAN : over = OverLimit(Cardinality(Active(v)))
  BY DEF OverLimit
<1>2. /\ \A q \in Reqs \ {r} : req'[q] = req[q]
      /\ req'[r].pc = (IF over THEN "invalidateSeen" ELSE "createSession")
      /\ req'[r].ids = (IF over THEN Active(v) ELSE {})
      /\ req'[r].kind = req[r].kind /\ req'[r].user = v
  BY <1>1, <1>v, <1>o DEF FindActive, Request
<1>3. account' = account /\ valid' = valid /\ owner' = owner
  BY DEF FindActive, db
<1>4. RowsFirst'
  BY <1>1, <1>2, <1>3, <1>v DEF LimitInv, RowsFirst, GoogleAwaits, Seeks
<1>5. ASSUME MaxDevices > 0 PROVE AllExplained'
  <2>1. Active(v)' = Active(v)
    BY <1>3 DEF Active
  <2>2. ASSUME IsFiniteSet(Active(v)) PROVE Cardinality(Active(v)' \ req'[r].ids) < MaxDevices
    <3>1. CASE over
      <4>1. Active(v)' \ req'[r].ids = {}
        BY <1>2, <2>1, <3>1
      <4>2. QED
        BY <1>5, <4>1, FS_EmptySet, Limits
    <3>2. CASE ~over
      <4>1. Active(v)' \ req'[r].ids = Active(v)
        BY <1>2, <2>1, <3>2
      <4>2. Cardinality(Active(v)) \in Nat
        BY <2>2, FS_CardinalityType
      <4>3. Cardinality(Active(v)) < MaxDevices
        <5>1. ~OverLimit(Cardinality(Active(v)))
          BY <1>o, <3>2
        <5>2. PICK n \in Nat : n = Cardinality(Active(v))
          BY <4>2
        <5>3. ~(MaxDevices > 0 /\ n >= MaxDevices)
          BY <5>1, <5>2 DEF OverLimit
        <5>4. n < MaxDevices
          BY <1>5, <5>3, Limits
        <5>5. QED
          BY <5>2, <5>4
      <4>4. QED
        BY <4>1, <4>3
    <3>3. QED
      BY <3>1, <3>2
  <2>3. Joins(r, v)
    BY <1>2, <1>3, <2>2 DEF Joins
  <2>4. QED
    BY <1>1, <1>5, <2>3, JoinKeeps DEF LimitInv
<1>6. QED
  BY <1>4, <1>5 DEF LimitInv

\* A dev login ends every session of its user before it creates its own.
LEMMA InvalidateOwnedLooks ==
  ASSUME IInv, LimitInv, NEW r \in Reqs, InvalidateOwned(r) PROVE LimitInv'
<1>1. /\ req[r] \in Request /\ req \in [Reqs -> Request] /\ req[r].user \in Users
      /\ req[r].pc = "invalidateOwned"
  BY DEF IInv, TypeOK, Idle, InvalidateOwned, At
<1>v. PICK v \in Users : v = req[r].user
  BY <1>1
<1>2. /\ \A q \in Reqs \ {r} : req'[q] = req[q]
      /\ req'[r].pc = "createHashed" /\ req'[r].ids = req[r].ids
      /\ req'[r].kind = req[r].kind /\ req'[r].user = v
  BY <1>1, <1>v DEF InvalidateOwned, Goto, Request
<1>3. account' = account /\ valid' = valid \ Active(v) /\ owner' = owner
  BY <1>v DEF InvalidateOwned
<1>4. RowsFirst'
  BY <1>1, <1>2, <1>3, <1>v DEF LimitInv, RowsFirst, GoogleAwaits, Seeks
<1>5. ASSUME MaxDevices > 0 PROVE AllExplained'
  <2>1. Active(v)' \ req'[r].ids = {}
    BY <1>2, <1>3 DEF Active
  <2>2. Joins(r, v)
    BY <1>2, <1>3, <1>5, <2>1, FS_EmptySet, Limits DEF Joins
  <2>3. QED
    BY <1>1, <1>5, <2>2, JoinKeeps DEF LimitInv
<1>6. QED
  BY <1>4, <1>5 DEF LimitInv

\* A user who signs up has no session yet.
LEMMA DevSignupLooks ==
  ASSUME IInv, LimitInv, NEW r \in Reqs, NEW u \in Users, DevSignup(r, u) PROVE LimitInv'
<1>1. /\ \A q \in Reqs \ {r} : req'[q] = req[q]
      /\ req'[r].pc = "createHashed" /\ req'[r].ids = {}
      /\ req'[r].kind = "signup" /\ req'[r].user = u
  BY DEF IInv, TypeOK, DevSignup, Begin, Idle
<1>2. /\ account[u] = "absent" /\ account' = [account EXCEPT ![u] = "dev"]
      /\ valid' = valid /\ owner' = owner
      /\ account \in [Users -> {"absent", "google", "dev"}]
      /\ owner \in [Sids -> Users \cup {None}]
      /\ valid \subseteq {s \in Sids : owner[s] # None}
  BY DEF DevSignup, IInv, TypeOK
<1>3. \A v \in Users : account[v] # "absent" => account'[v] # "absent"
  BY <1>2
<1>4. RowsFirst'
  <2>1. ASSUME NEW s \in Sids, owner'[s] # None PROVE account'[owner'[s]] # "absent"
    BY <1>2, <1>3, <2>1 DEF LimitInv, RowsFirst
  <2>2. ASSUME NEW q \in Reqs, Seeks(req'[q]) \/ req'[q].pc \in {"findActive", "invalidateOwned"}
        PROVE  account'[req'[q].user] # "absent"
    <3>1. CASE q = r
      BY <1>1, <1>2, <3>1
    <3>2. CASE q # r
      <4>1. req[q].pc # "idle" /\ req'[q] = req[q]
        BY <1>1, <2>2, <3>2 DEF Seeks
      <4>2. req[q].user \in Users
        BY <4>1 DEF IInv, TypeOK, Idle
      <4>3. QED
        BY <1>3, <2>2, <4>1, <4>2 DEF LimitInv, RowsFirst
    <3>3. QED
      BY <3>1, <3>2
  <2>3. \A q \in Reqs : req'[q].kind = "google" => req'[q].pc \in GoogleAwaits
    BY <1>1 DEF LimitInv, RowsFirst
  <2>4. QED
    BY <2>1, <2>2, <2>3 DEF RowsFirst, Seeks
<1>5. ASSUME MaxDevices > 0 PROVE AllExplained'
  <2>1. Active(u)' \ req'[r].ids = {}
    BY <1>2 DEF Active, LimitInv, RowsFirst
  <2>2. Joins(r, u)
    BY <1>1, <1>2, <1>5, <2>1, FS_EmptySet, Limits DEF Joins
  <2>3. QED
    BY <1>5, <2>2, JoinKeeps DEF LimitInv
<1>6. QED
  BY <1>4, <1>5 DEF LimitInv

\* The session that is created belongs to a user whose row exists.
LEMMA CreationKeeps ==
  ASSUME IInv, LimitInv, NEW r \in Reqs, CreateSession(r) \/ CreateHashed(r) PROVE LimitInv'
<1>1. /\ req[r] \in Request /\ req \in [Reqs -> Request] /\ req[r].user \in Users
      /\ req[r].pc \in {"createSession", "createHashed"}
      /\ owner \in [Sids -> Users \cup {None}]
      /\ valid \subseteq {s \in Sids : owner[s] # None}
  <2>1. req[r].pc \in {"createSession", "createHashed"}
    BY DEF CreateSession, CreateHashed, At
  <2>2. QED
    BY <2>1 DEF IInv, TypeOK, Idle
<1>2. PICK s \in Sids : /\ owner[s] = None /\ owner' = [owner EXCEPT ![s] = req[r].user]
                        /\ valid' = valid \cup {s} /\ account' = account
                        /\ \A q \in Reqs \ {r} : req'[q] = req[q]
                        /\ req'[r].pc \in {"storeHash", "cacheInfo", "respond"}
                        /\ req'[r].kind = req[r].kind /\ req'[r].user = req[r].user
  <2>1. CASE CreateSession(r)
    <3>1. PICK s \in Sids : /\ owner[s] = None /\ owner' = [owner EXCEPT ![s] = req[r].user]
                            /\ valid' = valid \cup {s} /\ account' = account
                            /\ req' = [req EXCEPT ![r].pc = "storeHash", ![r].sid = s]
      BY <2>1 DEF CreateSession
    <3>2. QED
      BY <1>1, <3>1 DEF Request
  <2>2. CASE CreateHashed(r)
    <3>1. PICK s \in Sids, t \in Tokens :
            /\ owner[s] = None /\ owner' = [owner EXCEPT ![s] = req[r].user]
            /\ valid' = valid \cup {s} /\ account' = account
            /\ req' = [req EXCEPT ![r].sid = s, ![r].tok = t,
                                  ![r].pc = IF CacheAttached THEN "cacheInfo" ELSE "respond"]
      BY <2>2 DEF CreateHashed
    <3>2. QED
      BY <1>1, <3>1 DEF Request
  <2>3. QED
    BY <2>1, <2>2
<1>3. RowsFirst'
  <2>1. account[req[r].user] # "absent"
    BY <1>1 DEF LimitInv, RowsFirst, Seeks
  <2>2. ASSUME NEW c \in Sids, owner'[c] # None PROVE account'[owner'[c]] # "absent"
    BY <1>1, <1>2, <2>1, <2>2 DEF LimitInv, RowsFirst
  <2>3. QED
    BY <1>1, <1>2, <2>2 DEF LimitInv, RowsFirst, Seeks, GoogleAwaits
<1>4. Creates(r, s)
  BY <1>1, <1>2 DEF Creates, Seeks, IInv, Displaced
<1>5. QED
  BY <1>3, <1>4, CreateKeeps DEF LimitInv

\* LimitInv is inductive relative to IInv.
LEMMA LimitKept == IInv /\ LimitInv /\ [Next]_vars => LimitInv'
<1> SUFFICES ASSUME IInv, LimitInv, [Next]_vars PROVE LimitInv'
  OBVIOUS
<1>1. ASSUME RowsFirst', Quiet PROVE LimitInv'
  BY <1>1, QuietKeeps DEF LimitInv
<1>2. ASSUME NEW r \in Reqs, Start(r) PROVE LimitInv'
  <2>1. CASE \E u \in Users : GoogleLogin(r, u) \/ DevLogin(r, u)
    BY <1>1, <2>1, GoogleLoginQuiet, DevLoginQuiet DEF LimitInv
  <2>2. CASE \E u \in Users : DevSignup(r, u)
    BY <2>2, DevSignupLooks
  <2>3. CASE \/ \E t \in Tokens : RefreshTokens(r, t)
             \/ \E t \in Tokens, k \in LogoutKinds : Logout(r, t, k)
    BY <1>1, <2>3, RefreshTokensQuiet, LogoutQuiet DEF LimitInv
  <2>4. CASE UNCHANGED vars
    BY <1>1, <2>4 DEF LimitInv, RowsFirst, Quiet, Seeks, vars, db
  <2>5. QED
    BY <1>2, <2>1, <2>2, <2>3, <2>4 DEF Start, Refuse
<1>3. ASSUME NEW r \in Reqs, Step(r) \/ Die(r) PROVE LimitInv'
  <2>1. CASE FindActive(r)
    BY <2>1, FindActiveLooks
  <2>2. CASE InvalidateOwned(r)
    BY <2>2, InvalidateOwnedLooks
  <2>3. CASE CreateSession(r) \/ CreateHashed(r)
    BY <2>3, CreationKeeps
  <2>4. CASE Onward(r)
    BY <1>1, <2>4, OnwardQuiet DEF LimitInv
  <2>5. QED
    BY <1>3, <2>1, <2>2, <2>3, <2>4, AwaitsOnward DEF Step, LimitInv
<1>4. CASE (\E s \in Sids : Expire(s)) \/ (\E u \in Users : InfoExpires(u)) \/ UNCHANGED vars
  <2>1. account' = account /\ valid' = valid /\ owner' = owner /\ req' = req
    BY <1>4 DEF Expire, InfoExpires, vars, db
  <2>2. QED
    BY <1>1, <2>1 DEF LimitInv, RowsFirst, Quiet, Seeks
<1>5. QED
  BY <1>2, <1>3, <1>4 DEF Next

\* No session needs no explanation.
LEMMA InitLimitInv == Init => LimitInv
<1> SUFFICES ASSUME Init PROVE LimitInv
  OBVIOUS
<1>1. RowsFirst
  BY DEF Init, RowsFirst, Seeks, Idle
<1>2. ASSUME MaxDevices > 0, NEW u \in Users PROVE Explained(Active(u), Seekers(u), Seen)
  <2>1. Active(u) = {} /\ Seekers(u) = {}
    BY DEF Init, Active, Seekers, Seeks, Idle
  <2>2. IsFiniteSet({}) /\ Cardinality({}) < MaxDevices
    BY <1>2, FS_EmptySet, Limits
  <2> DEFINE f == [s \in {} |-> s]
  <2>3. f \in [{} \ {} -> Reqs] /\ f \in [{} -> SUBSET {}]
    OBVIOUS
  <2> HIDE DEF f
  <2>4. Accounts({}, {}, Seen, {}, f, f)
    BY <2>2 DEF Accounts
  <2>5. Explained({}, {}, Seen)
    BY <2>3, <2>4 DEF Explained
  <2>6. QED
    BY <2>1, <2>5
<1>3. QED
  BY <1>1, <1>2 DEF LimitInv, AllExplained

\* With a device limit a user has fewer valid sessions than the limit plus the number of
\* requests that may overlap, however the looks and writes of concurrent logins interleave.
THEOREM OverrunsAreBounded == Spec => []BoundedOverrun
<1>1. IInv /\ LimitInv => BoundedOverrun
  BY ExplainedBound DEF LimitInv, AllExplained, BoundedOverrun
<1>2. QED
  BY <1>1, InitLimitInv, LimitKept, Invariance, PTL DEF Spec

-----------------------------------------------------------------------------
(* AccountLifecycle *)

\* How far a login gets that began on an account deleted since.
Stopped(r) ==
  /\ req[r].pc \in {"findByEmail", "createUser"}
  /\ req[r].sid = None /\ req[r].user \in deleted

\* The inductive invariant of the composition: a deleted row, or one about to be
\* deleted, exists, and a login on a deleted account has not found it.
AInv ==
  /\ IInv
  /\ CallsTypeOK
  /\ \A u \in deleted : account[u] # "absent"
  /\ \A c \in Calls : CallAt(c, "deleteRow") => account[call[c].user] # "absent"
  /\ \A r \in barred : Stopped(r)

\* The composition starts with empty tables and no call.
LEMMA InitAInv == AccountInit => AInv
<1> SUFFICES ASSUME AccountInit PROVE AInv
  OBVIOUS
<1>1. IInv
  BY InitIInv DEF AccountInit
<1>2. CallsTypeOK
  BY DEF AccountInit, CallsTypeOK, CallRecord, NoCall
<1>3. QED
  BY <1>1, <1>2 DEF AccountInit, AInv, Init, CallAt, NoCall

-----------------------------------------------------------------------------
(* Account calls *)

\* What no account call writes.
CallFrame == UNCHANGED <<account, owner, valid, hash, expired, issuedFor, held, marked, req>>

\* An account call writes deletedAt and the cached profile of its user, and its own record.
LEMMA CallWrites ==
  ASSUME AInv, NEW c \in Calls, CallNext(c)
  PROVE  /\ CallFrame
         /\ deleted' \subseteq Users /\ info' \subseteq Users
<1>1. ~CallAt(c, "idle") => call[c].user \in Users
  BY DEF AInv, CallsTypeOK, CallAt, NoCall
<1>2. deleted \subseteq Users /\ info \subseteq Users
  BY DEF AInv, IInv, TypeOK
<1> USE DEF CallFrame, vars, db, tokens, cache
<1>3. CASE \E u \in Users : \/ GetMyProfile(c, u) \/ UpdateMyProfile(c, u)
                            \/ DeleteMyAccount(c, u) \/ RestoreAccount(c, u)
  BY <1>2, <1>3 DEF GetMyProfile, UpdateMyProfile, DeleteMyAccount, RestoreAccount, BeginCall
<1>4. CASE GetInfo(c) \/ FindRow(c) \/ FindLive(c) \/ UpdateRow(c) \/ InvalidateUserSessions(c)
           \/ FindDeleted(c) \/ DieCall(c)
  BY <1>2, <1>4 DEF GetInfo, FindRow, FindLive, UpdateRow, InvalidateUserSessions, FindDeleted, DieCall
<1>5. CASE SetInfo(c) \/ DelInfo(c)
  BY <1>1, <1>2, <1>5 DEF SetInfo, DelInfo, CacheWrites, CallAt
<1>6. CASE DeleteRow(c) \/ RestoreRow(c)
  BY <1>1, <1>2, <1>6 DEF DeleteRow, RestoreRow, CallAt
<1>7. QED
  BY <1>3, <1>4, <1>5, <1>6 DEF CallNext, CallStep

\* So it keeps the invariant of the auth service.
LEMMA CallKeepsIInv ==
  ASSUME AInv, NEW c \in Calls, CallNext(c)
  PROVE  IInv'
BY CallWrites DEF CallFrame, AInv, IInv, TypeOK, TokensConsistent, Displaced, MarkedStaysOut,
   Backed, Carries

\* Its record is one of its kind, and no login joins the history.
LEMMA CallKeepsTypes ==
  ASSUME AInv, NEW c \in Calls, CallNext(c)
  PROVE  CallsTypeOK' /\ barred' \subseteq barred
<1>1. req' = req
  BY CallWrites DEF CallFrame
<1>2. call[c] \in CallRecord /\ (~CallAt(c, "idle") => call[c].user \in Users)
  BY DEF AInv, CallsTypeOK, CallAt, NoCall
<1>3. PICK q \in CallRecord : /\ call' = [call EXCEPT ![c] = q]
                              /\ q # NoCall => q.user \in Users /\ q.pc # "idle"
  <2>1. NoCall \in CallRecord
    BY DEF NoCall, CallRecord
  <2>2. CASE \E u \in Users : \/ GetMyProfile(c, u) \/ UpdateMyProfile(c, u)
                              \/ DeleteMyAccount(c, u) \/ RestoreAccount(c, u)
    <3>1. PICK u \in Users, k \in CallKinds, l \in CallAwaits : BeginCall(c, k, u, l)
      BY <2>2 DEF GetMyProfile, UpdateMyProfile, DeleteMyAccount, RestoreAccount, CallKinds, CallAwaits
    <3>2. [pc |-> l, kind |-> k, user |-> u] \in CallRecord /\ l # "idle"
      BY DEF CallRecord, CallAwaits
    <3>3. QED
      BY <3>1, <3>2 DEF BeginCall
  <2>3. CASE Return(c)
    BY <2>1, <2>3 DEF Return
  <2>4. ASSUME NEW l \in CallAwaits, CallGoto(c, l), ~CallAt(c, "idle")
        PROVE \E q \in CallRecord : /\ call' = [call EXCEPT ![c] = q]
                                    /\ q # NoCall => q.user \in Users /\ q.pc # "idle"
    <3>1. [call[c] EXCEPT !.pc = l] \in CallRecord /\ l # "idle"
      BY <1>2 DEF CallRecord, CallAwaits
    <3>2. call' = [call EXCEPT ![c] = [call[c] EXCEPT !.pc = l]]
      BY <2>4 DEF CallGoto, AInv, CallsTypeOK
    <3>3. [call[c] EXCEPT !.pc = l].user \in Users /\ [call[c] EXCEPT !.pc = l].pc = l
      BY <1>2, <2>4 DEF CallRecord
    <3>4. QED
      BY <3>1, <3>2, <3>3
  <2>5. CASE SetInfo(c) /\ ~Return(c)
    <3>1. /\ call' = [call EXCEPT ![c] = [call[c] EXCEPT !.pc = "getInfo", !.kind = "profile"]]
          /\ ~CallAt(c, "idle")
      BY <2>5 DEF SetInfo, CallAt, AInv, CallsTypeOK
    <3>2. [call[c] EXCEPT !.pc = "getInfo", !.kind = "profile"] \in CallRecord
      BY <1>2 DEF CallRecord, CallAwaits, CallKinds
    <3>3. /\ [call[c] EXCEPT !.pc = "getInfo", !.kind = "profile"].user \in Users
          /\ [call[c] EXCEPT !.pc = "getInfo", !.kind = "profile"].pc = "getInfo"
      BY <1>2, <3>1 DEF CallRecord
    <3>4. QED
      BY <3>1, <3>2, <3>3
  <2>6. CASE CallStep(c) /\ ~Return(c) /\ ~SetInfo(c)
    <3>1. ~CallAt(c, "idle") /\ \E l \in CallAwaits : CallGoto(c, l)
      BY <2>6 DEF CallStep, GetInfo, FindRow, FindLive, UpdateRow, DeleteRow,
         InvalidateUserSessions, DelInfo, FindDeleted, RestoreRow, CallAt, CallAwaits
    <3>2. QED
      BY <2>4, <3>1
  <2>7. QED
    BY <2>2, <2>3, <2>5, <2>6 DEF CallNext, DieCall
<1>4. call' \in [Calls -> CallRecord]
      /\ \A d \in Calls : call'[d] # NoCall => call'[d].user \in Users /\ call'[d].pc # "idle"
  BY <1>3 DEF AInv, CallsTypeOK
<1>5. barred' \subseteq barred
  BY DEF CallNext, CallStep, GetMyProfile, UpdateMyProfile, DeleteMyAccount, RestoreAccount, BeginCall,
     GetInfo, FindRow, SetInfo, FindLive, UpdateRow, DeleteRow, InvalidateUserSessions, DelInfo,
     FindDeleted, RestoreRow, DieCall
<1>6. QED
  BY <1>1, <1>4, <1>5 DEF AInv, CallsTypeOK

\* A call finds its row alive before it deletes it, and a restored account bars nobody.
LEMMA CallKeeps ==
  ASSUME AInv, NEW c \in Calls, CallNext(c)
  PROVE  AInv'
<1>1. IInv' /\ CallsTypeOK' /\ barred' \subseteq barred /\ account' = account /\ req' = req
  BY CallKeepsIInv, CallKeepsTypes, CallWrites DEF CallFrame
<1>2. CASE DeleteRow(c)
  <2>1. deleted' = deleted \cup {call[c].user} /\ account[call[c].user] # "absent"
    BY <1>2 DEF DeleteRow, AInv
  <2>2. \A d \in Calls : CallAt(d, "deleteRow")' => CallAt(d, "deleteRow") /\ call'[d] = call[d]
    BY <1>2 DEF DeleteRow, CallGoto, CallAt, AInv, CallsTypeOK, CallRecord
  <2>3. QED
    BY <1>1, <2>1, <2>2 DEF AInv, Stopped, CallAt
<1>3. CASE RestoreRow(c)
  <2>1. /\ deleted' = deleted \ {call[c].user}
        /\ \A r \in barred' : req[r].user # call[c].user
    BY <1>3 DEF RestoreRow
  <2>2. \A d \in Calls : CallAt(d, "deleteRow")' => CallAt(d, "deleteRow") /\ call'[d] = call[d]
    BY <1>3 DEF RestoreRow, CallGoto, CallAt, AInv, CallsTypeOK, CallRecord
  <2>3. QED
    BY <1>1, <2>1, <2>2 DEF AInv, Stopped, CallAt
<1>4. CASE FindLive(c)
  <2>1. deleted' = deleted
    BY <1>4 DEF FindLive, vars, db
  <2>2. \A d \in Calls : CallAt(d, "deleteRow")' =>
          /\ call'[d].user = call[d].user
          /\ CallAt(d, "deleteRow") \/ account[call[d].user] # "absent"
    BY <1>4 DEF FindLive, CallGoto, Return, NoCall, CallAt, AInv, CallsTypeOK, CallRecord, Findable
  <2>3. QED
    BY <1>1, <2>1, <2>2 DEF AInv, Stopped, CallAt
<1>5. CASE ~(DeleteRow(c) \/ RestoreRow(c) \/ FindLive(c))
  <2>1. deleted' = deleted
    BY <1>5 DEF CallNext, CallStep, GetMyProfile, UpdateMyProfile, DeleteMyAccount, RestoreAccount,
       BeginCall, GetInfo, FindRow, SetInfo, UpdateRow, InvalidateUserSessions, DelInfo, FindDeleted,
       DieCall, vars, db
  <2>2. \A d \in Calls : CallAt(d, "deleteRow")' => CallAt(d, "deleteRow") /\ call'[d] = call[d]
    <3>1. ASSUME NEW d \in Calls \ {c} PROVE call'[d] = call[d]
      BY <1>5 DEF CallNext, CallStep, GetMyProfile, UpdateMyProfile, DeleteMyAccount, RestoreAccount,
         BeginCall, GetInfo, FindRow, SetInfo, UpdateRow, InvalidateUserSessions, DelInfo, FindDeleted,
         DieCall, CallGoto, Return, AInv, CallsTypeOK
    <3>2. ~CallAt(c, "deleteRow")'
      <4>1. CASE \E u \in Users : \/ GetMyProfile(c, u) \/ UpdateMyProfile(c, u)
                                  \/ DeleteMyAccount(c, u) \/ RestoreAccount(c, u)
        BY <4>1 DEF GetMyProfile, UpdateMyProfile, DeleteMyAccount, RestoreAccount, BeginCall, CallAt,
           AInv, CallsTypeOK
      <4>2. CASE Return(c)
        BY <4>2 DEF Return, NoCall, CallAt, AInv, CallsTypeOK
      <4>3. CASE CallStep(c) /\ ~Return(c)
        BY <1>5, <4>3 DEF CallStep, GetInfo, FindRow, SetInfo, UpdateRow, InvalidateUserSessions,
           DelInfo, FindDeleted, CallGoto, CallAt, AInv, CallsTypeOK, CallRecord
      <4>4. QED
        BY <4>1, <4>2, <4>3 DEF CallNext, DieCall
    <3>3. QED
      BY <3>1, <3>2 DEF CallAt
  <2>3. QED
    BY <1>1, <2>1, <2>2 DEF AInv, Stopped, CallAt
<1>6. QED
  BY <1>2, <1>3, <1>4, <1>5

-----------------------------------------------------------------------------
(* Steps of the auth service *)

\* No request deletes an account or unmakes one.
LEMMA AuthKeepsRows ==
  ASSUME IInv, Next
  PROVE  /\ deleted' = deleted
         /\ \A u \in Users : account[u] # "absent" => account'[u] # "absent"
BY DEF Next, Start, Step, GoogleLogin, DevSignup, DevLogin, RefreshTokens, Logout, Refuse, FindByEmail,
   CreateUser, FindActive, InvalidateSeen, Mark, CreateSession, StoreHash, CacheInfo, Respond,
   InvalidateOwned, CreateHashed, Rotate, ExpireRow, FindAll, InvalidateAll, CheckMark, ReadInfo,
   ReadRow, CacheValidated, InvalidateOne, ClearInfo, Expire, InfoExpires, Die, vars, db, tokens,
   cache, IInv, TypeOK

\* A login that starts on a deleted account does not find it.
LEMMA StartStops ==
  ASSUME AInv, NEW r \in Reqs, Start(r), NEW q \in Reqs, req[q] = Idle, req'[q].kind \in LoginKinds,
         req'[q].user \in deleted
  PROVE  Stopped(q)'
<1>1. req'[q] # Idle
  BY DEF Idle, LoginKinds
<1>2. q = r
  BY <1>1 DEF Start, GoogleLogin, DevSignup, DevLogin, RefreshTokens, Logout, Refuse, Begin, vars, AInv,
     IInv, TypeOK
<1>3. ~Refuse(r)
  BY <1>1 DEF Refuse, vars
<1>4. DOMAIN req = Reqs
  BY DEF AInv, IInv, TypeOK
<1>5. ASSUME NEW t \in Tokens PROVE ~RefreshTokens(r, t)
  <2> SUFFICES ASSUME RefreshTokens(r, t) PROVE FALSE
    OBVIOUS
  <2>1. req'[r].kind = "refresh"
    BY <1>4 DEF RefreshTokens, Idle
  <2>2. QED
    BY <1>2, <2>1 DEF LoginKinds
<1>6. ASSUME NEW t \in Tokens, NEW k \in LogoutKinds PROVE ~Logout(r, t, k)
  <2> SUFFICES ASSUME Logout(r, t, k) PROVE FALSE
    OBVIOUS
  <2>1. req'[r].kind = k
    BY <1>4 DEF Logout, Idle
  <2>2. QED
    BY <1>2, <2>1 DEF LoginKinds, LogoutKinds
<1>7. PICK u \in Users : GoogleLogin(r, u) \/ DevSignup(r, u) \/ DevLogin(r, u)
  BY <1>3, <1>5, <1>6 DEF Start
<1>8. req'[r].user = u
  BY <1>4, <1>7 DEF GoogleLogin, DevSignup, DevLogin, Begin, Idle
<1>9. u \in deleted /\ account[u] # "absent"
  BY <1>2, <1>8 DEF AInv
<1>10. GoogleLogin(r, u)
  BY <1>7, <1>9 DEF DevSignup, DevLogin
<1>11. QED
  BY <1>2, <1>9, <1>10 DEF GoogleLogin, Begin, Idle, Stopped, db, AInv, IInv, TypeOK

\* A stopped login goes from the lookup to the insert and ends there.
LEMMA StoppedStays ==
  ASSUME AInv, NEW q \in Reqs, Stopped(q), Next, req'[q].kind \in LoginKinds
  PROVE  Stopped(q)'
<1>1. deleted' = deleted
  BY AuthKeepsRows DEF AInv
<1>2. CASE req'[q] = req[q]
  BY <1>1, <1>2 DEF Stopped
<1>3. CASE req'[q] # req[q]
  <2>1. PICK r \in Reqs : Start(r) \/ Step(r) \/ Die(r)
    BY <1>3 DEF Next, Expire, InfoExpires
  <2>2. req[q] # Idle /\ req[q].pc \in {"findByEmail", "createUser"} /\ req[q].user \in deleted
    BY DEF Stopped, Idle
  <2>3. ASSUME NEW p \in Reqs \ {r} PROVE req'[p] = req[p]
    BY <2>1 DEF Start, Step, GoogleLogin, DevSignup, DevLogin, RefreshTokens, Logout, Refuse, FindByEmail,
       CreateUser, FindActive, InvalidateSeen, Mark, CreateSession, StoreHash, CacheInfo, Respond,
       InvalidateOwned, CreateHashed, Rotate, ExpireRow, FindAll, InvalidateAll, CheckMark, ReadInfo,
       ReadRow, CacheValidated, InvalidateOne, ClearInfo, Die, Begin, Goto, Finish, Leave, ThenMark,
       vars, AInv, IInv, TypeOK
  <2>4. r = q
    BY <1>3, <2>3
  <2>5. ~Start(q)
    BY <1>3, <2>2 DEF Start, GoogleLogin, DevSignup, DevLogin, RefreshTokens, Logout, Refuse, Begin, vars
  <2>6. ~Die(q)
    BY DEF Die, Finish, Idle, LoginKinds, AInv, IInv, TypeOK
  <2>7. FindByEmail(q) \/ CreateUser(q)
    BY <2>1, <2>2, <2>4, <2>5, <2>6 DEF Step, FindActive, InvalidateSeen, Mark, CreateSession, StoreHash,
       CacheInfo, Respond, InvalidateOwned, CreateHashed, Rotate, ExpireRow, FindAll, InvalidateAll,
       CheckMark, ReadInfo, ReadRow, CacheValidated, InvalidateOne, ClearInfo, At
  <2>8. ~CreateUser(q)
    BY <2>2 DEF CreateUser, Finish, Idle, LoginKinds, AInv, IInv, TypeOK
  <2>9. Goto(q, "createUser")
    BY <2>7, <2>8 DEF FindByEmail, Finish, Idle, LoginKinds, AInv, IInv, TypeOK
  <2>10. QED
    BY <1>1, <2>2, <2>9 DEF Goto, Stopped, AInv, IInv, TypeOK, Request
<1>4. QED
  BY <1>2, <1>3

\* The composition's invariant survives the steps of the auth service.
LEMMA AuthKeeps ==
  ASSUME AInv, Next, Barring, UNCHANGED call
  PROVE  AInv'
<1>1. IInv'
  BY NextKeeps DEF AInv
<1>2. CallsTypeOK'
  BY DEF Barring, CallsTypeOK, AInv
<1>3. deleted' = deleted /\ \A u \in Users : account[u] # "absent" => account'[u] # "absent"
  BY AuthKeepsRows DEF AInv
<1>4. deleted \subseteq Users /\ \A c \in Calls : CallAt(c, "deleteRow") => call[c].user \in Users
  BY DEF AInv, IInv, TypeOK, CallsTypeOK, CallAt, NoCall
<1>5. ASSUME NEW q \in barred' PROVE Stopped(q)'
  <2>1. q \in Reqs /\ req'[q].kind \in LoginKinds
    BY <1>5 DEF Barring
  <2>2. CASE q \in barred
    BY <2>1, <2>2, StoppedStays DEF AInv
  <2>3. CASE req[q] = Idle /\ req'[q].user \in deleted
    <3>1. req'[q] # Idle
      BY <2>1 DEF Idle, LoginKinds
    <3>2. PICK r \in Reqs : Start(r) \/ Step(r) \/ Die(r)
      BY <2>3, <3>1 DEF Next, Expire, InfoExpires
    <3>3. CASE Start(r)
      BY <2>1, <2>3, <3>3, StartStops
    <3>4. CASE Step(r) \/ Die(r)
      <4>1. req[r].pc # "idle"
        BY <3>4 DEF Step, FindByEmail, CreateUser, FindActive, InvalidateSeen, Mark, CreateSession,
           StoreHash, CacheInfo, Respond, InvalidateOwned, CreateHashed, Rotate, ExpireRow, FindAll,
           InvalidateAll, CheckMark, ReadInfo, ReadRow, CacheValidated, InvalidateOne, ClearInfo, Die, At
      <4>2. q # r
        BY <2>3, <4>1 DEF Idle
      <4>3. req'[q] = req[q]
        BY <2>1, <3>4, <4>2 DEF Step, FindByEmail, CreateUser, FindActive, InvalidateSeen, Mark,
           CreateSession, StoreHash, CacheInfo, Respond, InvalidateOwned, CreateHashed, Rotate,
           ExpireRow, FindAll, InvalidateAll, CheckMark, ReadInfo, ReadRow, CacheValidated,
           InvalidateOne, ClearInfo, Die, Goto, Finish, Leave, ThenMark, AInv, IInv, TypeOK
      <4>4. QED
        BY <2>3, <3>1, <4>3
    <3>5. QED
      BY <3>2, <3>3, <3>4
  <2>4. QED
    BY <1>5, <2>2, <2>3 DEF Barring
<1>6. QED
  BY <1>1, <1>2, <1>3, <1>4, <1>5 DEF AInv, CallAt

\* A step of the composition is a step of one of its two parts.
LEMMA AccountSteps ==
  AccountNext => \/ Next /\ Barring /\ UNCHANGED call
                 \/ \E c \in Calls : CallNext(c)
BY DEF AccountNext, AuthStep, InfoFades, Next

\* AInv is inductive.
LEMMA AccountKeeps == AInv /\ [AccountNext]_accountVars => AInv'
<1> SUFFICES ASSUME AInv, [AccountNext]_accountVars PROVE AInv'
  OBVIOUS
<1>1. CASE UNCHANGED accountVars
  <2>1. IInv'
    BY <1>1, NextKeeps DEF accountVars, AInv
  <2>2. QED
    BY <1>1, <2>1 DEF accountVars, vars, db, AInv, CallsTypeOK, Stopped, CallAt
<1>2. QED
  BY <1>1, AccountSteps, AuthKeeps, CallKeeps

-----------------------------------------------------------------------------
(* Theorems *)

\* The composition keeps its invariant, for any number of users, requests and calls.
THEOREM AccountInvariance == AccountSpec => []AInv
BY InitAInv, AccountKeeps, PTL DEF AccountSpec

\* Every account call carries a user and an await of its own (user.controller.ts).
THEOREM CallsTypeCorrect == AccountSpec => []CallsTypeOK
BY AccountInvariance, PTL DEF AInv

\* With accounts deleted and restored beside the logins, session_invalid still never
\* contradicts a valid row.
THEOREM AccountMarksNeverContradict == AccountSpec => []MarkedStaysOut
<1>1. AInv => MarkedStaysOut
  BY DEF AInv, IInv
<1>2. QED
  BY <1>1, AccountInvariance, PTL

\* A login that began on a deleted account opens no session unless the account is
\* restored before (auth.service.ts:134-187, soft-delete.middleware.ts:51-79).
THEOREM DeletedStayOut == AccountSpec => []DeletedCannotLogIn
<1>1. AInv => DeletedCannotLogIn
  BY DEF AInv, Stopped, DeletedCannotLogIn
<1>2. QED
  BY <1>1, AccountInvariance, PTL

\* Deleting and restoring accounts moves no session: the composition implements the
\* session table of SessionLifecycle.
THEOREM AccountRefinement == AccountSpec => ImplementsLifecycle
<1>1. AccountInit => Lifecycle!Init
  BY DEF AccountInit, Init, Lifecycle!Init
<1>2. AInv /\ [AccountNext]_accountVars => [Lifecycle!Next]_(Lifecycle!vars)
  <2> SUFFICES ASSUME AInv, [AccountNext]_accountVars PROVE [Lifecycle!Next]_(Lifecycle!vars)
    OBVIOUS
  <2>1. ASSUME NEW c \in Calls, CallNext(c) PROVE UNCHANGED <<owner, valid>>
    BY <2>1, CallWrites DEF CallFrame
  <2>2. CASE UNCHANGED accountVars
    BY <2>2, RowsKept DEF accountVars, vars, db
  <2>3. QED
    BY <2>1, <2>2, AccountSteps, NextRefines, RowsKept DEF AInv
<1>3. QED
  BY <1>1, <1>2, AccountInvariance, PTL DEF AccountSpec, ImplementsLifecycle, Lifecycle!Spec

\* Where no answer is lost, account calls do not lose the current token either.
THEOREM AccountTokenStaysReachable ==
  ASSUME ~RequestsMayDie
  PROVE  AccountSpec => []CurrentTokenReachable
<1>1. AccountInit => Reachable
  BY DEF AccountInit, Init, Reachable
<1>2. AInv /\ Reachable /\ [AccountNext]_accountVars => Reachable'
  <2> SUFFICES ASSUME AInv, Reachable, [AccountNext]_accountVars PROVE Reachable'
    OBVIOUS
  <2>1. ASSUME NEW c \in Calls, CallNext(c) PROVE Reachable'
    BY <2>1, CallWrites DEF CallFrame, Reachable, Delivering
  <2>2. CASE UNCHANGED accountVars
    BY <2>2, ReachableKept DEF accountVars, AInv
  <2>3. QED
    BY <2>1, <2>2, AccountSteps, ReachableKept DEF AInv
<1>3. AInv /\ Reachable => CurrentTokenReachable
  BY DEF AInv, IInv, TypeOK, Reachable, Delivering, CurrentTokenReachable
<1>4. QED
  BY <1>1, <1>2, <1>3, AccountInvariance, PTL DEF AccountSpec

\* Deleted and restored accounts keep their rows, so the bound holds in the composition.
THEOREM AccountOverrunsAreBounded == AccountSpec => []BoundedOverrun
<1>1. AccountInit => LimitInv
  BY InitLimitInv DEF AccountInit
<1>2. AInv /\ LimitInv /\ [AccountNext]_accountVars => LimitInv'
  <2> SUFFICES ASSUME AInv, LimitInv, [AccountNext]_accountVars PROVE LimitInv'
    OBVIOUS
  <2>1. ASSUME NEW c \in Calls, CallNext(c) PROVE LimitInv'
    <3>1. account' = account /\ owner' = owner /\ valid' = valid /\ req' = req
      BY <2>1, CallWrites DEF CallFrame
    <3>2. RowsFirst' /\ Quiet
      BY <3>1 DEF LimitInv, RowsFirst, Quiet, Seeks
    <3>3. QED
      BY <3>2, QuietKeeps DEF LimitInv
  <2>2. CASE UNCHANGED accountVars
    BY <2>2, LimitKept DEF accountVars, AInv
  <2>3. QED
    BY <2>1, <2>2, AccountSteps, LimitKept DEF AInv
<1>3. LimitInv => BoundedOverrun
  BY ExplainedBound DEF LimitInv, AllExplained, BoundedOverrun
<1>4. QED
  BY <1>1, <1>2, <1>3, AccountInvariance, PTL DEF AccountSpec
=============================================================================
