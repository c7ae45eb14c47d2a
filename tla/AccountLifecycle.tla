--------------------------- MODULE AccountLifecycle ---------------------------
(***************************************************************************)
(* src/src/user composed with AuthService: reading and changing one's own  *)
(* profile, deleting the account and restoring it, while logins, rotations *)
(* and logouts of the same user are in flight.                             *)
(*                                                                         *)
(* The two services share the user row (deletedAt) and the user_info key.  *)
(* A call in flight is a record call[c] with its await in pc, as in        *)
(* AuthService.  Name and picture are dropped: what matters of a row is    *)
(* whether it is deleted, and of the key whether it is there.              *)
(***************************************************************************)
EXTENDS AuthService

CONSTANT Calls  \* UserController requests in flight at one time

VARIABLES
  call,
  barred  \* history: logins begun on a deleted account not restored since

accountVars == <<vars, call, barred>>

CallKinds == {"profile", "update", "delete", "restore"}
CallAwaits == {"getInfo", "findRow", "setInfo", "findLive", "updateRow", "deleteRow",
               "sessionKeys", "delInfo", "findDeleted", "restoreRow"}
NoCall == [pc |-> "idle", kind |-> "none", user |-> None]
CallRecord == [pc : CallAwaits \cup {"idle"}, kind : CallKinds \cup {"none"},
               user : Users \cup {None}]

CallAt(c, l) == call[c].pc = l
CallGoto(c, l) == call' = [call EXCEPT ![c].pc = l]
Return(c) == call' = [call EXCEPT ![c] = NoCall]

-----------------------------------------------------------------------------
(* UserController: /users/me asks for an access token and no more, /restore  *)
(* takes the id from its body.                                               *)

HasAccessToken(u) == \E t \in held : owner[issuedFor[t]] = u

\* Faulty variant: the caller's id does not reach the service.
BeginCallAnonymous(c, k, u, l) ==
  /\ call[c] = NoCall
  /\ call' = [call EXCEPT ![c] = [pc |-> l, kind |-> k, user |-> None]]
  /\ UNCHANGED <<vars, barred>>
BeginCall(c, k, u, l) ==
  /\ call[c] = NoCall
  /\ call' = [call EXCEPT ![c] = [pc |-> l, kind |-> k, user |-> u]]
  /\ UNCHANGED <<vars, barred>>

GetMyProfile(c, u) == HasAccessToken(u) /\ BeginCall(c, "profile", u, "getInfo")
UpdateMyProfile(c, u) == HasAccessToken(u) /\ BeginCall(c, "update", u, "findLive")
DeleteMyAccount(c, u) == HasAccessToken(u) /\ BeginCall(c, "delete", u, "findLive")
RestoreAccount(c, u) == BeginCall(c, "restore", u, "findDeleted")

-----------------------------------------------------------------------------
(* UserService *)

\* findById: a hit ends the call, an error counts as a miss.
GetInfo(c) ==
  /\ CallAt(c, "getInfo")
  /\ \/ call[c].user \in info /\ Return(c)
     \/ (call[c].user \notin info \/ CacheMayFail) /\ CallGoto(c, "findRow")
  /\ UNCHANGED <<vars, barred>>

FindRow(c) ==
  /\ CallAt(c, "findRow")
  /\ IF Findable(call[c].user) THEN CallGoto(c, "setInfo") ELSE Return(c)
  /\ UNCHANGED <<vars, barred>>

\* The row read (profile), written (update) or restored goes into the cache;
\* the controller reads the profile back after an update and a restore.
SetInfo(c) ==
  /\ CallAt(c, "setInfo")
  /\ CacheWrites(info' = info \cup {call[c].user}, info' = info)
  /\ IF call[c].kind = "profile" THEN Return(c)
     ELSE call' = [call EXCEPT ![c].pc = "getInfo", ![c].kind = "profile"]
  /\ UNCHANGED <<db, tokens, marked, req, barred>>

\* Faulty variant: the row is looked up by id alone.
FindAnyRow(c) ==
  /\ CallAt(c, "findLive")
  /\ CallGoto(c, IF call[c].kind = "update" THEN "updateRow" ELSE "deleteRow")
  /\ UNCHANGED <<vars, barred>>
\* update and softDelete look for a live row first: 404 without one.
FindLive(c) ==
  /\ CallAt(c, "findLive")
  /\ IF Findable(call[c].user)
     THEN CallGoto(c, IF call[c].kind = "update" THEN "updateRow" ELSE "deleteRow")
     ELSE Return(c)
  /\ UNCHANGED <<vars, barred>>

\* update({ where: { id } }): a row deleted meanwhile is written all the same.
UpdateRow(c) ==
  /\ CallAt(c, "updateRow")
  /\ CallGoto(c, "delInfo")
  /\ UNCHANGED <<vars, barred>>

DeleteRow(c) ==
  /\ CallAt(c, "deleteRow")
  /\ deleted' = deleted \cup {call[c].user}
  /\ CallGoto(c, "sessionKeys")
  /\ UNCHANGED <<account, owner, valid, hash, expired, tokens, cache, req, barred>>

\* invalidateUserSessions deletes user_session and session:* keys, which nothing
\* writes; the session rows stay as they are.
InvalidateUserSessions(c) ==
  /\ CallAt(c, "sessionKeys")
  /\ CallGoto(c, "delInfo")
  /\ UNCHANGED <<vars, barred>>

DelInfo(c) ==
  /\ CallAt(c, "delInfo")
  /\ CacheWrites(info' = info \ {call[c].user}, info' = info)
  /\ IF call[c].kind = "update" THEN CallGoto(c, "setInfo") ELSE Return(c)
  /\ UNCHANGED <<db, tokens, marked, req, barred>>

FindDeleted(c) ==
  /\ CallAt(c, "findDeleted")
  /\ IF call[c].user \in deleted THEN CallGoto(c, "restoreRow") ELSE Return(c)
  /\ UNCHANGED <<vars, barred>>

RestoreRow(c) ==
  /\ CallAt(c, "restoreRow")
  /\ deleted' = deleted \ {call[c].user}
  /\ barred' = {r \in barred : req[r].user # call[c].user}
  /\ CallGoto(c, "setInfo")
  /\ UNCHANGED <<account, owner, valid, hash, expired, tokens, cache, req>>

\* The process stops, or MySQL fails, at any await.
DieCall(c) ==
  /\ RequestsMayDie
  /\ ~CallAt(c, "idle")
  /\ Return(c)
  /\ UNCHANGED <<vars, barred>>

CallStep(c) ==
  \/ GetInfo(c) \/ FindRow(c) \/ SetInfo(c) \/ FindLive(c) \/ UpdateRow(c)
  \/ DeleteRow(c) \/ InvalidateUserSessions(c) \/ DelInfo(c)
  \/ FindDeleted(c) \/ RestoreRow(c)

CallNext(c) ==
  \/ \E u \in Users : \/ GetMyProfile(c, u) \/ UpdateMyProfile(c, u)
                      \/ DeleteMyAccount(c, u) \/ RestoreAccount(c, u)
  \/ CallStep(c)
  \/ DieCall(c)

-----------------------------------------------------------------------------
(* Composition: AuthService keeps its steps, and the history follows them. *)

Barring ==
  barred' = {r \in Reqs :
    /\ req'[r].kind \in LoginKinds
    /\ r \in barred \/ (req[r] = Idle /\ req'[r].user \in deleted)}

AuthStep(r) == Step(r) /\ Barring /\ UNCHANGED call

InfoFades(u) == InfoExpires(u) /\ Barring /\ UNCHANGED call

AccountInit == Init /\ call = [c \in Calls |-> NoCall] /\ barred = {}

AccountNext ==
  \/ \E r \in Reqs : AuthStep(r)
  \/ (\E r \in Reqs : Start(r) \/ Die(r)) /\ Barring /\ UNCHANGED call
  \/ (\E s \in Sids : Expire(s)) /\ Barring /\ UNCHANGED call
  \/ \E u \in Users : InfoFades(u)
  \/ \E c \in Calls : CallNext(c)

AccountSpec == AccountInit /\ [][AccountNext]_accountVars

\* As in AuthService; and Redis drops a key whose TTL has run out.
AccountFairSpec ==
  /\ AccountSpec
  /\ \A r \in Reqs : WF_accountVars(AuthStep(r))
  /\ \A c \in Calls : WF_accountVars(CallStep(c))
  /\ \A u \in Users : WF_accountVars(InfoFades(u))

-----------------------------------------------------------------------------
(* Properties *)

CallsTypeOK ==
  /\ call \in [Calls -> CallRecord]
  /\ \A c \in Calls : call[c] # NoCall => call[c].user \in Users /\ call[c].pc # "idle"
  /\ barred \subseteq {r \in Reqs : req[r].kind \in LoginKinds}

\* A login that began on a deleted account opens no session unless the account is
\* restored before: the hidden row is not found, and cannot be made a second time.
DeletedCannotLogIn == \A r \in barred : req[r].sid = None

\* If an account stays deleted and nobody uses its old sessions, its profile is out
\* of the cache for good: fills by requests and calls that overlapped the deletion
\* expire, and none follows them.
DeletedProfileFades ==
  \A u \in Users :
    <>[](u \in deleted /\ \A r \in Reqs : req[r].user # u) => <>[](u \notin info)

\* Every request and every call ends.
AllFinish ==
  /\ RequestsFinish
  /\ \A c \in Calls : ~CallAt(c, "idle") ~> CallAt(c, "idle")

\* user.service.ts:193: "해당 사용자의 모든 세션 무효화".  The code deletes cache keys
\* nobody writes, so the session rows survive the account.
SoftDeleteClosesSessions ==
  \A c \in Calls, u \in Users :
    CallAt(c, "delInfo") /\ call[c].kind = "delete" /\ call[c].user = u => Active(u) = {}
=============================================================================
