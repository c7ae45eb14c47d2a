----------------------------- MODULE ReadThrough -----------------------------
(***************************************************************************)
(* The rows that are read through Redis by ProblemService, ProgressService *)
(* and AchievementService, and what CacheService does when Redis fails:    *)
(* a get becomes a miss, a set or del is skipped, nobody is told.          *)
(*                                                                         *)
(* An entry is one row (for achievements: one user's list) with its key.   *)
(* A row's contents are the number of writes it has seen; a problem that   *)
(* is deleted keeps its number and is no longer live.  user_stats is read  *)
(* the same way and is in Submission, where its contents matter.           *)
(***************************************************************************)
EXTENDS Naturals, FiniteSets

CONSTANTS
  Entries,      \* records [kind, user, id]
  Procs,        \* processes of the PM2 cluster, each with its own Redis client
  Reqs,         \* requests in flight at one time
  MaxWrites,    \* bound: writes to all rows together
  None,
  RedisMayFail  \* Redis may be out of reach at a start or at a call

ASSUME EntryKinds == \A e \in Entries : e.kind \in {"problem", "progress", "achievements"}
\* One entry per problem, per user and topic, and per user's list.
ASSUME EntryIdentity ==
  \A e, f \in Entries :
    /\ e.kind = f.kind
    /\ e.kind # "achievements" => e.id = f.id
    /\ e.kind # "problem" => e.user = f.user
    => e = f
ASSUME Bounds == MaxWrites \in Nat /\ RedisMayFail \in BOOLEAN

VARIABLES
  row,        \* row[e]: writes the row has seen, 0 if it was never written
  live,       \* entries whose row can be found
  writes,     \* writes so far
  copy,       \* copy[k]: what Redis holds under key k: [of, v, timed], or None
  connected,  \* processes with stats.connected
  req,
  spoilt      \* history: entries whose copy was filled late, or outlived a lost del

vars == <<row, live, writes, copy, connected, req, spoilt>>

Idle == [pc |-> "idle", kind |-> "none", proc |-> None, entry |-> None, v |-> 0]
ReqKinds == {"read", "create", "update", "delete", "stats", "progress", "grant"}
Request == [pc : {"idle", "get", "find", "set", "findExisting", "write", "del", "delList"},
            kind : ReqKinds \cup {"none"}, proc : Procs \cup {None},
            entry : Entries \cup {None}, v : Nat]

Copies == [of : Entries, v : Nat, timed : BOOLEAN]
ASSUME NoneAssumption == None \notin Copies

-----------------------------------------------------------------------------
(* CacheService *)

\* Faulty variant: the user is left out of the key.
KeyForgetsUser(e) == <<e.kind, e.id>>
\* CACHE_KEYS
Key(e) ==
  CASE e.kind = "problem" -> <<"problem", e.id>>
    [] e.kind = "progress" -> <<"user_progress", e.user, e.id>>
    [] OTHER -> <<"user_achievements", e.user>>
Keys == {Key(e) : e \in Entries}

\* onModuleInit: the client connects once; a failure is logged, and the process
\* goes on without a cache for as long as it lives.
OnModuleInit(p) ==
  \/ connected' = connected \cup {p}
  \/ RedisMayFail /\ connected' = connected \ {p}

\* get: hit(c) is what follows a hit c, miss what follows a miss or an error.
Get(p, e, hit, miss) ==
  \/ p \in connected /\ copy[Key(e)] # None /\ hit
  \/ (p \notin connected \/ RedisMayFail \/ copy[Key(e)] = None) /\ miss

\* Faulty variant: the time to live is not passed on.
PutForGood(e, v) == [copy EXCEPT ![Key(e)] = [of |-> e, v |-> v, timed |-> FALSE]]
\* set with EX: every caller passes a TTL.
Put(e, v) == [copy EXCEPT ![Key(e)] = [of |-> e, v |-> v, timed |-> TRUE]]

Set(p, e, v) ==
  \/ /\ p \in connected
     /\ copy' = Put(e, v)
     /\ spoilt' = IF v = row[e] /\ e \in live THEN spoilt \ {e} ELSE spoilt \cup {e}
  \/ (p \notin connected \/ RedisMayFail) /\ UNCHANGED <<copy, spoilt>>

Del(p, e) ==
  \/ /\ p \in connected
     /\ copy' = [copy EXCEPT ![Key(e)] = None]
     /\ spoilt' = spoilt \ {e}
  \/ /\ p \notin connected \/ RedisMayFail
     /\ UNCHANGED copy
     /\ spoilt' = spoilt \cup {e}

\* The TTL of a key runs out.
Fade(e) ==
  /\ copy[Key(e)] # None /\ copy[Key(e)].timed
  /\ copy' = [copy EXCEPT ![Key(e)] = None]
  /\ spoilt' = spoilt \ {e}
  /\ UNCHANGED <<row, live, writes, connected, req>>

-----------------------------------------------------------------------------
(* Controllers: a request arrives in some process. *)

At(r, l) == req[r].pc = l
Goto(r, l) == req' = [req EXCEPT ![r].pc = l]
Finish(r) == req' = [req EXCEPT ![r] = Idle]

\* Faulty variant: the id does not reach the service.
BeginAnonymous(r, p, k, e, l) ==
  /\ req[r] = Idle
  /\ req' = [req EXCEPT ![r] = [pc |-> l, kind |-> k, proc |-> p, entry |-> None, v |-> 0]]
  /\ UNCHANGED <<row, live, writes, copy, connected, spoilt>>
Begin(r, p, k, e, l) ==
  /\ req[r] = Idle
  /\ req' = [req EXCEPT ![r] = [pc |-> l, kind |-> k, proc |-> p, entry |-> e, v |-> 0]]
  /\ UNCHANGED <<row, live, writes, copy, connected, spoilt>>

\* Bound: a write starts only if it stays within MaxWrites.
BeginWrite(r, p, k, e, l) ==
  /\ writes + Cardinality({q \in Reqs : req[q].kind \notin {"none", "read"}}) < MaxWrites
  /\ Begin(r, p, k, e, l)

FindProblem(r, p, e) == e.kind = "problem" /\ Begin(r, p, "read", e, "get")
FindMyTopicProgress(r, p, e) == e.kind = "progress" /\ Begin(r, p, "read", e, "get")
FindMyAchievements(r, p, e) == e.kind = "achievements" /\ Begin(r, p, "read", e, "get")
\* The id of a new problem is fresh.
CreateProblem(r, p, e) ==
  /\ e.kind = "problem" /\ row[e] = 0
  /\ \A q \in Reqs : ~(req[q].kind = "create" /\ req[q].entry = e)
  /\ BeginWrite(r, p, "create", e, "write")
UpdateProblem(r, p, e) == e.kind = "problem" /\ BeginWrite(r, p, "update", e, "findExisting")
DeleteProblem(r, p, e) == e.kind = "problem" /\ BeginWrite(r, p, "delete", e, "findExisting")

\* Called by AttemptService.submit: ProblemService.updateStats, for a problem it
\* has found; updateProgress; and a grant by checkAchievements.
UpdateStats(r, p, e) ==
  e.kind = "problem" /\ row[e] > 0 /\ BeginWrite(r, p, "stats", e, "write")
UpdateProgress(r, p, e) ==
  e.kind = "progress" /\ BeginWrite(r, p, "progress", e, "findExisting")
GrantAchievement(r, p, e) ==
  e.kind = "achievements" /\ BeginWrite(r, p, "grant", e, "write")

\* Lists that only read the database: no cached copy is involved.
ListRows(r) == req[r] = Idle /\ UNCHANGED vars

-----------------------------------------------------------------------------
(* Services *)

GetCopy(r) ==
  /\ At(r, "get")
  /\ Get(req[r].proc, req[r].entry, Finish(r), Goto(r, "find"))
  /\ UNCHANGED <<row, live, writes, copy, connected, spoilt>>

\* A problem or progress row that is not there is a 404; a list may be empty.
Find(r) ==
  LET e == req[r].entry
  IN /\ At(r, "find")
     /\ IF e \in live
        THEN req' = [req EXCEPT ![r].pc = "set", ![r].v = row[e]]
        ELSE Finish(r)
     /\ UNCHANGED <<row, live, writes, copy, connected, spoilt>>

\* Whatever has been written since the row was read, the copy read is stored.
SetCopy(r) ==
  /\ At(r, "set")
  /\ Set(req[r].proc, req[r].entry, req[r].v)
  /\ Finish(r)
  /\ UNCHANGED <<row, live, writes, connected>>

\* Read before a write: update and delete need the problem, updateProgress
\* takes any row or none.
FindExisting(r) ==
  /\ At(r, "findExisting")
  /\ IF req[r].entry \in live \/ req[r].kind = "progress" THEN Goto(r, "write") ELSE Finish(r)
  /\ UNCHANGED <<row, live, writes, copy, connected, spoilt>>

\* The row is written by its id alone; a write to a problem deleted meanwhile is
\* hidden with its row.
Write(r) ==
  LET e == req[r].entry
      k == req[r].kind
  IN /\ At(r, "write")
     /\ writes' = writes + 1
     /\ \/ /\ k = "create" \/ k \in {"progress", "grant"}
           /\ live' = live \cup {e}
           /\ row' = [row EXCEPT ![e] = @ + 1]
        \/ /\ k \in {"update", "stats"}
           /\ row' = IF e \in live THEN [row EXCEPT ![e] = @ + 1] ELSE row
           /\ UNCHANGED live
        \/ /\ k = "delete"
           /\ live' = live \ {e}
           /\ UNCHANGED row
     /\ Goto(r, IF k = "create" THEN "delList" ELSE "del")
     /\ UNCHANGED <<copy, connected, spoilt>>

\* Faulty variant: the answer is sent without invalidating the copy.
DelCopySkipped(r) ==
  /\ At(r, "del") /\ Finish(r)
  /\ UNCHANGED <<row, live, writes, copy, connected, spoilt>>
DelCopy(r) ==
  /\ At(r, "del")
  /\ Del(req[r].proc, req[r].entry)
  /\ IF req[r].kind \in {"update", "delete"} THEN Goto(r, "delList") ELSE Finish(r)
  /\ UNCHANGED <<row, live, writes, connected>>

\* invalidateProblemListCache deletes a key that nothing writes.
InvalidateProblemListCache(r) ==
  /\ At(r, "delList")
  /\ Finish(r)
  /\ UNCHANGED <<row, live, writes, copy, connected, spoilt>>

\* PM2 restarts a process: its requests are gone, with the invalidations they
\* had still to make, and it connects to Redis anew.
Restart(p) ==
  LET lost == {r \in Reqs : req[r].proc = p}
  IN /\ OnModuleInit(p)
     /\ req' = [r \in Reqs |-> IF r \in lost THEN Idle ELSE req[r]]
     /\ spoilt' = spoilt \cup {req[r].entry : r \in {q \in lost : At(q, "del")}}
     /\ UNCHANGED <<row, live, writes, copy>>

Step(r) ==
  \/ GetCopy(r) \/ Find(r) \/ SetCopy(r) \/ FindExisting(r) \/ Write(r)
  \/ DelCopy(r) \/ InvalidateProblemListCache(r)

Arrive(r, p, e) ==
  \/ FindProblem(r, p, e) \/ FindMyTopicProgress(r, p, e) \/ FindMyAchievements(r, p, e)
  \/ CreateProblem(r, p, e) \/ UpdateProblem(r, p, e) \/ DeleteProblem(r, p, e)
  \/ UpdateStats(r, p, e) \/ UpdateProgress(r, p, e) \/ GrantAchievement(r, p, e)

Init ==
  /\ row = [e \in Entries |-> 0]
  /\ live = {e \in Entries : e.kind = "achievements"}
  /\ writes = 0
  /\ copy = [k \in Keys |-> None]
  /\ connected \in IF RedisMayFail THEN SUBSET Procs ELSE {Procs}
  /\ req = [r \in Reqs |-> Idle]
  /\ spoilt = {}

Next ==
  \/ \E r \in Reqs, p \in Procs, e \in Entries : Arrive(r, p, e)
  \/ \E r \in Reqs : Step(r) \/ ListRows(r)
  \/ \E e \in Entries : Fade(e)
  \/ \E p \in Procs : Restart(p)

Spec == Init /\ [][Next]_vars

\* Awaits are resumed, and Redis drops a key when its TTL has run out.
FairSpec ==
  /\ Spec
  /\ \A r \in Reqs : WF_vars(Step(r))
  /\ \A e \in Entries : WF_vars(Fade(e))

-----------------------------------------------------------------------------
(* Properties *)

TypeOK ==
  /\ row \in [Entries -> Nat]
  /\ live \subseteq Entries
  /\ writes \in Nat
  /\ copy \in [Keys -> Copies \cup {None}]
  /\ connected \subseteq Procs
  /\ req \in [Reqs -> Request]
  /\ \A r \in Reqs : req[r] # Idle => req[r].entry \in Entries /\ req[r].proc \in Procs
  /\ spoilt \subseteq Entries

\* A read served from the cache gets a value that this very row has had: no other
\* user's progress, no row that was never written, nothing ahead of the database.
AnswersWereTrue ==
  \A e \in Entries : LET c == copy[Key(e)] IN
    c # None => /\ c.of = e
                /\ c.v <= row[e]
                /\ e.kind # "achievements" => c.v > 0

Stale(e) == LET c == copy[Key(e)] IN c # None /\ (c.v # row[e] \/ e \notin live)

\* A stale copy has one of three causes and no other: a writer that has yet to
\* delete it, a reader that filled it after a write it had not seen, or a delete
\* lost to Redis or to a crash.  Above all, no handler forgets a key.
StaleHasCause ==
  \A e \in Entries : Stale(e) =>
    e \in spoilt \/ \E r \in Reqs : req[r].entry = e /\ At(r, "del")

\* Every cached copy is current in the end, or gone: late fills, lost deletes and
\* processes without Redis are repaired by the TTL alone.
CopiesBecomeCurrent == \A e \in Entries : <>[]~Stale(e)
=============================================================================
