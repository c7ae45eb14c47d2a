----------------------------- MODULE Submission -----------------------------
(***************************************************************************)
(* POST /attempts: AttemptService.submit and what it calls in the problem, *)
(* progress and achievement services, with GET /stats/me beside it.        *)
(*                                                                         *)
(* A submission inserts its attempt and then brings five derived things up *)
(* to date: the problem's statistics, the user's progress on the topic,    *)
(* the user's stats, the achievements and the XP they reward.  Each is     *)
(* read, computed in the process and written back by statements of their   *)
(* own; one action is one awaited call and the code up to the next.        *)
(*                                                                         *)
(* Abstracted: the verdict is an input (grade compares strings), study     *)
(* time is dropped (it accumulates as totalXp does), masteryLevel and      *)
(* correctRate are kept as the two counts they divide, and the caches this *)
(* pipeline only deletes from are left to their readers.  The caller is    *)
(* taken to be identified: the controller's user.id is the user.           *)
(***************************************************************************)
EXTENDS Naturals, FiniteSets, FiniteSetsExt

CONSTANTS
  Users, Problems, Topics, Achievements,
  TopicOf,            \* TopicOf[p]: the topic of problem p
  Condition,          \* Condition[a]: the condition JSON of achievement a
  Reward,             \* Reward[a]: xpReward
  Verdicts,           \* verdicts of grade (bound: those submissions get)
  Reqs,               \* requests (bound: requests ever made)
  None,               \* null
  LastDay,            \* bound: days that pass
  MaxInFlight,        \* bound: requests in flight at once
  CacheMayFail,       \* a cache call may fail; the cache service swallows it
  RequestsMayDie      \* a process may stop, or the database fail, at any await

\* The fields of the condition JSON that checkAchievements looks at.
Known == {"totalXp", "level", "currentStreak", "totalProblemsSolved"}

ASSUME ReqsFinite == IsFiniteSet(Reqs)
ASSUME AchievementsFinite == IsFiniteSet(Achievements)
ASSUME NoneIsFresh == None \notin Users \cup Problems \cup Achievements /\ None \notin Nat
ASSUME NoneIsNoSet == \A A \in SUBSET Achievements : A # None
ASSUME VerdictsTyped == Verdicts \subseteq {"right", "wrong", "ungraded"}
ASSUME TopicsTyped == TopicOf \in [Problems -> Topics]
ASSUME RewardTyped == Reward \in [Achievements -> Nat]
ASSUME ConditionsTyped ==
  \A a \in Achievements : \A f \in DOMAIN Condition[a] \cap Known : Condition[a][f] \in Nat
ASSUME BoundsTyped == LastDay \in Nat \ {0} /\ MaxInFlight \in Nat \ {0}
ASSUME Switches ==
  {CacheMayFail, RequestsMayDie} \subseteq BOOLEAN

VARIABLES
  \* MySQL
  number,    \* number[r]: attemptNumber of the row r inserted, 0 if it has none
  solve,     \* solve[p]: solveCount and the count correctRate was made from
  progress,  \* progress[<<u, t>>]; zeros where there is no row
  stats,     \* stats[u]: the UserStats row, None if there is none
  earned,    \* earned[u]: achievements of the user's UserAchievement rows
  \* Redis
  cached,    \* cached[u]: the user_stats key
  \* time and requests
  today,
  req,
  \* history
  progressed,  \* requests whose progress has been written
  countedOn    \* countedOn[r]: the day r's stats were written, 0 if not yet

db == <<number, solve, progress, stats, earned>>
history == <<progressed, countedOn>>
vars == <<db, cached, today, req, history>>

Callers == {"submit", "check", "controller"}
Ended == {"done", "failed", "dead"}
Awaits == {"count", "create", "problemStats", "readProgress", "upsertProgress",
           "getStats", "findStats", "zeroStats", "fillStats", "upsertStats",
           "delStats", "evaluate", "grant", "rereadStats", "payReward", "delRewarded"}

Stats == [totalXp : Nat, level : Nat, currentStreak : Nat, longestStreak : Nat,
          totalProblemsSolved : Nat, day : Nat]
ASSUME NoneIsNoRow == None \notin Stats

Progress == [problemsSolved : Nat, correctCount : Nat]
NoProgress == [problemsSolved |-> 0, correctCount |-> 0]

Blank == [pc |-> "new", caller |-> "submit", user |-> None, problem |-> None,
          verdict |-> "ungraded", count |-> 0, total |-> None, correct |-> None,
          row |-> NoProgress, seen |-> None, had |-> None, todo |-> {}, granted |-> None]

Request == [pc : Awaits \cup Ended \cup {"new"}, caller : Callers,
            user : Users \cup {None}, problem : Problems \cup {None},
            verdict : {"right", "wrong", "ungraded"}, count : Nat, total : Nat \cup {None},
            correct : Nat \cup {None}, row : Progress, seen : Stats \cup {None},
            had : (SUBSET Achievements) \cup {None}, todo : SUBSET Achievements,
            granted : Achievements \cup {None}]

-----------------------------------------------------------------------------
At(r, l) == req[r].pc = l
InFlight(r) == req[r].pc \in Awaits
Topic(r) == TopicOf[req[r].problem]

Attempts == {r \in Reqs : number[r] # 0}
AttemptsOf(u) == {r \in Attempts : req[r].user = u}
AttemptsAt(u, p) == {r \in AttemptsOf(u) : req[r].problem = p}
AttemptsOn(p) == {r \in Attempts : req[r].problem = p}
WithVerdict(S, V) == {r \in S : req[r].verdict \in V}

Level(xp) == xp \div 100 + 1
XpGain(verdict) == CASE verdict = "right" -> 10 [] verdict = "wrong" -> 2 [] OTHER -> 0

\* Faulty variant: the defaults have no date.
ZeroStatsUndated == [totalXp |-> 0, level |-> 1, currentStreak |-> 0, longestStreak |-> 0,
                     totalProblemsSolved |-> 0, day |-> None]
ZeroStats == [totalXp |-> 0, level |-> 1, currentStreak |-> 0, longestStreak |-> 0,
              totalProblemsSolved |-> 0, day |-> today]

\* Faulty variant: a second attempt on the same day extends the streak too.
StreakEveryTime(st) ==
  IF st.totalProblemsSolved = 0 \/ today - st.day > 1 THEN 1 ELSE st.currentStreak + 1
\* The streak after an attempt on top of stats st: a first attempt starts it,
\* the next day extends it, a longer gap restarts it.
Streak(st) ==
  CASE st.totalProblemsSolved = 0 \/ today - st.day > 1 -> 1
    [] st.totalProblemsSolved # 0 /\ today - st.day = 1 -> st.currentStreak + 1
    [] OTHER -> st.currentStreak

AfterAttempt(st, verdict) ==
  LET xp == st.totalXp + XpGain(verdict)
  IN [totalXp |-> xp, level |-> Level(xp), currentStreak |-> Streak(st),
      longestStreak |-> IF Streak(st) > st.longestStreak THEN Streak(st) ELSE st.longestStreak,
      totalProblemsSolved |-> st.totalProblemsSolved + 1, day |-> today]

\* Faulty variant: one field of the condition is enough.
MetPartly(a, st) == \E f \in DOMAIN Condition[a] \cap Known : st[f] >= Condition[a][f]
\* A condition field the code does not know is not looked at.
Met(a, st) == \A f \in DOMAIN Condition[a] \cap Known : st[f] >= Condition[a][f]

\* del, whose error is swallowed.
Uncaches(u) == cached' = [cached EXCEPT ![u] = None] \/ (CacheMayFail /\ UNCHANGED cached)

\* findStatsByUserId returns st to its caller.
Returned(q, st) ==
  [q EXCEPT !.seen = IF q.caller = "controller" THEN None ELSE st,
            !.pc = CASE q.caller = "submit" -> "upsertStats"
                     [] q.caller = "check" -> "evaluate"
                     [] q.caller = "controller" -> "done"]

-----------------------------------------------------------------------------
(* submit *)

MayStart(r) == req[r] = Blank /\ Cardinality({q \in Reqs : InFlight(q)}) < MaxInFlight

\* The problem is found (cached or not) and the answer graded.
Submit(r, u, p, v) ==
  /\ MayStart(r)
  /\ req' = [req EXCEPT ![r] = [@ EXCEPT !.pc = "count", !.user = u, !.problem = p,
                                         !.verdict = v]]
  /\ UNCHANGED <<db, cached, today, history>>

\* A problem that does not exist is answered 404 before anything is written.
NotFound == UNCHANGED vars

\* Faulty variant: attempts nobody has graded are not counted.
CountGraded(r) ==
  /\ At(r, "count")
  /\ req' = [req EXCEPT ![r] = [@ EXCEPT !.pc = "create",
       !.count = Cardinality(WithVerdict(AttemptsAt(req[r].user, req[r].problem),
                                         {"right", "wrong"}))]]
  /\ UNCHANGED <<db, cached, today, history>>
CountByUserAndProblem(r) ==
  /\ At(r, "count")
  /\ req' = [req EXCEPT ![r] = [@ EXCEPT !.pc = "create",
       !.count = Cardinality(AttemptsAt(req[r].user, req[r].problem))]]
  /\ UNCHANGED <<db, cached, today, history>>

CreateAttempt(r) ==
  /\ At(r, "create")
  /\ number' = [number EXCEPT ![r] = req[r].count + 1]
  /\ req' = [req EXCEPT ![r] = [@ EXCEPT !.pc = "problemStats", !.count = 0]]
  /\ UNCHANGED <<solve, progress, stats, earned, cached, today, history>>

\* getProblemStats issues its two counts together; they run in either order.
CountTotal(r) ==
  /\ At(r, "problemStats") /\ req[r].total = None
  /\ req' = [req EXCEPT ![r].total = Cardinality(AttemptsOn(req[r].problem))]
  /\ UNCHANGED <<db, cached, today, history>>

CountCorrect(r) ==
  /\ At(r, "problemStats") /\ req[r].correct = None
  /\ req' = [req EXCEPT ![r].correct =
               Cardinality(WithVerdict(AttemptsOn(req[r].problem), {"right"}))]
  /\ UNCHANGED <<db, cached, today, history>>

\* Faulty variant: the totals of the last write are incremented instead.
IncrementProblemStats(r) ==
  /\ At(r, "problemStats") /\ req[r].total # None /\ req[r].correct # None
  /\ solve' = [solve EXCEPT ![req[r].problem] =
                 [solveCount |-> req[r].total + 1, correct |-> req[r].correct]]
  /\ req' = [req EXCEPT ![r] = [@ EXCEPT !.total = None, !.correct = None,
       !.pc = IF req[r].verdict = "ungraded" THEN "getStats" ELSE "readProgress"]]
  /\ UNCHANGED <<number, progress, stats, earned, cached, today, history>>
\* An answer nobody has graded yet does not count as progress.
UpdateProblemStats(r) ==
  /\ At(r, "problemStats") /\ req[r].total # None /\ req[r].correct # None
  /\ solve' = [solve EXCEPT ![req[r].problem] =
                 [solveCount |-> req[r].total, correct |-> req[r].correct]]
  /\ req' = [req EXCEPT ![r] = [@ EXCEPT !.total = None, !.correct = None,
       !.pc = IF req[r].verdict = "ungraded" THEN "getStats" ELSE "readProgress"]]
  /\ UNCHANGED <<number, progress, stats, earned, cached, today, history>>

-----------------------------------------------------------------------------
(* updateProgress *)

ReadProgress(r) ==
  /\ At(r, "readProgress")
  /\ req' = [req EXCEPT ![r] = [@ EXCEPT !.pc = "upsertProgress",
                                         !.row = progress[<<req[r].user, Topic(r)>>]]]
  /\ UNCHANGED <<db, cached, today, history>>

UpsertProgress(r) ==
  LET gain == IF req[r].verdict = "right" THEN 1 ELSE 0
  IN /\ At(r, "upsertProgress")
     /\ progress' = [progress EXCEPT ![<<req[r].user, Topic(r)>>] =
          [problemsSolved |-> req[r].row.problemsSolved + 1,
           correctCount |-> req[r].row.correctCount + gain]]
     /\ progressed' = progressed \cup {r}
     /\ req' = [req EXCEPT ![r] = [@ EXCEPT !.pc = "getStats", !.row = NoProgress]]
     /\ UNCHANGED <<number, solve, stats, earned, cached, today, countedOn>>

-----------------------------------------------------------------------------
(* findStatsByUserId, called by the stats update, by checkAchievements and by *)
(* GET /stats/me                                                              *)

GetMyStats(r, u) ==
  /\ MayStart(r)
  /\ req' = [req EXCEPT ![r] = [@ EXCEPT !.pc = "getStats", !.caller = "controller",
                                         !.user = u]]
  /\ UNCHANGED <<db, cached, today, history>>

GetStats(r) ==
  LET hit == cached[req[r].user]
  IN /\ At(r, "getStats")
     /\ \/ hit # None /\ req' = [req EXCEPT ![r] = Returned(@, hit)]
        \/ (hit = None \/ CacheMayFail) /\ req' = [req EXCEPT ![r].pc = "findStats"]
     /\ UNCHANGED <<db, cached, today, history>>

FindStats(r) ==
  LET row == stats[req[r].user]
  IN /\ At(r, "findStats")
     /\ req' = [req EXCEPT ![r] = [@ EXCEPT !.seen = row,
          !.pc = IF row = None THEN "zeroStats" ELSE "fillStats"]]
     /\ UNCHANGED <<db, cached, today, history>>

\* The upsert overwrites a row that has appeared meanwhile.
UpsertZeroStats(r) ==
  /\ At(r, "zeroStats")
  /\ stats' = [stats EXCEPT ![req[r].user] = ZeroStats]
  /\ req' = [req EXCEPT ![r] = [@ EXCEPT !.seen = ZeroStats, !.pc = "fillStats"]]
  /\ UNCHANGED <<number, solve, progress, earned, cached, today, history>>

FillStats(r) ==
  /\ At(r, "fillStats")
  /\ \/ cached' = [cached EXCEPT ![req[r].user] = req[r].seen]
     \/ CacheMayFail /\ UNCHANGED cached
  /\ req' = [req EXCEPT ![r] = Returned(@, req[r].seen)]
  /\ UNCHANGED <<db, today, history>>

-----------------------------------------------------------------------------
(* updateStatsAfterAttempt *)

UpsertStats(r) ==
  LET u == req[r].user
  IN /\ At(r, "upsertStats")
     /\ stats' = [stats EXCEPT ![u] = AfterAttempt(req[r].seen, req[r].verdict)]
     /\ countedOn' = [countedOn EXCEPT ![r] = today]
     /\ req' = [req EXCEPT ![r] = [@ EXCEPT !.pc = "delStats", !.seen = None]]
     /\ UNCHANGED <<number, solve, progress, earned, cached, today, progressed>>

\* Faulty variant: the cached stats survive the update.
DelStatsForgotten(r) ==
  /\ At(r, "delStats")
  /\ req' = [req EXCEPT ![r] = [@ EXCEPT !.pc = "getStats", !.caller = "check"]]
  /\ UNCHANGED <<db, cached, today, history>>
\* The cached stats are dropped and checkAchievements begins.
DelStats(r) ==
  /\ At(r, "delStats")
  /\ Uncaches(req[r].user)
  /\ req' = [req EXCEPT ![r] = [@ EXCEPT !.pc = "getStats", !.caller = "check"]]
  /\ UNCHANGED <<db, today, history>>

-----------------------------------------------------------------------------
(* checkAchievements *)

\* findUserAchievements runs beside findStatsByUserId.
FindEarned(r) ==
  /\ InFlight(r) /\ req[r].caller = "check"
  /\ req[r].pc \in {"getStats", "findStats", "zeroStats", "fillStats", "evaluate"}
  /\ req[r].had = None
  /\ req' = [req EXCEPT ![r].had = earned[req[r].user]]
  /\ UNCHANGED <<db, cached, today, history>>

\* The stats read here decide about every achievement of the loop.
Evaluate(r) ==
  LET met == {a \in Achievements \ req[r].had : Met(a, req[r].seen)}
  IN /\ At(r, "evaluate") /\ req[r].had # None
     /\ req' = [req EXCEPT ![r] = [@ EXCEPT !.todo = met, !.seen = None, !.had = None,
          !.pc = IF met = {} THEN "done" ELSE "grant"]]
     /\ UNCHANGED <<db, cached, today, history>>

\* Faulty variant: no unique column, the reward is paid to whoever comes.
GrantTwice(r) ==
  /\ At(r, "grant")
  /\ \E a \in req[r].todo :
       /\ earned' = [earned EXCEPT ![req[r].user] = @ \cup {a}]
       /\ req' = [req EXCEPT ![r] = [@ EXCEPT !.todo = req[r].todo \ {a}, !.granted = a,
            !.pc = IF Reward[a] > 0 THEN "rereadStats" ELSE "delRewarded"]]
  /\ UNCHANGED <<number, solve, progress, stats, cached, today, history>>
\* createUserAchievement, for the achievements in any order; the unique column
\* makes a second grant throw, which fails the request.
Grant(r) ==
  /\ At(r, "grant")
  /\ \E a \in req[r].todo :
       \/ /\ a \notin earned[req[r].user]
          /\ earned' = [earned EXCEPT ![req[r].user] = @ \cup {a}]
          /\ req' = [req EXCEPT ![r] = [@ EXCEPT !.todo = req[r].todo \ {a}, !.granted = a,
               !.pc = IF Reward[a] > 0 THEN "rereadStats" ELSE "delRewarded"]]
       \/ /\ a \in earned[req[r].user]
          /\ req' = [req EXCEPT ![r] = [@ EXCEPT !.todo = {}, !.pc = "failed"]]
          /\ UNCHANGED earned
  /\ UNCHANGED <<number, solve, progress, stats, cached, today, history>>

RereadStats(r) ==
  LET row == stats[req[r].user]
  IN /\ At(r, "rereadStats")
     /\ req' = [req EXCEPT ![r] = [@ EXCEPT !.seen = row,
          !.pc = IF row = None THEN "delRewarded" ELSE "payReward"]]
     /\ UNCHANGED <<db, cached, today, history>>

PayReward(r) ==
  LET xp == req[r].seen.totalXp + Reward[req[r].granted]
  IN /\ At(r, "payReward")
     /\ stats' = [stats EXCEPT ![req[r].user] =
          [req[r].seen EXCEPT !.totalXp = xp, !.level = Level(xp), !.day = today]]
     /\ req' = [req EXCEPT ![r] = [@ EXCEPT !.pc = "delRewarded", !.seen = None]]
     /\ UNCHANGED <<number, solve, progress, earned, cached, today, history>>

\* Faulty variant: what the reward has changed is judged again.
DelRewardedAgain(r) ==
  /\ At(r, "delRewarded")
  /\ Uncaches(req[r].user)
  /\ req' = [req EXCEPT ![r] = [@ EXCEPT !.granted = None, !.todo = {}, !.pc = "getStats"]]
  /\ UNCHANGED <<db, today, history>>
DelRewarded(r) ==
  /\ At(r, "delRewarded")
  /\ Uncaches(req[r].user)
  /\ req' = [req EXCEPT ![r] = [@ EXCEPT !.granted = None,
                                  !.pc = IF req[r].todo = {} THEN "done" ELSE "grant"]]
  /\ UNCHANGED <<db, today, history>>

-----------------------------------------------------------------------------
(* Surroundings *)

NextDay ==
  /\ today < LastDay
  /\ today' = today + 1
  /\ UNCHANGED <<db, cached, req, history>>

\* The TTL of user_stats runs out.
StatsExpire(u) ==
  /\ cached[u] # None
  /\ cached' = [cached EXCEPT ![u] = None]
  /\ UNCHANGED <<db, today, req, history>>

\* The process stops or the awaited call throws: what was written stays.
Die(r) ==
  /\ RequestsMayDie /\ InFlight(r)
  /\ req' = [req EXCEPT ![r] = [Blank EXCEPT !.pc = "dead",
       !.user = req[r].user, !.problem = req[r].problem, !.verdict = req[r].verdict]]
  /\ UNCHANGED <<db, cached, today, history>>

Step(r) ==
  \/ CountByUserAndProblem(r) \/ CreateAttempt(r)
  \/ CountTotal(r) \/ CountCorrect(r) \/ UpdateProblemStats(r)
  \/ ReadProgress(r) \/ UpsertProgress(r)
  \/ GetStats(r) \/ FindStats(r) \/ UpsertZeroStats(r) \/ FillStats(r)
  \/ UpsertStats(r) \/ DelStats(r)
  \/ FindEarned(r) \/ Evaluate(r) \/ Grant(r) \/ RereadStats(r) \/ PayReward(r)
  \/ DelRewarded(r)

Start(r) ==
  \/ \E u \in Users, p \in Problems, v \in Verdicts : Submit(r, u, p, v)
  \/ \E u \in Users : GetMyStats(r, u)

Init ==
  /\ number = [r \in Reqs |-> 0]
  /\ solve = [p \in Problems |-> [solveCount |-> 0, correct |-> 0]]
  /\ progress = [k \in Users \X Topics |-> NoProgress]
  /\ stats = [u \in Users |-> None]
  /\ earned = [u \in Users |-> {}]
  /\ cached = [u \in Users |-> None]
  /\ today = 1
  /\ req = [r \in Reqs |-> Blank]
  /\ progressed = {}
  /\ countedOn = [r \in Reqs |-> 0]

Next ==
  \/ \E r \in Reqs : Start(r) \/ Step(r) \/ Die(r)
  \/ \E u \in Users : StatsExpire(u)
  \/ NextDay
  \/ NotFound

Spec == Init /\ [][Next]_vars

-----------------------------------------------------------------------------
(* Properties *)

TypeOK ==
  /\ number \in [Reqs -> Nat]
  /\ solve \in [Problems -> [solveCount : Nat, correct : Nat]]
  /\ progress \in [Users \X Topics -> Progress]
  /\ stats \in [Users -> Stats \cup {None}]
  /\ earned \in [Users -> SUBSET Achievements]
  /\ cached \in [Users -> Stats \cup {None}]
  /\ today \in 1..LastDay
  /\ req \in [Reqs -> Request]
  /\ progressed \subseteq Reqs
  /\ countedOn \in [Reqs -> 0..LastDay]

XpOf(S) == MapThenSumSet(LAMBDA a : Reward[a], S)

\* What the user has really done: the stats the attempts and achievements add up to.
EarnedXp(u) ==
  10 * Cardinality(WithVerdict(AttemptsOf(u), {"right"}))
    + 2 * Cardinality(WithVerdict(AttemptsOf(u), {"wrong"}))
    + XpOf(earned[u])
Real(u) == [totalXp |-> EarnedXp(u), level |-> Level(EarnedXp(u)), currentStreak |-> today,
            totalProblemsSolved |-> Cardinality(AttemptsOf(u))]

\* Lost updates only ever lose: whatever overlaps, dies or is served stale from
\* the cache, no derived figure exceeds what the attempts and achievements in the
\* database account for.
StatsNeverOvercount ==
  \A u \in Users : stats[u] # None =>
    \A f \in Known \ {"currentStreak"} : stats[u][f] <= Real(u)[f]

\* Likewise for the progress rows and the problems' statistics.
CountsNeverOvercount ==
  /\ \A u \in Users, t \in Topics :
       LET graded == {r \in WithVerdict(AttemptsOf(u), {"right", "wrong"}) : Topic(r) = t}
       IN /\ progress[<<u, t>>].problemsSolved <= Cardinality(graded)
          /\ progress[<<u, t>>].correctCount <= Cardinality(WithVerdict(graded, {"right"}))
  /\ \A p \in Problems : solve[p].solveCount <= Cardinality(AttemptsOn(p))

\* A submission that counts the user's attempts after another was recorded gets
\* the larger attemptNumber: sorting by it keeps attempts that did not overlap in
\* order, even after two that did share a number.
NumbersFollowOrder ==
  [][\A r \in Reqs : At(r, "count") /\ req'[r].pc = "create" =>
       \A q \in AttemptsAt(req[r].user, req[r].problem) : number[q] <= req'[r].count]_vars

\* An achievement is only ever granted for what the user really did, however
\* stale the stats it was judged by.
EarnedDeserved ==
  \A u \in Users : \A a \in earned[u] : \A f \in DOMAIN Condition[a] \cap Known :
    Condition[a][f] <= Real(u)[f]

\* A streak is never longer than the days that have passed, nor longer than the
\* longest one.
StreaksBounded ==
  \A u \in Users : stats[u] # None =>
    stats[u].currentStreak <= stats[u].longestStreak /\ stats[u].longestStreak <= stats[u].day

\* What is stored and what a request carries, bounded by the requests behind it:
\* the invariant that SubmissionProofs shows inductive.  Counted and Progressed
\* are the requests whose stats and progress have been written, Paid the
\* achievements granted whose reward no request is still about to pay.
Counted(u) == {q \in Reqs : countedOn[q] # 0 /\ req[q].user = u}
Progressed(u, t, V) == {q \in WithVerdict(progressed, V) : req[q].user = u /\ Topic(q) = t}

Owes(x) == x.pc \in {"rereadStats", "payReward"}
Paid(u) == earned[u] \ {req[q].granted : q \in {q \in Reqs : Owes(req[q]) /\ req[q].user = u}}
CountedXp(u) ==
  10 * Cardinality(WithVerdict(Counted(u), {"right"}))
    + 2 * Cardinality(WithVerdict(Counted(u), {"wrong"}))
    + XpOf(Paid(u))

Sound(st, solved, xp, day) ==
  st # None =>
    /\ st.totalProblemsSolved <= solved
    /\ st.totalXp <= xp /\ st.level = Level(st.totalXp)
    /\ st.currentStreak <= st.longestStreak /\ st.longestStreak <= st.day /\ st.day <= day

SoundFor(u, st) == Sound(st, Cardinality(Counted(u)), CountedXp(u), today)

RowSound(row, u, t) ==
  /\ row.problemsSolved <= Cardinality(Progressed(u, t, {"right", "wrong"}))
  /\ row.correctCount <= Cardinality(Progressed(u, t, {"right"}))

\* Achievement a is deserved by these figures.
Deserved(a, solved, xp, day) ==
  LET figures == [totalProblemsSolved |-> solved, totalXp |-> xp, level |-> Level(xp),
                  currentStreak |-> day]
  IN \A f \in DOMAIN Condition[a] \cap Known : Condition[a][f] <= figures[f]

DeservedBy(u, S) == \A a \in S : Deserved(a, Cardinality(Counted(u)), CountedXp(u), today)

BeforeCreate == {"new", "count", "create"}
BeforeProgress == {"problemStats", "readProgress", "upsertProgress"}
BeforeStats ==
  BeforeProgress \cup {"getStats", "findStats", "zeroStats", "fillStats", "upsertStats"}

\* Request r with the record x.
Begun(x) ==
  /\ IF x.pc = "new" THEN x = Blank ELSE x.user \in Users
  /\ x.pc \in {"count", "create"} \cup BeforeProgress => x.problem \in Problems
  /\ x.pc \in BeforeCreate \cup BeforeProgress \cup {"upsertStats"} => x.caller = "submit"
  /\ x.pc \in {"readProgress", "upsertProgress"} => x.verdict # "ungraded"
  /\ x.pc \in {"fillStats", "upsertStats", "evaluate", "payReward"} => x.seen \in Stats
  /\ x.total # None => x.pc = "problemStats"
  /\ Owes(x) => x.granted \in Achievements

Accounted(r, x) ==
  /\ number[r] # 0 => x.user \in Users /\ x.problem \in Problems
  /\ countedOn[r] # 0 => number[r] # 0
  /\ r \in progressed => number[r] # 0 /\ x.verdict # "ungraded"
  /\ x.pc \in BeforeCreate => number[r] = 0
  /\ x.caller = "submit" /\ x.pc \in BeforeStats => number[r] # 0 /\ countedOn[r] = 0
  /\ x.pc \in BeforeProgress => r \notin progressed

Bounded(x) ==
  /\ SoundFor(x.user, x.seen)
  /\ DeservedBy(x.user, x.todo)
  /\ x.pc = "create" => x.count <= Cardinality(AttemptsAt(x.user, x.problem))
  /\ x.total # None => x.total <= Cardinality(AttemptsOn(x.problem))
  /\ x.pc = "upsertProgress" => RowSound(x.row, x.user, TopicOf[x.problem])

IInv ==
  /\ TypeOK
  /\ \A r \in Reqs : Begun(req[r]) /\ Accounted(r, req[r]) /\ Bounded(req[r])
  /\ \A u \in Users : SoundFor(u, stats[u]) /\ SoundFor(u, cached[u]) /\ DeservedBy(u, earned[u])
  /\ \A u \in Users, t \in Topics : RowSound(progress[<<u, t>>], u, t)
  /\ \A p \in Problems : solve[p].solveCount <= Cardinality(AttemptsOn(p))
  /\ \A r \in Attempts : number[r] <= Cardinality(AttemptsAt(req[r].user, req[r].problem))
  /\ \A r \in Reqs : Owes(req[r]) => req[r].granted \in earned[req[r].user]
  /\ \A q, r \in Reqs : Owes(req[q]) /\ Owes(req[r]) /\ req[q].user = req[r].user
                          /\ req[q].granted = req[r].granted => q = r

AtRest == \A r \in Reqs : ~InFlight(r)

\* Where requests come one at a time and nothing fails, every derived figure is
\* exact between requests, and the cached stats are those of the row.
ExactAtRest ==
  AtRest =>
    /\ \A u \in Users, p \in Problems :
         {number[r] : r \in AttemptsAt(u, p)} = 1..Cardinality(AttemptsAt(u, p))
    /\ \A p \in Problems :
         solve[p] = [solveCount |-> Cardinality(AttemptsOn(p)),
                     correct |-> Cardinality(WithVerdict(AttemptsOn(p), {"right"}))]
    /\ \A u \in Users, t \in Topics :
         LET on == {r \in AttemptsOf(u) : Topic(r) = t}
         IN progress[<<u, t>>] =
              [problemsSolved |-> Cardinality(WithVerdict(on, {"right", "wrong"})),
               correctCount |-> Cardinality(WithVerdict(on, {"right"}))]
    /\ \A u \in Users :
         /\ AttemptsOf(u) # {} =>
              /\ stats[u] # None
              /\ \A f \in Known \ {"currentStreak"} : stats[u][f] = Real(u)[f]
         /\ cached[u] \in {None, stats[u]}

\* The most calls that a request with the record x can still make: those of submit,
\* those of checkAchievements before its loop, and four for each achievement.
CallsLeft(x) ==
  LET loop == 4 * Cardinality(Achievements)
      rounds == 4 * Cardinality(x.todo)
      pending(v) == IF v = None THEN 1 ELSE 0
      reading == CASE x.pc = "getStats" -> 4 [] x.pc = "findStats" -> 3
                   [] x.pc = "zeroStats" -> 2 [] x.pc = "fillStats" -> 1 [] OTHER -> 0
  IN CASE x.pc = "count" -> loop + 19
       [] x.pc = "create" -> loop + 18
       [] x.pc = "problemStats" -> loop + 15 + pending(x.total) + pending(x.correct)
       [] x.pc = "readProgress" -> loop + 14
       [] x.pc = "upsertProgress" -> loop + 13
       [] x.pc = "upsertStats" -> loop + 8
       [] x.pc = "delStats" -> loop + 7
       [] x.pc = "grant" -> rounds
       [] x.pc = "rereadStats" -> rounds + 3
       [] x.pc = "payReward" -> rounds + 2
       [] x.pc = "delRewarded" -> rounds + 1
       [] x.pc \in Ended \cup {"new"} -> 0
       [] OTHER -> reading + CASE x.caller = "submit" -> loop + 8
                               [] x.caller = "check" -> loop + 1 + pending(x.had)
                               [] OTHER -> 0

\* A request gets through its loop over the achievements whatever others grant,
\* pay or delete meanwhile (achievement.service.ts:209-253): no call it makes
\* brings back one it has made, so that their number is bounded from its start.
CallsRunOut ==
  [][\A r \in Reqs : InFlight(r) /\ req'[r] # req[r] =>
       CallsLeft(req'[r]) < CallsLeft(req[r])]_vars

\* SYSTEM_ARCHITECTURE.md 10.1, 6: totalProblemsSolved goes up with every submission.
StatsCountAttempts ==
  AtRest => \A u \in Users : AttemptsOf(u) # {} =>
    stats[u] # None /\ stats[u].totalProblemsSolved = Cardinality(AttemptsOf(u))

\* SYSTEM_ARCHITECTURE.md 10.2: the first problem solved on the day after a day
\* with a solved problem extends the streak.
StreakExtends ==
  [][\A r \in Reqs : At(r, "upsertStats") /\ countedOn'[r] # countedOn[r] =>
       LET u == req[r].user
           days == {countedOn[q] : q \in {q \in Reqs : req[q].user = u}}
       IN today - 1 \in days \ {0} /\ today \notin days
            => stats'[u].currentStreak = stats[u].currentStreak + 1]_vars
=============================================================================
