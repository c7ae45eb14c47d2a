-------------------------- MODULE SubmissionProofs --------------------------
(***************************************************************************)
(* Proofs about Submission, for every value of its constants.              *)
(*                                                                         *)
(* IInv bounds each stored figure, and each copy of one a request or the   *)
(* cache carries, by the number of requests behind it.  Those numbers only *)
(* grow (Persists, Grows), so a copy that has gone stale stays bounded;    *)
(* and a request adds one to a figure in the step in which it joins the    *)
(* requests that account for it.                                           *)
(*                                                                         *)
(* EInv adds, for requests that come one at a time and calls that do not   *)
(* fail, that every figure is exact but for the one the request in flight  *)
(* is about to write.                                                      *)
(*                                                                         *)
(* Looping, with IInv, makes CallsLeft a measure that every call lowers.   *)
(***************************************************************************)
EXTENDS Submission, Sums

\* What has been paid to a user stays paid.
PaidKept == \A u \in Users : Paid(u) \subseteq Paid(u)' /\ Paid(u)' \subseteq Achievements

\* A record is not replaced by one of another request, and nothing counted or
\* paid is taken back.
Persists ==
  /\ today <= today'
  /\ progressed \subseteq progressed' /\ progressed' \subseteq Reqs
  /\ PaidKept
  /\ \A q \in Reqs :
       /\ number[q] # 0 => number'[q] # 0
       /\ countedOn[q] # 0 => countedOn'[q] # 0
       /\ ~At(q, "new") => /\ req'[q].user = req[q].user
                           /\ req'[q].problem = req[q].problem
                           /\ req'[q].verdict = req[q].verdict

Fits(S, T) == Cardinality(S) \in Nat /\ Cardinality(T) \in Nat /\ Cardinality(S) <= Cardinality(T)

\* Sets of requests, one inside the other.
LEMMA Inside == ASSUME NEW T \in SUBSET Reqs, NEW S \in SUBSET T PROVE Fits(S, T)
<1>1. IsFiniteSet(T) /\ IsFiniteSet(S)
  BY ReqsFinite, FS_Subset
<1>2. QED BY <1>1, FS_CardinalityType, FS_Subset DEF Fits

\* One request more.
LEMMA OneMore ==
  ASSUME NEW T \in SUBSET Reqs, NEW S \in SUBSET T, NEW r \in T, r \notin S
  PROVE Fits(S, T) /\ Cardinality(S) + 1 <= Cardinality(T)
<1>1. IsFiniteSet(S)
  BY ReqsFinite, FS_Subset
<1>2. Cardinality(S \cup {r}) = Cardinality(S) + 1
  BY <1>1, FS_AddElement
<1>3. Fits(S, T) /\ Fits(S \cup {r}, T)
  BY Inside
<1>4. QED BY <1>2, <1>3 DEF Fits

\* A request that has an attempt, is counted or has progressed has begun.
LEMMA Behind ==
  ASSUME IInv, NEW q \in Reqs PROVE /\ number[q] # 0 => ~At(q, "new")
                                    /\ countedOn[q] # 0 => ~At(q, "new")
                                    /\ q \in progressed => ~At(q, "new")
BY DEF IInv, Accounted, BeforeCreate, At

\* The sets that account for the figures only grow.
LEMMA Grows ==
  ASSUME IInv, Persists
  PROVE /\ \A u \in Users : Fits(Counted(u), Counted(u)')
        /\ \A u \in Users, p \in Problems : Fits(AttemptsAt(u, p), AttemptsAt(u, p)')
        /\ \A p \in Problems : Fits(AttemptsOn(p), AttemptsOn(p)')
        /\ \A u \in Users, t \in Topics, V \in SUBSET {"right", "wrong"} :
             Fits(Progressed(u, t, V), Progressed(u, t, V)')
<1>1. ASSUME NEW u \in Users
      PROVE Counted(u) \subseteq Counted(u)' /\ Counted(u)' \subseteq Reqs
  BY Behind DEF Persists, Counted
<1>2. ASSUME NEW u \in Users, NEW p \in Problems
      PROVE AttemptsAt(u, p) \subseteq AttemptsAt(u, p)' /\ AttemptsAt(u, p)' \subseteq Reqs
  BY Behind DEF Persists, AttemptsAt, AttemptsOf, Attempts
<1>3. ASSUME NEW p \in Problems
      PROVE AttemptsOn(p) \subseteq AttemptsOn(p)' /\ AttemptsOn(p)' \subseteq Reqs
  BY Behind DEF Persists, AttemptsOn, Attempts
<1>4. ASSUME NEW u \in Users, NEW t \in Topics, NEW V \in SUBSET {"right", "wrong"}
      PROVE /\ Progressed(u, t, V) \subseteq Progressed(u, t, V)'
            /\ Progressed(u, t, V)' \subseteq Reqs
  BY Behind DEF IInv, TypeOK, Persists, Progressed, WithVerdict, Topic
<1>5. ASSUME NEW u \in Users PROVE Fits(Counted(u), Counted(u)')
  BY <1>1, Inside
<1>6. ASSUME NEW u \in Users, NEW p \in Problems PROVE Fits(AttemptsAt(u, p), AttemptsAt(u, p)')
  BY <1>2, Inside
<1>7. ASSUME NEW p \in Problems PROVE Fits(AttemptsOn(p), AttemptsOn(p)')
  BY <1>3, Inside
<1>8. ASSUME NEW u \in Users, NEW t \in Topics, NEW V \in SUBSET {"right", "wrong"}
      PROVE Fits(Progressed(u, t, V), Progressed(u, t, V)')
  BY <1>4, Inside
<1>9. QED BY <1>5, <1>6, <1>7, <1>8

\* The sum in the model is the Total that Sums is about.
LEMMA RewardTotal == ASSUME NEW S PROVE XpOf(S) = Total(Reward, S)
BY DEF Total, XpOf

\* The XP behind a user's stats, part by part: attempts and rewards only add to it.
PaidXp(u) == XpOf(Paid(u))
Grew(m, n) == m \in Nat /\ n \in Nat /\ m <= n

LEMMA XpParts ==
  ASSUME IInv, Persists, NEW u \in Users
  PROVE /\ \A V \in SUBSET {"right", "wrong"} :
             /\ WithVerdict(Counted(u), V) \subseteq WithVerdict(Counted(u), V)'
             /\ Fits(WithVerdict(Counted(u), V), WithVerdict(Counted(u), V)')
        /\ Grew(PaidXp(u), PaidXp(u)')
        /\ CountedXp(u) = 10 * Cardinality(WithVerdict(Counted(u), {"right"}))
                            + 2 * Cardinality(WithVerdict(Counted(u), {"wrong"})) + PaidXp(u)
        /\ CountedXp(u)' = 10 * Cardinality(WithVerdict(Counted(u), {"right"})')
                             + 2 * Cardinality(WithVerdict(Counted(u), {"wrong"})') + PaidXp(u)'
<1>1. ASSUME NEW V \in SUBSET {"right", "wrong"}
      PROVE /\ WithVerdict(Counted(u), V) \subseteq WithVerdict(Counted(u), V)'
            /\ Fits(WithVerdict(Counted(u), V), WithVerdict(Counted(u), V)')
  <2>1. /\ WithVerdict(Counted(u), V) \subseteq WithVerdict(Counted(u), V)'
        /\ WithVerdict(Counted(u), V)' \in SUBSET Reqs
    BY Behind DEF Persists, Counted, WithVerdict
  <2>2. QED BY <2>1, Inside
<1>2. Grew(PaidXp(u), PaidXp(u)')
  <2>1. /\ Paid(u) \in SUBSET Paid(u)' /\ Paid(u)' \in SUBSET Achievements
        /\ Paid(u) \in SUBSET Achievements
    BY DEF Persists, PaidKept
  <2>2. /\ IsFiniteSet(Paid(u)') /\ Numbers(Reward, Achievements)
        /\ Numbers(Reward, Paid(u)) /\ Numbers(Reward, Paid(u)')
    BY <2>1, AchievementsFinite, RewardTyped, FS_Subset DEF Numbers
  <2>3. \A a \in Paid(u) : Reward[a] <= Reward[a]
    BY <2>2 DEF Numbers
  <2>4. Total(Reward, Paid(u)) <= Total(Reward, Paid(u)')
    BY <2>1, <2>2, <2>3, TotalMono
  <2>5. Total(Reward, Paid(u)) \in Nat /\ Total(Reward, Paid(u)') \in Nat
    BY <2>1, <2>2, AchievementsFinite, TotalNat
  <2>6. PaidXp(u) = Total(Reward, Paid(u)) /\ PaidXp(u)' = Total(Reward, Paid(u)')
    BY RewardTotal DEF PaidXp
  <2>7. QED BY <2>4, <2>5, <2>6 DEF Grew
<1>3. CountedXp(u) = 10 * Cardinality(WithVerdict(Counted(u), {"right"}))
                       + 2 * Cardinality(WithVerdict(Counted(u), {"wrong"})) + PaidXp(u)
  BY DEF CountedXp, PaidXp
<1>4. CountedXp(u)' = 10 * Cardinality(WithVerdict(Counted(u), {"right"})')
                        + 2 * Cardinality(WithVerdict(Counted(u), {"wrong"})') + PaidXp(u)'
  BY DEF CountedXp, PaidXp
<1>5. QED BY <1>1, <1>2, <1>3, <1>4

\* The XP behind a user's stats only grows.
LEMMA XpGrows ==
  ASSUME IInv, Persists, NEW u \in Users PROVE Grew(CountedXp(u), CountedXp(u)')
<1>1. /\ Fits(WithVerdict(Counted(u), {"right"}), WithVerdict(Counted(u), {"right"})')
      /\ Fits(WithVerdict(Counted(u), {"wrong"}), WithVerdict(Counted(u), {"wrong"})')
  BY XpParts
<1>2. QED BY <1>1, XpParts DEF Fits, Grew

\* More XP is no lower a level.
LEMMA LevelGrows ==
  ASSUME NEW m \in Nat, NEW n \in Nat, m <= n
  PROVE Level(m) \in Nat /\ Level(n) \in Nat /\ Level(m) <= Level(n)
BY DEF Level

\* Who deserves an achievement deserves it with better figures.
LEMMA DeservedGrows ==
  ASSUME NEW a \in Achievements, NEW n \in Nat, NEW xp \in Nat, NEW d \in Nat,
         NEW n2 \in Nat, NEW xp2 \in Nat, NEW d2 \in Nat, n <= n2, xp <= xp2, d <= d2,
         Deserved(a, n, xp, d)
  PROVE Deserved(a, n2, xp2, d2)
<1>1. Level(xp) \in Nat /\ Level(xp2) \in Nat /\ Level(xp) <= Level(xp2)
  BY LevelGrows
<1>2. QED BY <1>1, ConditionsTyped DEF Deserved, Known

\* Bounds carry over.
LEMMA SoundStays ==
  ASSUME IInv, Persists, today \in Nat, today' \in Nat, NEW u \in Users,
         NEW st \in Stats \cup {None},
         SoundFor(u, st)
  PROVE Sound(st, Cardinality(Counted(u)'), CountedXp(u)', today')
<1>1. Fits(Counted(u), Counted(u)') /\ Grew(CountedXp(u), CountedXp(u)')
  BY Grows, XpGrows
<1>2. CASE st \in Stats
  BY <1>1, <1>2 DEF Fits, Grew, SoundFor, Sound, Stats, Persists
<1>3. CASE st = None
  BY <1>3 DEF Sound
<1>4. QED BY <1>2, <1>3

\* What a user deserves is deserved for good.
LEMMA DeservedStays ==
  ASSUME IInv, Persists, today \in Nat, today' \in Nat, NEW u \in Users,
         NEW S \in SUBSET Achievements,
         DeservedBy(u, S)
  PROVE \A a \in S : Deserved(a, Cardinality(Counted(u)'), CountedXp(u)', today')
<1>1. Fits(Counted(u), Counted(u)') /\ Grew(CountedXp(u), CountedXp(u)')
  BY Grows, XpGrows
<1>2. QED
  BY <1>1, DeservedGrows DEF Fits, Grew, DeservedBy, Persists

\* A progress row stays bounded.
LEMMA RowStays ==
  ASSUME IInv, Persists, NEW u \in Users, NEW t \in Topics, NEW row \in Progress,
         RowSound(row, u, t)
  PROVE /\ row.problemsSolved <= Cardinality(Progressed(u, t, {"right", "wrong"})')
        /\ row.correctCount <= Cardinality(Progressed(u, t, {"right"})')
<1>1. /\ Fits(Progressed(u, t, {"right", "wrong"}), Progressed(u, t, {"right", "wrong"})')
      /\ Fits(Progressed(u, t, {"right"}), Progressed(u, t, {"right"})')
  BY Grows
<1>2. QED BY <1>1 DEF Fits, RowSound, Progress

\* What a request carries stays bounded.
LEMMA BoundedStays ==
  ASSUME IInv, Persists, today' \in Nat, NEW x \in Request, Begun(x), Bounded(x)
  PROVE Bounded(x)'
<1>1. today \in Nat
  BY BoundsTyped DEF IInv, TypeOK
<1>2. CASE x.pc = "new"
  <2>1. x.seen = None /\ x.todo = {} /\ x.total = None
    BY <1>2 DEF Begun, Blank
  <2>2. QED BY <1>2, <2>1 DEF Bounded, SoundFor, Sound, DeservedBy
<1>3. CASE x.pc # "new"
  <2>1. x.user \in Users
    BY <1>3 DEF Begun
  <2>2. SoundFor(x.user, x.seen)'
    BY <1>1, <2>1, SoundStays DEF Bounded, SoundFor, Request
  <2>3. DeservedBy(x.user, x.todo)'
    BY <1>1, <2>1, DeservedStays DEF Bounded, DeservedBy, Request
  <2>4. x.pc = "create" => x.count <= Cardinality(AttemptsAt(x.user, x.problem)')
    <3>1. HAVE x.pc = "create"
    <3>2. x.problem \in Problems /\ x.count \in Nat
      BY <3>1 DEF Begun, Request
    <3>3. Fits(AttemptsAt(x.user, x.problem), AttemptsAt(x.user, x.problem)')
      BY <2>1, <3>2, Grows
    <3>4. QED BY <3>1, <3>2, <3>3 DEF Bounded, Fits
  <2>5. x.total # None => x.total <= Cardinality(AttemptsOn(x.problem)')
    <3>1. HAVE x.total # None
    <3>2. x.problem \in Problems /\ x.total \in Nat
      BY <3>1 DEF Begun, Request, BeforeProgress
    <3>3. Fits(AttemptsOn(x.problem), AttemptsOn(x.problem)')
      BY <3>2, Grows
    <3>4. QED BY <3>1, <3>2, <3>3 DEF Bounded, Fits
  <2>6. x.pc = "upsertProgress" => RowSound(x.row, x.user, TopicOf[x.problem])'
    <3>1. HAVE x.pc = "upsertProgress"
    <3>2. TopicOf[x.problem] \in Topics /\ x.row \in Progress
      BY <3>1, TopicsTyped DEF Begun, Request, BeforeProgress
    <3>3. QED BY <2>1, <3>1, <3>2, RowStays DEF RowSound, Bounded
  <2>7. QED BY <2>2, <2>3, <2>4, <2>5, <2>6 DEF Bounded
<1>4. QED BY <1>2, <1>3

\* What is stored, in the parts the invariant has.
StatsSound == \A u \in Users : SoundFor(u, stats[u])
CachedSound == \A u \in Users : SoundFor(u, cached[u])
EarnedSound == \A u \in Users : DeservedBy(u, earned[u])
ProgressSound == \A u \in Users, t \in Topics : RowSound(progress[<<u, t>>], u, t)
SolveSound == \A p \in Problems : solve[p].solveCount <= Cardinality(AttemptsOn(p))
NumbersSound ==
  \A r \in Attempts : number[r] <= Cardinality(AttemptsAt(req[r].user, req[r].problem))

\* A reward is owed for an achievement the user has, and by one request.
OwedOnce ==
  /\ \A r \in Reqs : Owes(req[r]) => req[r].granted \in earned[req[r].user]
  /\ \A q, r \in Reqs : Owes(req[q]) /\ Owes(req[r]) /\ req[q].user = req[r].user
                          /\ req[q].granted = req[r].granted => q = r

\* The record x that replaces that of r owes nothing r did not owe.
OwesNoMore(r, x) ==
  Owes(x) => Owes(req[r]) /\ x.granted = req[r].granted /\ x.user = req[r].user

\* Where nothing is granted nothing more is owed.
LEMMA OwedStays ==
  ASSUME IInv, NEW r \in Reqs, NEW x \in Request, req' = [req EXCEPT ![r] = x],
         OwesNoMore(r, x), UNCHANGED earned
  PROVE PaidKept /\ OwedOnce'
<1>1. \A q \in Reqs : req'[q] = IF q = r THEN x ELSE req[q]
  BY DEF IInv, TypeOK
<1>2. \A q \in Reqs : Owes(req'[q]) =>
        Owes(req[q]) /\ req'[q].granted = req[q].granted /\ req'[q].user = req[q].user
  BY <1>1 DEF OwesNoMore
<1>3. PaidKept
  <2>1. ASSUME NEW u \in Users PROVE Paid(u) \subseteq Paid(u)' /\ Paid(u)' \subseteq Achievements
    BY <1>2 DEF Paid, IInv, TypeOK
  <2>2. QED BY <2>1 DEF PaidKept
<1>4. OwedOnce'
  <2>1. OwedOnce
    BY DEF IInv, OwedOnce
  <2>2. QED BY <1>2, <2>1 DEF OwedOnce
<1>5. QED BY <1>3, <1>4

\* Nor where no request moves.
LEMMA OwedStill == ASSUME IInv, UNCHANGED <<req, earned>> PROVE PaidKept /\ OwedOnce'
BY DEF IInv, TypeOK, PaidKept, OwedOnce, Paid

\* A part that is not written keeps its bound.
LEMMA TablesKeep ==
  ASSUME IInv, Persists, today' \in Nat
  PROVE /\ UNCHANGED stats => StatsSound'
        /\ UNCHANGED cached => CachedSound'
        /\ UNCHANGED earned => EarnedSound'
        /\ UNCHANGED progress => ProgressSound'
        /\ UNCHANGED solve => SolveSound'
        /\ UNCHANGED number => NumbersSound'
<1>1. today \in Nat
  BY BoundsTyped DEF IInv, TypeOK
<1>2. UNCHANGED stats => StatsSound'
  BY <1>1, SoundStays DEF IInv, TypeOK, StatsSound, SoundFor
<1>3. UNCHANGED cached => CachedSound'
  BY <1>1, SoundStays DEF IInv, TypeOK, CachedSound, SoundFor
<1>4. UNCHANGED earned => EarnedSound'
  BY <1>1, DeservedStays DEF IInv, TypeOK, EarnedSound, DeservedBy
<1>5. UNCHANGED progress => ProgressSound'
  BY RowStays DEF IInv, TypeOK, ProgressSound, RowSound
<1>6. UNCHANGED solve => SolveSound'
  <2>1. ASSUME UNCHANGED solve, NEW p \in Problems
        PROVE solve[p].solveCount <= Cardinality(AttemptsOn(p)')
    <3>1. solve[p].solveCount \in Nat /\ solve[p].solveCount <= Cardinality(AttemptsOn(p))
      BY DEF IInv, TypeOK
    <3>2. Fits(AttemptsOn(p), AttemptsOn(p)')
      BY Grows
    <3>3. QED BY <3>1, <3>2 DEF Fits
  <2>2. QED BY <2>1 DEF SolveSound
<1>7. UNCHANGED number => NumbersSound'
  <2>1. ASSUME UNCHANGED number, NEW q \in Attempts'
        PROVE number[q] <= Cardinality(AttemptsAt(req[q].user, req[q].problem)')
              /\ req'[q].user = req[q].user /\ req'[q].problem = req[q].problem
    <3>1. q \in Reqs /\ number[q] # 0 /\ q \in Attempts
      BY <2>1 DEF Attempts
    <3>2. /\ number[q] \in Nat /\ req[q].user \in Users /\ req[q].problem \in Problems
          /\ number[q] <= Cardinality(AttemptsAt(req[q].user, req[q].problem))
      BY <3>1 DEF IInv, TypeOK, Accounted
    <3>3. req'[q].user = req[q].user /\ req'[q].problem = req[q].problem
      BY <3>1, Behind DEF Persists
    <3>4. Fits(AttemptsAt(req[q].user, req[q].problem), AttemptsAt(req[q].user, req[q].problem)')
      BY <3>2, <3>3, Grows
    <3>5. QED BY <3>2, <3>3, <3>4 DEF Fits
  <2>2. QED BY <2>1 DEF NumbersSound
<1>8. QED BY <1>2, <1>3, <1>4, <1>5, <1>6, <1>7

\* A step of request r, given what it makes of r's own record and of the tables.
LEMMA Assemble ==
  ASSUME IInv, Persists, TypeOK', NEW r \in Reqs,
         \A q \in Reqs \ {r} : /\ req'[q] = req[q] /\ number'[q] = number[q]
                               /\ countedOn'[q] = countedOn[q]
                               /\ q \in progressed' <=> q \in progressed,
         Begun(req'[r]), Accounted(r, req[r])', Bounded(req[r])',
         StatsSound', CachedSound', EarnedSound', ProgressSound', SolveSound', NumbersSound',
         OwedOnce'
  PROVE IInv'
<1>1. today' \in Nat
  BY BoundsTyped DEF TypeOK
<1>2. ASSUME NEW q \in Reqs PROVE Begun(req'[q]) /\ Accounted(q, req[q])' /\ Bounded(req[q])'
  <2>1. CASE q = r
    BY <2>1
  <2>2. CASE q # r
    <3>1. req'[q] = req[q] /\ req[q] \in Request
      BY <2>2 DEF IInv, TypeOK
    <3>2. Begun(req'[q])
      BY <3>1 DEF IInv
    <3>3. Bounded(req[q])'
      BY <1>1, <3>1, BoundedStays DEF IInv
    <3>4. Accounted(q, req[q])'
      BY <2>2, <3>1 DEF IInv, Accounted
    <3>5. QED BY <3>2, <3>3, <3>4
  <2>3. QED BY <2>1, <2>2
<1>3. QED
  BY <1>2 DEF IInv, StatsSound, CachedSound, EarnedSound, ProgressSound, SolveSound, NumbersSound,
     OwedOnce

\* A step that only replaces the record of r by x.
LEMMA Quiet ==
  ASSUME IInv, NEW r \in Reqs, NEW x \in Request, req' = [req EXCEPT ![r] = x],
         UNCHANGED <<db, cached, today, history>>,
         ~At(r, "new") => /\ x.user = req[r].user /\ x.problem = req[r].problem
                          /\ x.verdict = req[r].verdict,
         Begun(x), OwesNoMore(r, x), Accounted(r, x), Bounded(x)
  PROVE IInv'
<1>1. req'[r] = x /\ TypeOK' /\ today \in Nat /\ today' = today
  BY BoundsTyped DEF IInv, TypeOK, db, history
<1>owed. PaidKept /\ OwedOnce'
  BY OwedStays DEF db
<1>2. Persists
  BY <1>owed, <1>1 DEF IInv, TypeOK, Persists, db, history, At
<1>3. Bounded(req[r])' /\ Begun(req'[r])
  BY <1>1, <1>2, BoundedStays
<1>4. Accounted(r, req[r])'
  BY <1>1 DEF Accounted, db, history
<1>5. StatsSound' /\ CachedSound' /\ EarnedSound' /\ ProgressSound' /\ SolveSound' /\ NumbersSound'
  BY <1>1, <1>2, TablesKeep DEF db
<1>6. QED
  BY <1>owed, <1>1, <1>2, <1>3, <1>4, <1>5, Assemble DEF IInv, TypeOK, db, history

\* Records stay typed when the stats read are put into them, or taken out.
LEMMA SeenTyped ==
  ASSUME NEW q \in Request, NEW st \in Stats \cup {None}, NEW l \in Awaits \cup Ended
  PROVE [q EXCEPT !.seen = st, !.pc = l] \in Request
BY DEF Request

\* Records stay typed when the achievements to grant are put into them.
LEMMA JudgedTyped ==
  ASSUME NEW q \in Request, NEW S \in SUBSET Achievements, NEW l \in Awaits \cup Ended
  PROVE [q EXCEPT !.todo = S, !.seen = None, !.had = None, !.pc = l] \in Request
BY DEF Request

\* A step that replaces the record of r by x and counts nothing new.
LEMMA MovesPersist ==
  ASSUME IInv, NEW r \in Reqs, NEW x \in Request, req' = [req EXCEPT ![r] = x],
         UNCHANGED <<number, today, history>>,
         x.user = req[r].user, x.problem = req[r].problem, x.verdict = req[r].verdict, PaidKept
  PROVE Persists /\ req'[r] = x /\ today \in Nat /\ today' \in Nat
<1>1. req'[r] = x /\ today \in Nat /\ today' = today
  BY BoundsTyped DEF IInv, TypeOK
<1>2. QED
  BY <1>1 DEF IInv, TypeOK, Persists, history, At

\* The invariant after such a step, given the tables.
LEMMA Moves ==
  ASSUME IInv, NEW r \in Reqs, NEW x \in Request, req' = [req EXCEPT ![r] = x],
         UNCHANGED <<number, today, history>>,
         x.user = req[r].user, x.problem = req[r].problem, x.verdict = req[r].verdict,
         Begun(x), Accounted(r, x), Bounded(x), PaidKept, OwedOnce',
         TypeOK', StatsSound', CachedSound', EarnedSound', ProgressSound', SolveSound'
  PROVE IInv'
<1>1. Persists /\ req'[r] = x /\ today' \in Nat
  BY MovesPersist
<1>2. Bounded(req[r])' /\ Begun(req'[r])
  BY <1>1, BoundedStays
<1>3. Accounted(r, req[r])'
  BY <1>1 DEF Accounted, history
<1>4. NumbersSound'
  BY <1>1, TablesKeep
<1>5. QED
  BY <1>1, <1>2, <1>3, <1>4, Assemble DEF IInv, TypeOK, history

\* A step that moves no request.
LEMMA Unmoved ==
  ASSUME IInv, UNCHANGED <<req, earned, number, history>>,
         today <= today', today \in Nat, today' \in Nat,
         TypeOK', StatsSound', CachedSound', EarnedSound', ProgressSound', SolveSound'
  PROVE IInv'
<1>owed. PaidKept /\ OwedOnce'
  BY OwedStill
<1>1. Persists
  BY <1>owed DEF IInv, TypeOK, Persists, history, At
<1>2. ASSUME NEW q \in Reqs PROVE Begun(req'[q]) /\ Accounted(q, req[q])' /\ Bounded(req[q])'
  <2>1. req[q] \in Request /\ Begun(req[q]) /\ Bounded(req[q]) /\ Accounted(q, req[q])
    BY DEF IInv, TypeOK
  <2>2. Bounded(req[q])'
    BY <1>1, <2>1, BoundedStays
  <2>3. QED BY <2>1, <2>2 DEF Accounted, history
<1>3. NumbersSound'
  BY <1>1, TablesKeep
<1>4. QED
  BY <1>owed, <1>2, <1>3 DEF IInv, StatsSound, CachedSound, EarnedSound, ProgressSound, SolveSound,
     NumbersSound, OwedOnce

\* findStatsByUserId hands its caller a row that is bounded.
LEMMA ReturnedFits ==
  ASSUME IInv, NEW r \in Reqs, NEW st \in Stats, SoundFor(req[r].user, st),
         req[r].pc \in {"getStats", "fillStats"}
  PROVE LET x == Returned(req[r], st)
        IN /\ x \in Request /\ Begun(x) /\ OwesNoMore(r, x) /\ Accounted(r, x) /\ Bounded(x)
           /\ x.user = req[r].user /\ x.problem = req[r].problem /\ x.verdict = req[r].verdict
<1> PICK x : x = Returned(req[r], st)
  OBVIOUS
<1>1. req[r] \in Request /\ Begun(req[r]) /\ Accounted(r, req[r]) /\ Bounded(req[r])
  BY DEF IInv, TypeOK
<1>2. /\ x.seen \in {None, st}
      /\ x.pc = CASE req[r].caller = "submit" -> "upsertStats"
                  [] req[r].caller = "check" -> "evaluate"
                  [] req[r].caller = "controller" -> "done"
      /\ x.pc \in {"upsertStats", "evaluate"} => x.seen = st
      /\ x = [req[r] EXCEPT !.seen = x.seen, !.pc = x.pc]
  BY <1>1 DEF Returned, Request, Callers
<1>3. x.pc \in Awaits \cup Ended /\ x.seen \in Stats \cup {None}
  BY <1>1, <1>2 DEF Request, Callers, Awaits, Ended
<1>4. x \in Request
  <2>1. [req[r] EXCEPT !.seen = x.seen, !.pc = x.pc] \in Request
    BY <1>1, <1>3, SeenTyped
  <2>2. QED BY <1>2, <2>1
<1>5. \A f \in DOMAIN req[r] \ {"seen", "pc"} : x[f] = req[r][f]
  BY <1>2
<1>6. /\ x.caller = req[r].caller /\ x.user = req[r].user /\ x.problem = req[r].problem
      /\ x.verdict = req[r].verdict /\ x.total = req[r].total /\ x.todo = req[r].todo
  BY <1>1, <1>5 DEF Request
<1>7. Begun(x) /\ OwesNoMore(r, x) /\ Accounted(r, x)
  BY <1>1, <1>2, <1>6 DEF Begun, Owes, OwesNoMore, Accounted, Request, Callers, BeforeCreate,
     BeforeProgress,
     BeforeStats
<1>8. Bounded(x)
  <2>1. SoundFor(x.user, x.seen)
    BY <1>2, <1>6 DEF SoundFor, Sound
  <2>2. QED BY <1>1, <1>2, <1>6, <2>1 DEF Bounded, Begun, Request, Callers
<1>9. QED BY <1>4, <1>6, <1>7, <1>8

-----------------------------------------------------------------------------
(* Steps that only move a request *)

\* A submission starts with nothing but its input.
LEMMA SubmitKeeps ==
  ASSUME IInv, NEW r \in Reqs, NEW u \in Users, NEW p \in Problems, NEW v \in Verdicts,
         Submit(r, u, p, v)
  PROVE IInv'
<1> PICK x : x = [req[r] EXCEPT !.pc = "count", !.user = u, !.problem = p, !.verdict = v]
  OBVIOUS
<1>1. req[r] \in Request /\ Begun(req[r]) /\ Accounted(r, req[r]) /\ Bounded(req[r])
  BY DEF IInv, TypeOK
<1>2. /\ req' = [req EXCEPT ![r] = x] /\ UNCHANGED <<db, cached, today, history>>
      /\ ~At(r, "new") => /\ x.user = req[r].user /\ x.problem = req[r].problem
                          /\ x.verdict = req[r].verdict
  BY <1>1 DEF Submit, Request, Blank, At, MayStart
<1>3. x \in Request
  BY <1>1, VerdictsTyped DEF Submit, Request, Blank, MayStart, Awaits, Callers, At, NoProgress,
     Progress
<1>4. Begun(x) /\ OwesNoMore(r, x) /\ Accounted(r, x)
  BY <1>1, VerdictsTyped DEF Submit, Begun, Owes, OwesNoMore, Accounted, Request, Blank, MayStart,
     At, BeforeCreate,
     BeforeProgress, BeforeStats
<1>5. Bounded(x)
  BY <1>1, VerdictsTyped DEF Submit, Bounded, Begun, Request, Blank, MayStart, SoundFor, Sound,
     DeservedBy
<1>6. QED
  BY <1>2, <1>3, <1>4, <1>5, Quiet

\* The count is that of the attempts.
LEMMA CountByUserAndProblemKeeps ==
  ASSUME IInv, NEW r \in Reqs, CountByUserAndProblem(r) PROVE IInv'
<1> PICK x : x = [req[r] EXCEPT !.pc = "create",
             !.count = Cardinality(AttemptsAt(req[r].user, req[r].problem))]
  OBVIOUS
<1>1. req[r] \in Request /\ Begun(req[r]) /\ Accounted(r, req[r]) /\ Bounded(req[r])
  BY DEF IInv, TypeOK
<1>2. x.count \in Nat /\ x.count <= Cardinality(AttemptsAt(req[r].user, req[r].problem))
  <2>1. AttemptsAt(req[r].user, req[r].problem) \in SUBSET Reqs
    BY DEF AttemptsAt, AttemptsOf, Attempts
  <2>2. QED BY <1>1, <2>1, Inside DEF Fits, Request
<1>3. x \in Request
  BY <1>1, <1>2 DEF Request, Awaits
<1>4. Begun(x) /\ OwesNoMore(r, x) /\ Accounted(r, x)
  BY <1>1 DEF CountByUserAndProblem, Begun, Owes, OwesNoMore, Accounted, Request, At,
     BeforeCreate, BeforeProgress,
     BeforeStats
<1>5. Bounded(x)
  BY <1>1, <1>2 DEF CountByUserAndProblem, Bounded, Begun, Request, At, SoundFor, DeservedBy
<1>6. QED
  BY <1>1, <1>3, <1>4, <1>5, Quiet DEF CountByUserAndProblem, Request, At

\* A total is that of the attempts.
LEMMA CountTotalKeeps ==
  ASSUME IInv, NEW r \in Reqs, CountTotal(r) PROVE IInv'
<1> PICK x : x = [req[r] EXCEPT !.total = Cardinality(AttemptsOn(req[r].problem))]
  OBVIOUS
<1>1. req[r] \in Request /\ Begun(req[r]) /\ Accounted(r, req[r]) /\ Bounded(req[r])
  BY DEF IInv, TypeOK
<1>2. /\ req' = [req EXCEPT ![r] = x] /\ UNCHANGED <<db, cached, today, history>>
      /\ ~At(r, "new") => /\ x.user = req[r].user /\ x.problem = req[r].problem
                          /\ x.verdict = req[r].verdict
  BY <1>1 DEF CountTotal, Request, At
<1>3. x.total \in Nat /\ x.total <= Cardinality(AttemptsOn(req[r].problem))
  <2>1. AttemptsOn(req[r].problem) \in SUBSET Reqs
    BY DEF AttemptsOn, Attempts
  <2>2. QED BY <1>1, <2>1, Inside DEF Fits, Request
<1>4. x \in Request
  BY <1>1, <1>3, NoneIsFresh DEF Request
<1>5. Begun(x) /\ OwesNoMore(r, x) /\ Accounted(r, x)
  BY <1>1, <1>3, NoneIsFresh DEF CountTotal, Begun, Owes, OwesNoMore, Accounted, Request, At,
     BeforeCreate,
     BeforeProgress, BeforeStats
<1>6. Bounded(x)
  BY <1>1, <1>3, NoneIsFresh DEF CountTotal, Bounded, Begun, Request, At, SoundFor, DeservedBy
<1>7. QED
  BY <1>2, <1>4, <1>5, <1>6, Quiet

\* So is the count of right answers.
LEMMA CountCorrectKeeps ==
  ASSUME IInv, NEW r \in Reqs, CountCorrect(r) PROVE IInv'
<1> PICK x : x = [req[r] EXCEPT !.correct =
             Cardinality(WithVerdict(AttemptsOn(req[r].problem), {"right"}))]
  OBVIOUS
<1>1. req[r] \in Request /\ Begun(req[r]) /\ Accounted(r, req[r]) /\ Bounded(req[r])
  BY DEF IInv, TypeOK
<1>2. /\ req' = [req EXCEPT ![r] = x] /\ UNCHANGED <<db, cached, today, history>>
      /\ ~At(r, "new") => /\ x.user = req[r].user /\ x.problem = req[r].problem
                          /\ x.verdict = req[r].verdict
  BY <1>1 DEF CountCorrect, Request, At
<1>3. x.correct \in Nat
  <2>1. WithVerdict(AttemptsOn(req[r].problem), {"right"}) \in SUBSET Reqs
    BY DEF AttemptsOn, Attempts, WithVerdict
  <2>2. QED BY <1>1, <2>1, Inside DEF Fits, Request
<1>4. x \in Request
  BY <1>1, <1>3 DEF Request
<1>5. Begun(x) /\ OwesNoMore(r, x) /\ Accounted(r, x)
  BY <1>1, <1>3 DEF CountCorrect, Begun, Owes, OwesNoMore, Accounted, Request, At, BeforeCreate,
     BeforeProgress,
     BeforeStats
<1>6. Bounded(x)
  BY <1>1, <1>3 DEF CountCorrect, Bounded, Begun, Request, At, SoundFor, DeservedBy
<1>7. QED
  BY <1>2, <1>4, <1>5, <1>6, Quiet

\* The row read is bounded as the table is.
LEMMA ReadProgressKeeps ==
  ASSUME IInv, NEW r \in Reqs, ReadProgress(r) PROVE IInv'
<1> PICK x : x = [req[r] EXCEPT !.pc = "upsertProgress",
             !.row = progress[<<req[r].user, Topic(r)>>]]
  OBVIOUS
<1>1. req[r] \in Request /\ Begun(req[r]) /\ Accounted(r, req[r]) /\ Bounded(req[r])
  BY DEF IInv, TypeOK
<1>2. /\ req' = [req EXCEPT ![r] = x] /\ UNCHANGED <<db, cached, today, history>>
      /\ ~At(r, "new") => /\ x.user = req[r].user /\ x.problem = req[r].problem
                          /\ x.verdict = req[r].verdict
  BY <1>1 DEF ReadProgress, Request, At
<1>3. x.row \in Progress /\ RowSound(x.row, req[r].user, TopicOf[req[r].problem])
  <2>1. req[r].user \in Users /\ Topic(r) \in Topics
    BY <1>1, TopicsTyped DEF ReadProgress, Begun, At, Topic, BeforeProgress
  <2>2. x.row = progress[<<req[r].user, Topic(r)>>]
    BY <1>1 DEF Request
  <2>3. QED BY <2>1, <2>2 DEF IInv, TypeOK, Topic
<1>4. x \in Request
  BY <1>1, <1>3 DEF Request, Awaits
<1>5. Begun(x) /\ OwesNoMore(r, x) /\ Accounted(r, x)
  BY <1>1, <1>3 DEF ReadProgress, Begun, Owes, OwesNoMore, Accounted, Request, At, BeforeCreate,
     BeforeProgress,
     BeforeStats
<1>6. Bounded(x)
  BY <1>1, <1>3 DEF ReadProgress, Bounded, Begun, Request, At, SoundFor, DeservedBy
<1>7. QED
  BY <1>2, <1>4, <1>5, <1>6, Quiet

\* A read of the stats starts with its user.
LEMMA GetMyStatsKeeps ==
  ASSUME IInv, NEW r \in Reqs, NEW u \in Users, GetMyStats(r, u) PROVE IInv'
<1> PICK x : x = [req[r] EXCEPT !.pc = "getStats", !.caller = "controller", !.user = u]
  OBVIOUS
<1>1. req[r] \in Request /\ Begun(req[r]) /\ Accounted(r, req[r]) /\ Bounded(req[r])
  BY DEF IInv, TypeOK
<1>2. /\ req' = [req EXCEPT ![r] = x] /\ UNCHANGED <<db, cached, today, history>>
      /\ ~At(r, "new") => /\ x.user = req[r].user /\ x.problem = req[r].problem
                          /\ x.verdict = req[r].verdict
  BY <1>1 DEF GetMyStats, Request, Blank, At, MayStart
<1>3. x \in Request
  BY <1>1 DEF GetMyStats, Request, Blank, MayStart, Awaits, Callers, At, NoProgress, Progress
<1>4. Begun(x) /\ OwesNoMore(r, x) /\ Accounted(r, x)
  BY <1>1 DEF GetMyStats, Begun, Owes, OwesNoMore, Accounted, Request, Blank, MayStart, At,
     BeforeCreate,
     BeforeProgress
<1>5. Bounded(x)
  BY <1>1 DEF GetMyStats, Bounded, Begun, Request, Blank, MayStart, SoundFor, Sound, DeservedBy
<1>6. QED
  BY <1>2, <1>3, <1>4, <1>5, Quiet

\* The row read is bounded as the table is.
LEMMA FindStatsKeeps ==
  ASSUME IInv, NEW r \in Reqs, FindStats(r) PROVE IInv'
<1> PICK x : x = [req[r] EXCEPT !.seen = stats[req[r].user],
             !.pc = IF stats[req[r].user] = None THEN "zeroStats" ELSE "fillStats"]
  OBVIOUS
<1>1. req[r] \in Request /\ Begun(req[r]) /\ Accounted(r, req[r]) /\ Bounded(req[r])
  BY DEF IInv, TypeOK
<1>2. /\ req' = [req EXCEPT ![r] = x] /\ UNCHANGED <<db, cached, today, history>>
      /\ ~At(r, "new") => /\ x.user = req[r].user /\ x.problem = req[r].problem
                          /\ x.verdict = req[r].verdict
  BY <1>1 DEF FindStats, Request, At
<1>3. /\ x.seen \in Stats \cup {None} /\ SoundFor(req[r].user, x.seen)
      /\ x.pc = "fillStats" => x.seen \in Stats
  <2>1. req[r].user \in Users
    BY <1>1 DEF FindStats, Begun, At
  <2>2. /\ stats[req[r].user] \in Stats \cup {None} /\ SoundFor(req[r].user, stats[req[r].user])
        /\ x.seen = stats[req[r].user]
    BY <1>1, <2>1 DEF IInv, TypeOK, Request
  <2>3. QED BY <1>1, <2>2 DEF Request
<1>4. x \in Request
  <2>1. x.pc \in Awaits
    BY <1>1 DEF Request, Awaits
  <2>2. [req[r] EXCEPT !.seen = x.seen, !.pc = x.pc] \in Request
    BY <1>1, <1>3, <2>1, SeenTyped
  <2>3. x = [req[r] EXCEPT !.seen = x.seen, !.pc = x.pc]
    BY <1>1 DEF Request
  <2>4. QED BY <2>2, <2>3
<1>5. Begun(x) /\ OwesNoMore(r, x) /\ Accounted(r, x)
  BY <1>1, <1>3 DEF FindStats, Begun, Owes, OwesNoMore, Accounted, Request, At, BeforeCreate,
     BeforeProgress,
     BeforeStats
<1>6. Bounded(x)
  BY <1>1, <1>3 DEF FindStats, Bounded, Begun, Request, At, SoundFor, DeservedBy
<1>7. QED
  BY <1>2, <1>4, <1>5, <1>6, Quiet

\* The achievements read are achievements.
LEMMA FindEarnedKeeps ==
  ASSUME IInv, NEW r \in Reqs, FindEarned(r) PROVE IInv'
<1> PICK x : x = [req[r] EXCEPT !.had = earned[req[r].user]]
  OBVIOUS
<1>1. req[r] \in Request /\ Begun(req[r]) /\ Accounted(r, req[r]) /\ Bounded(req[r])
  BY DEF IInv, TypeOK
<1>2. /\ req' = [req EXCEPT ![r] = x] /\ UNCHANGED <<db, cached, today, history>>
      /\ ~At(r, "new") => /\ x.user = req[r].user /\ x.problem = req[r].problem
                          /\ x.verdict = req[r].verdict
  BY <1>1 DEF FindEarned, Request, At
<1>3. earned[req[r].user] \in SUBSET Achievements
  BY <1>1 DEF FindEarned, Begun, IInv, TypeOK, InFlight, Awaits
<1>4. x \in Request
  BY <1>1, <1>3 DEF Request
<1>5. Begun(x) /\ OwesNoMore(r, x) /\ Accounted(r, x)
  BY <1>1, <1>3 DEF FindEarned, Begun, Owes, OwesNoMore, Accounted, Request, At, BeforeCreate,
     BeforeProgress,
     BeforeStats
<1>6. Bounded(x)
  BY <1>1, <1>3 DEF FindEarned, Bounded, Begun, Request, At, SoundFor, DeservedBy
<1>7. QED
  BY <1>2, <1>4, <1>5, <1>6, Quiet

\* The row read is bounded as the table is.
LEMMA RereadStatsKeeps ==
  ASSUME IInv, NEW r \in Reqs, RereadStats(r) PROVE IInv'
<1> PICK x : x = [req[r] EXCEPT !.seen = stats[req[r].user],
             !.pc = IF stats[req[r].user] = None THEN "delRewarded" ELSE "payReward"]
  OBVIOUS
<1>1. req[r] \in Request /\ Begun(req[r]) /\ Accounted(r, req[r]) /\ Bounded(req[r])
  BY DEF IInv, TypeOK
<1>2. /\ req' = [req EXCEPT ![r] = x] /\ UNCHANGED <<db, cached, today, history>>
      /\ ~At(r, "new") => /\ x.user = req[r].user /\ x.problem = req[r].problem
                          /\ x.verdict = req[r].verdict
  BY <1>1 DEF RereadStats, Request, At
<1>3. /\ x.seen \in Stats \cup {None} /\ SoundFor(req[r].user, x.seen)
      /\ x.pc = "payReward" => x.seen \in Stats
  <2>1. req[r].user \in Users
    BY <1>1 DEF RereadStats, Begun, At
  <2>2. /\ stats[req[r].user] \in Stats \cup {None} /\ SoundFor(req[r].user, stats[req[r].user])
        /\ x.seen = stats[req[r].user]
    BY <1>1, <2>1 DEF IInv, TypeOK, Request
  <2>3. QED BY <1>1, <2>2 DEF Request
<1>4. x \in Request
  <2>1. x.pc \in Awaits
    BY <1>1 DEF Request, Awaits
  <2>2. [req[r] EXCEPT !.seen = x.seen, !.pc = x.pc] \in Request
    BY <1>1, <1>3, <2>1, SeenTyped
  <2>3. x = [req[r] EXCEPT !.seen = x.seen, !.pc = x.pc]
    BY <1>1 DEF Request
  <2>4. QED BY <2>2, <2>3
<1>5. Begun(x) /\ OwesNoMore(r, x) /\ Accounted(r, x)
  BY <1>1, <1>3 DEF RereadStats, Begun, Owes, OwesNoMore, Accounted, Request, At, BeforeCreate,
     BeforeProgress,
     BeforeStats
<1>6. Bounded(x)
  BY <1>1, <1>3 DEF RereadStats, Bounded, Begun, Request, At, SoundFor, DeservedBy
<1>7. QED
  BY <1>2, <1>4, <1>5, <1>6, Quiet

\* A dead request carries nothing.
LEMMA DieKeeps ==
  ASSUME IInv, NEW r \in Reqs, Die(r) PROVE IInv'
<1> PICK x : x = [Blank EXCEPT !.pc = "dead", !.user = req[r].user, !.problem = req[r].problem,
             !.verdict = req[r].verdict]
  OBVIOUS
<1>1. req[r] \in Request /\ Begun(req[r]) /\ Accounted(r, req[r]) /\ Bounded(req[r])
  BY DEF IInv, TypeOK
<1>2. /\ req' = [req EXCEPT ![r] = x] /\ UNCHANGED <<db, cached, today, history>>
      /\ ~At(r, "new") => /\ x.user = req[r].user /\ x.problem = req[r].problem
                          /\ x.verdict = req[r].verdict
  BY <1>1 DEF Die, Request, At
<1>3. x \in Request
  <2>1. Blank \in Request
    BY DEF Blank, Request, Callers, NoProgress, Progress
  <2>2. QED BY <1>1, <2>1 DEF Request, Ended
<1>4. Begun(x) /\ OwesNoMore(r, x) /\ Accounted(r, x)
  BY <1>1 DEF Die, InFlight, Awaits, Begun, Owes, OwesNoMore, Accounted, Request, Blank, At,
     BeforeCreate,
     BeforeProgress, BeforeStats
<1>5. Bounded(x)
  BY <1>1 DEF Die, Bounded, Blank, SoundFor, Sound, DeservedBy
<1>6. QED
  BY <1>2, <1>3, <1>4, <1>5, Quiet

\* The XP behind a user's stats is a number.
LEMMA XpNat == ASSUME IInv, NEW u \in Users PROVE CountedXp(u) \in Nat
<1>1. /\ Cardinality(WithVerdict(Counted(u), {"right"})) \in Nat
      /\ Cardinality(WithVerdict(Counted(u), {"wrong"})) \in Nat
  <2>1. /\ WithVerdict(Counted(u), {"right"}) \in SUBSET Reqs
        /\ WithVerdict(Counted(u), {"wrong"}) \in SUBSET Reqs
    BY DEF Counted, WithVerdict
  <2>2. QED BY <2>1, Inside DEF Fits
<1>2. Total(Reward, Paid(u)) \in Nat
  <2>1. Paid(u) \in SUBSET Achievements /\ Numbers(Reward, Achievements)
    BY RewardTyped DEF Paid, IInv, TypeOK, Numbers
  <2>2. QED BY <2>1, AchievementsFinite, TotalNat
<1>3. QED BY <1>1, <1>2, RewardTotal DEF CountedXp

\* Only what the stats read meet is granted.
LEMMA EvaluateKeeps ==
  ASSUME IInv, NEW r \in Reqs, Evaluate(r) PROVE IInv'
<1> DEFINE met == {a \in Achievements \ req[r].had : Met(a, req[r].seen)}
<1> PICK x : x = [req[r] EXCEPT !.todo = met, !.seen = None, !.had = None,
                                !.pc = IF met = {} THEN "done" ELSE "grant"]
  OBVIOUS
<1>1. req[r] \in Request /\ Begun(req[r]) /\ Accounted(r, req[r]) /\ Bounded(req[r])
  BY DEF IInv, TypeOK
<1>2. /\ req' = [req EXCEPT ![r] = x] /\ UNCHANGED <<db, cached, today, history>>
      /\ ~At(r, "new") => /\ x.user = req[r].user /\ x.problem = req[r].problem
                          /\ x.verdict = req[r].verdict
  BY <1>1 DEF Evaluate, Request, At
<1>3. x.todo = met /\ met \subseteq Achievements /\ x.seen = None
  BY <1>1 DEF Request
<1> HIDE DEF met
<1>4. x \in Request
  <2>1. x.pc \in Awaits \cup Ended /\ x.pc = IF met = {} THEN "done" ELSE "grant"
    BY <1>1 DEF Request, Ended, Awaits
  <2>2. QED BY <1>1, <1>3, <2>1, JudgedTyped
<1>5. req[r].seen \in Stats /\ req[r].user \in Users
  BY <1>1 DEF Evaluate, Begun, At
<1>6. DeservedBy(req[r].user, met)
  <2>1. ASSUME NEW a \in met PROVE Deserved(a, Cardinality(Counted(req[r].user)),
     CountedXp(req[r].user), today)
    <3>1. a \in Achievements /\ \A f \in DOMAIN Condition[a] \cap Known :
            Condition[a][f] \in Nat /\ req[r].seen[f] >= Condition[a][f]
      BY <2>1, ConditionsTyped DEF met, Met
    <3>2. Cardinality(Counted(req[r].user)) \in Nat /\ today \in Nat /\ CountedXp(req[r].user) \in Nat
      <4>1. Counted(req[r].user) \in SUBSET Reqs
        BY DEF Counted
      <4>2. QED BY <1>5, <4>1, Inside, BoundsTyped, XpNat DEF Fits, IInv, TypeOK
    <3>3. /\ req[r].seen.totalProblemsSolved <= Cardinality(Counted(req[r].user))
          /\ req[r].seen.totalXp <= CountedXp(req[r].user)
          /\ req[r].seen.level = Level(req[r].seen.totalXp)
          /\ req[r].seen.currentStreak <= today
      BY <1>1, <1>5, <3>2, NoneIsNoRow DEF Bounded, SoundFor, Sound, Stats
    <3>4. /\ req[r].seen.level <= Level(CountedXp(req[r].user))
          /\ Level(CountedXp(req[r].user)) \in Nat
      BY <1>5, <3>2, <3>3, LevelGrows DEF Stats
    <3>5. QED BY <1>5, <3>1, <3>2, <3>3, <3>4 DEF Deserved, Known, Stats
  <2>2. QED BY <2>1 DEF DeservedBy
<1>7. Begun(x) /\ OwesNoMore(r, x) /\ Accounted(r, x)
  BY <1>1, <1>5 DEF Begun, Owes, OwesNoMore, Accounted, Request, Evaluate, At, BeforeCreate,
     BeforeProgress,
     BeforeStats
<1>8. Bounded(x)
  BY <1>1, <1>3, <1>6 DEF Bounded, Request, SoundFor, Sound
<1>9. QED
  BY <1>2, <1>4, <1>7, <1>8, Quiet

\* The cached stats are bounded as the table's are.
LEMMA GetStatsKeeps ==
  ASSUME IInv, NEW r \in Reqs, GetStats(r) PROVE IInv'
<1> DEFINE hit == cached[req[r].user]
<1>1. /\ req[r] \in Request /\ Begun(req[r]) /\ Accounted(r, req[r]) /\ Bounded(req[r])
      /\ At(r, "getStats")
  BY DEF IInv, TypeOK, GetStats
<1>2. req[r].user \in Users
  BY <1>1 DEF Begun, At
<1>3. hit \in Stats \cup {None} /\ SoundFor(req[r].user, hit)
  BY <1>2 DEF IInv, TypeOK
<1>4. CASE hit # None /\ req' = [req EXCEPT ![r] = Returned(@, hit)]
  <2> PICK x : x = Returned(req[r], hit)
    OBVIOUS
  <2>1. /\ req' = [req EXCEPT ![r] = x] /\ UNCHANGED <<db, cached, today, history>>
        /\ ~At(r, "new") => /\ x.user = req[r].user /\ x.problem = req[r].problem
                            /\ x.verdict = req[r].verdict
    BY <1>1, <1>4 DEF GetStats, Returned, Request
  <2>2. QED
    BY <1>1, <1>3, <1>4, <2>1, ReturnedFits, Quiet DEF At
<1>5. CASE req' = [req EXCEPT ![r].pc = "findStats"]
  <2> PICK x : x = [req[r] EXCEPT !.pc = "findStats"]
    OBVIOUS
  <2>1. /\ req' = [req EXCEPT ![r] = x] /\ UNCHANGED <<db, cached, today, history>>
        /\ x.user = req[r].user /\ x.problem = req[r].problem /\ x.verdict = req[r].verdict
    BY <1>1, <1>5 DEF GetStats, Request
  <2>2. x \in Request
    BY <1>1 DEF Request, Awaits
  <2>3. Begun(x) /\ OwesNoMore(r, x) /\ Accounted(r, x)
    BY <1>1 DEF Begun, Owes, OwesNoMore, Accounted, Request, At, BeforeCreate, BeforeProgress,
       BeforeStats
  <2>4. Bounded(x)
    BY <1>1 DEF Bounded, Request
  <2>5. QED
    BY <2>1, <2>2, <2>3, <2>4, Quiet
<1>6. QED BY <1>4, <1>5 DEF GetStats

\* One user's row replaced by a bounded one.
LEMMA StatsReplaced ==
  ASSUME IInv, Persists, today \in Nat, today' \in Nat, NEW w \in Users,
     NEW st \in Stats \cup {None},
         stats' = [stats EXCEPT ![w] = st], Sound(st, Cardinality(Counted(w)'), CountedXp(w)',
            today')
  PROVE StatsSound'
<1>1. ASSUME NEW u \in Users PROVE Sound(stats'[u], Cardinality(Counted(u)'), CountedXp(u)', today')
  <2>1. stats'[u] = IF u = w THEN st ELSE stats[u]
    BY DEF IInv, TypeOK
  <2>2. u # w => Sound(stats[u], Cardinality(Counted(u)'), CountedXp(u)', today')
    BY SoundStays DEF IInv, TypeOK
  <2>3. QED BY <2>1, <2>2
<1>2. QED BY <1>1 DEF StatsSound, SoundFor

\* One user's cached stats replaced by bounded ones.
LEMMA CachedReplaced ==
  ASSUME IInv, Persists, today \in Nat, today' \in Nat, NEW w \in Users,
     NEW st \in Stats \cup {None},
         cached' = [cached EXCEPT ![w] = st], Sound(st, Cardinality(Counted(w)'), CountedXp(w)',
            today')
  PROVE CachedSound'
<1>1. ASSUME NEW u \in Users PROVE Sound(cached'[u], Cardinality(Counted(u)'), CountedXp(u)',
   today')
  <2>1. cached'[u] = IF u = w THEN st ELSE cached[u]
    BY DEF IInv, TypeOK
  <2>2. u # w => Sound(cached[u], Cardinality(Counted(u)'), CountedXp(u)', today')
    BY SoundStays DEF IInv, TypeOK
  <2>3. QED BY <2>1, <2>2
<1>2. QED BY <1>1 DEF CachedSound, SoundFor

\* A deletion leaves the cache bounded, whether it succeeds or not.
LEMMA UncachesKeeps ==
  ASSUME IInv, Persists, today \in Nat, today' \in Nat, NEW u \in Users, Uncaches(u)
  PROVE cached' \in [Users -> Stats \cup {None}] /\ CachedSound'
<1>1. Sound(None, Cardinality(Counted(u)'), CountedXp(u)', today')
  BY DEF Sound
<1>2. CASE cached' = [cached EXCEPT ![u] = None]
  BY <1>1, <1>2, CachedReplaced DEF IInv, TypeOK
<1>3. CASE UNCHANGED cached
  BY <1>3, TablesKeep DEF IInv, TypeOK
<1>4. QED BY <1>2, <1>3 DEF Uncaches

\* The number of requests behind a user's stats.
LEMMA CountedNat ==
  ASSUME NEW u \in Users PROVE Cardinality(Counted(u)) \in Nat /\ Cardinality(Counted(u)') \in Nat
<1>1. Counted(u) \in SUBSET Reqs /\ Counted(u)' \in SUBSET Reqs
  BY DEF Counted
<1>2. QED BY <1>1, Inside DEF Fits

-----------------------------------------------------------------------------
(* Steps that write *)

\* The totals written are those counted.
LEMMA UpdateProblemStatsKeeps ==
  ASSUME IInv, NEW r \in Reqs, UpdateProblemStats(r) PROVE IInv'
<1> PICK x : x = [req[r] EXCEPT !.total = None, !.correct = None,
       !.pc = IF req[r].verdict = "ungraded" THEN "getStats" ELSE "readProgress"]
  OBVIOUS
<1>1. /\ req[r] \in Request /\ Begun(req[r]) /\ Accounted(r, req[r]) /\ Bounded(req[r])
      /\ At(r, "problemStats") /\ req[r].total # None /\ req[r].correct # None
  BY DEF IInv, TypeOK, UpdateProblemStats
<1>2. /\ req' = [req EXCEPT ![r] = x] /\ UNCHANGED <<number, today, history>>
      /\ x.user = req[r].user /\ x.problem = req[r].problem /\ x.verdict = req[r].verdict
      /\ UNCHANGED <<progress, stats, earned, cached>>
  BY <1>1 DEF UpdateProblemStats, Request, history
<1>3. x \in Request
  <2>1. \A q \in Request, l \in Awaits : [q EXCEPT !.total = None, !.correct = None,
     !.pc = l] \in Request
    BY DEF Request
  <2>2. "getStats" \in Awaits /\ "readProgress" \in Awaits
    BY DEF Awaits
  <2>3. QED BY <1>1, <2>1, <2>2
<1>4. Begun(x) /\ OwesNoMore(r, x) /\ Accounted(r, x) /\ Bounded(x)
  BY <1>1 DEF Begun, Owes, OwesNoMore, Accounted, Bounded, Request, At, BeforeCreate,
     BeforeProgress, BeforeStats
<1>5. Persists /\ today' \in Nat /\ PaidKept /\ OwedOnce'
  BY <1>2, <1>3, <1>4, OwedStays, MovesPersist
<1>6. solve' = [solve EXCEPT ![req[r].problem] =
                 [solveCount |-> req[r].total, correct |-> req[r].correct]]
  BY DEF UpdateProblemStats
<1>7. TypeOK'
  BY <1>1, <1>2, <1>3, <1>6 DEF IInv, TypeOK, Request, history
<1>8. SolveSound'
  <2>1. ASSUME NEW p \in Problems PROVE solve'[p].solveCount <= Cardinality(AttemptsOn(p)')
    <3>1. Fits(AttemptsOn(p), AttemptsOn(p)')
      BY <1>5, Grows
    <3>2. solve'[p].solveCount \in Nat /\ solve'[p].solveCount <= Cardinality(AttemptsOn(p))
      BY <1>1, <1>6 DEF IInv, TypeOK, Bounded, Request
    <3>3. QED BY <3>1, <3>2 DEF Fits
  <2>2. QED BY <2>1 DEF SolveSound
<1>9. QED
  BY <1>2, <1>3, <1>4, <1>5, <1>7, <1>8, TablesKeep, Moves

\* The defaults are zeros.
LEMMA UpsertZeroStatsKeeps ==
  ASSUME IInv, NEW r \in Reqs, UpsertZeroStats(r) PROVE IInv'
<1> PICK x : x = [req[r] EXCEPT !.seen = ZeroStats, !.pc = "fillStats"]
  OBVIOUS
<1> PICK w : w = req[r].user
  OBVIOUS
<1>1. /\ req[r] \in Request /\ Begun(req[r]) /\ Accounted(r, req[r]) /\ Bounded(req[r])
      /\ At(r, "zeroStats")
  BY DEF IInv, TypeOK, UpsertZeroStats
<1>2. /\ req' = [req EXCEPT ![r] = x] /\ UNCHANGED <<number, today, history>>
      /\ x.user = req[r].user /\ x.problem = req[r].problem /\ x.verdict = req[r].verdict
      /\ UNCHANGED <<progress, solve, earned, cached>>
  BY <1>1 DEF UpsertZeroStats, Request, history
<1>3. req[r].user \in Users /\ today \in Nat
  BY <1>1, BoundsTyped DEF Begun, At, IInv, TypeOK
<1>4. \A n \in Nat, xp \in Nat, d \in Nat : today <= d => Sound(ZeroStats, n, xp, d)
  BY <1>3 DEF Sound, ZeroStats, Level
<1>5. ZeroStats \in Stats
  BY <1>3 DEF ZeroStats, Stats
<1>6. \A u \in Users : /\ Cardinality(Counted(u)) \in Nat /\ Cardinality(Counted(u)') \in Nat
                        /\ CountedXp(u) \in Nat
  BY CountedNat, XpNat
<1>7. x \in Request
  BY <1>1, <1>5, SeenTyped DEF Awaits
<1>8. Begun(x) /\ OwesNoMore(r, x) /\ Accounted(r, x) /\ Bounded(x)
  <2>1. SoundFor(req[r].user, ZeroStats)
    BY <1>3, <1>4, <1>6 DEF SoundFor
  <2> HIDE DEF ZeroStats
  <2>2. Begun(x) /\ OwesNoMore(r, x) /\ Accounted(r, x)
    BY <1>1, <1>5 DEF Begun, Owes, OwesNoMore, Accounted, Request, At, BeforeCreate,
       BeforeProgress, BeforeStats
  <2>3. Bounded(x)
    BY <1>1, <2>1 DEF Bounded, Request
  <2>4. QED BY <2>2, <2>3
<1>9. Persists /\ today' \in Nat /\ today' = today /\ PaidKept /\ OwedOnce'
  BY <1>2, <1>7, <1>8, OwedStays, MovesPersist
<1>10. stats' = [stats EXCEPT ![req[r].user] = ZeroStats]
  BY DEF UpsertZeroStats
<1>11. TypeOK'
  BY <1>2, <1>5, <1>7, <1>10 DEF IInv, TypeOK, history
<1>12. StatsSound'
  <2>1. Sound(ZeroStats, Cardinality(Counted(w)'), CountedXp(w)', today')
    BY <1>3, <1>4, <1>6, <1>9, XpGrows DEF Grew
  <2> HIDE DEF ZeroStats
  <2>2. QED BY <1>3, <1>5, <1>9, <1>10, <2>1, StatsReplaced
<1>13. QED
  BY <1>2, <1>7, <1>8, <1>9, <1>11, <1>12, TablesKeep, Moves

\* The cache is filled with the row that was read.
LEMMA FillStatsKeeps ==
  ASSUME IInv, NEW r \in Reqs, FillStats(r) PROVE IInv'
<1> PICK x : x = Returned(req[r], req[r].seen)
  OBVIOUS
<1> PICK w : w = req[r].user
  OBVIOUS
<1>1. /\ req[r] \in Request /\ Begun(req[r]) /\ Accounted(r, req[r]) /\ Bounded(req[r])
      /\ At(r, "fillStats") /\ req' = [req EXCEPT ![r] = x]
      /\ UNCHANGED <<number, solve, progress, stats, earned, today, history>>
  BY DEF IInv, TypeOK, FillStats, db
<1>2. /\ req[r].seen \in Stats /\ req[r].user \in Users /\ SoundFor(req[r].user, req[r].seen)
      /\ today \in Nat
  BY <1>1, BoundsTyped DEF Begun, At, Bounded, IInv, TypeOK
<1>3. /\ x \in Request /\ Begun(x) /\ OwesNoMore(r, x) /\ Accounted(r, x) /\ Bounded(x)
      /\ x.user = req[r].user /\ x.problem = req[r].problem /\ x.verdict = req[r].verdict
  BY <1>1, <1>2, ReturnedFits DEF At
<1>4. Persists /\ today' \in Nat /\ PaidKept /\ OwedOnce'
  BY <1>1, <1>3, OwedStays, MovesPersist
<1>5. CachedSound' /\ cached' \in [Users -> Stats \cup {None}]
  <2>1. CASE cached' = [cached EXCEPT ![req[r].user] = req[r].seen]
    <3>1. Sound(req[r].seen, Cardinality(Counted(w)'), CountedXp(w)', today')
      BY <1>1, <1>2, <1>4, SoundStays
    <3>2. CachedSound'
      BY <1>2, <1>4, <2>1, <3>1, CachedReplaced
    <3>3. QED BY <1>2, <2>1, <3>2 DEF IInv, TypeOK
  <2>2. CASE UNCHANGED cached
    BY <1>4, <2>2, TablesKeep DEF IInv, TypeOK
  <2>3. QED BY <2>1, <2>2 DEF FillStats
<1>6. TypeOK'
  BY <1>1, <1>3, <1>5 DEF IInv, TypeOK, history
<1>7. QED
  BY <1>1, <1>3, <1>4, <1>5, <1>6, TablesKeep, Moves

\* Deleting the cached stats, on the way to checkAchievements.
LEMMA DelStatsKeeps ==
  ASSUME IInv, NEW r \in Reqs, DelStats(r) PROVE IInv'
<1> PICK x : x = [req[r] EXCEPT !.pc = "getStats", !.caller = "check"]
  OBVIOUS
<1>1. /\ req[r] \in Request /\ Begun(req[r]) /\ Accounted(r, req[r]) /\ Bounded(req[r])
      /\ At(r, "delStats") /\ req' = [req EXCEPT ![r] = x] /\ Uncaches(req[r].user)
      /\ UNCHANGED <<number, solve, progress, stats, earned, today, history>>
  BY DEF IInv, TypeOK, DelStats, db
<1>2. x \in Request
  BY <1>1 DEF Request, Awaits, Callers
<1>3. /\ Begun(x) /\ OwesNoMore(r, x) /\ Accounted(r, x) /\ Bounded(x)
      /\ x.user = req[r].user /\ x.problem = req[r].problem /\ x.verdict = req[r].verdict
  BY <1>1 DEF Begun, Owes, OwesNoMore, Accounted, Bounded, Request, At, BeforeCreate,
     BeforeProgress, BeforeStats
<1>4. Persists /\ today' \in Nat /\ today \in Nat /\ PaidKept /\ OwedOnce'
  BY <1>1, <1>2, <1>3, OwedStays, MovesPersist
<1>5. req[r].user \in Users
  BY <1>1 DEF Begun, At
<1>6. CachedSound' /\ cached' \in [Users -> Stats \cup {None}]
  BY <1>1, <1>4, <1>5, UncachesKeeps
<1>7. TypeOK'
  BY <1>1, <1>2, <1>6 DEF IInv, TypeOK, history
<1>8. QED
  BY <1>1, <1>2, <1>3, <1>4, <1>6, <1>7, TablesKeep, Moves

\* Deleting the cached stats after a reward, and on to the next achievement.
LEMMA DelRewardedKeeps ==
  ASSUME IInv, NEW r \in Reqs, DelRewarded(r) PROVE IInv'
<1> PICK x : x = [req[r] EXCEPT !.granted = None,
   !.pc = IF req[r].todo = {} THEN "done" ELSE "grant"]
  OBVIOUS
<1>1. /\ req[r] \in Request /\ Begun(req[r]) /\ Accounted(r, req[r]) /\ Bounded(req[r])
      /\ At(r, "delRewarded") /\ req' = [req EXCEPT ![r] = x] /\ Uncaches(req[r].user)
      /\ UNCHANGED <<number, solve, progress, stats, earned, today, history>>
  BY DEF IInv, TypeOK, DelRewarded, db
<1>2. x \in Request
  <2>1. \A q \in Request, l \in Awaits \cup Ended : [q EXCEPT !.granted = None,
     !.pc = l] \in Request
    BY DEF Request
  <2>2. "done" \in Ended /\ "grant" \in Awaits
    BY DEF Ended, Awaits
  <2>3. QED BY <1>1, <2>1, <2>2
<1>3. /\ Begun(x) /\ OwesNoMore(r, x) /\ Accounted(r, x) /\ Bounded(x)
      /\ x.user = req[r].user /\ x.problem = req[r].problem /\ x.verdict = req[r].verdict
  BY <1>1 DEF Begun, Owes, OwesNoMore, Accounted, Bounded, Request, At, BeforeCreate,
     BeforeProgress, BeforeStats
<1>4. Persists /\ today' \in Nat /\ today \in Nat /\ PaidKept /\ OwedOnce'
  BY <1>1, <1>2, <1>3, OwedStays, MovesPersist
<1>5. req[r].user \in Users
  BY <1>1 DEF Begun, At
<1>6. CachedSound' /\ cached' \in [Users -> Stats \cup {None}]
  BY <1>1, <1>4, <1>5, UncachesKeeps
<1>7. TypeOK'
  BY <1>1, <1>2, <1>6 DEF IInv, TypeOK, history
<1>8. QED
  BY <1>1, <1>2, <1>3, <1>4, <1>6, <1>7, TablesKeep, Moves

\* The reward is added to a copy that may be stale, but is bounded; the request
\* owes it no more, so it counts among what has been paid.
LEMMA PayRewardKeeps ==
  ASSUME IInv, NEW r \in Reqs, PayReward(r) PROVE IInv'
<1> DEFINE a == req[r].granted
           xp == req[r].seen.totalXp + Reward[a]
<1> PICK x : x = [req[r] EXCEPT !.seen = None, !.pc = "delRewarded"]
  OBVIOUS
<1> PICK w : w = req[r].user
  OBVIOUS
<1> PICK st : st = [req[r].seen EXCEPT !.totalXp = xp, !.level = Level(xp), !.day = today]
  OBVIOUS
<1>1. /\ req[r] \in Request /\ Begun(req[r]) /\ Accounted(r, req[r]) /\ Bounded(req[r])
      /\ At(r, "payReward") /\ req' = [req EXCEPT ![r] = x]
      /\ stats' = [stats EXCEPT ![w] = st]
      /\ UNCHANGED <<number, solve, progress, earned, cached, today, history>>
  BY DEF IInv, TypeOK, PayReward
<1>2. /\ req[r].seen \in Stats /\ w \in Users /\ SoundFor(w, req[r].seen) /\ today \in Nat
      /\ Owes(req[r]) /\ a \in Achievements /\ Reward[a] \in Nat /\ a \in earned[w]
  BY <1>1, BoundsTyped, RewardTyped DEF Begun, Owes, At, Bounded, IInv, TypeOK, Request
<1>3. xp \in Nat /\ Level(xp) \in Nat
  BY <1>2 DEF Stats, Level
<1>4. /\ st \in Stats
      /\ st.totalProblemsSolved = req[r].seen.totalProblemsSolved
      /\ st.totalXp = req[r].seen.totalXp + Reward[a] /\ st.level = Level(st.totalXp)
      /\ st.currentStreak = req[r].seen.currentStreak
      /\ st.longestStreak = req[r].seen.longestStreak /\ st.day = today
  BY <1>2, <1>3 DEF Stats
<1>5. x \in Request
  BY <1>1, SeenTyped DEF Awaits
<1>6. /\ Begun(x) /\ OwesNoMore(r, x) /\ Accounted(r, x) /\ Bounded(x)
      /\ x.user = req[r].user /\ x.problem = req[r].problem /\ x.verdict = req[r].verdict
  BY <1>1 DEF Begun, Owes, OwesNoMore, Accounted, Bounded, Request, At, BeforeCreate,
     BeforeProgress, BeforeStats, SoundFor, Sound
<1>7. Persists /\ today' \in Nat /\ today' = today /\ PaidKept /\ OwedOnce'
  BY <1>1, <1>5, <1>6, OwedStays, MovesPersist
<1>8. PaidXp(w) + Reward[a] <= PaidXp(w)'
  <2>1. a \in Paid(w)' /\ a \notin Paid(w)
    <3>1. a \notin Paid(w)
      BY <1>2 DEF Paid
    <3>2. \A q \in Reqs : Owes(req[q]) /\ req[q].user = w /\ req[q].granted = a => q = r
      BY <1>2 DEF IInv
    <3>3. ~Owes(req'[r]) /\ \A q \in Reqs \ {r} : req'[q] = req[q]
      BY <1>1, <1>5 DEF IInv, TypeOK, Owes, Request
    <3>4. QED BY <1>1, <1>2, <3>1, <3>2, <3>3 DEF Paid
  <2>2. /\ Paid(w) \cup {a} \in SUBSET Paid(w)' /\ Paid(w)' \in SUBSET Achievements
        /\ Paid(w) \in SUBSET Achievements
    BY <1>2, <1>7, <2>1 DEF PaidKept
  <2>3. /\ IsFiniteSet(Paid(w)) /\ IsFiniteSet(Paid(w)') /\ Numbers(Reward, Paid(w))
        /\ Numbers(Reward, Paid(w) \cup {a}) /\ Numbers(Reward, Paid(w)')
    BY <2>2, AchievementsFinite, RewardTyped, FS_Subset DEF Numbers
  <2>4. Total(Reward, Paid(w) \cup {a}) = Total(Reward, Paid(w)) + Reward[a]
    BY <1>2, <2>1, <2>3, TotalAdd
  <2>5. \A b \in Paid(w) \cup {a} : Reward[b] <= Reward[b]
    BY <2>3 DEF Numbers
  <2>6. Total(Reward, Paid(w) \cup {a}) <= Total(Reward, Paid(w)')
    BY <2>2, <2>3, <2>5, TotalMono
  <2>7. PaidXp(w) = Total(Reward, Paid(w)) /\ PaidXp(w)' = Total(Reward, Paid(w)')
    BY RewardTotal DEF PaidXp
  <2>8. QED BY <2>4, <2>6, <2>7
<1>9. CountedXp(w) + Reward[a] <= CountedXp(w)' /\ CountedXp(w) \in Nat /\ CountedXp(w)' \in Nat
  <2>1. /\ Fits(WithVerdict(Counted(w), {"right"}), WithVerdict(Counted(w), {"right"})')
        /\ Fits(WithVerdict(Counted(w), {"wrong"}), WithVerdict(Counted(w), {"wrong"})')
    BY <1>2, <1>7, XpParts
  <2>2. QED BY <1>2, <1>7, <1>8, <2>1, XpParts DEF Fits, Grew
<1>10. StatsSound'
  <2>1. Sound(st, Cardinality(Counted(w)'), CountedXp(w)', today')
    <3>1. req[r].seen.totalXp + Reward[a] <= CountedXp(w)'
      BY <1>2, <1>9, NoneIsNoRow DEF SoundFor, Sound, Stats
    <3>2. Sound(req[r].seen, Cardinality(Counted(w)'), CountedXp(w)', today')
      BY <1>2, <1>7, SoundStays
    <3>3. QED BY <1>2, <1>4, <1>7, <3>1, <3>2, NoneIsNoRow DEF Sound, Stats
  <2>2. QED BY <1>1, <1>2, <1>4, <1>7, <2>1, StatsReplaced
<1>11. TypeOK'
  BY <1>1, <1>4, <1>5 DEF IInv, TypeOK, history
<1>12. QED
  BY <1>1, <1>5, <1>6, <1>7, <1>10, <1>11, TablesKeep, Moves

\* What is granted was on the list of what is deserved.
LEMMA GrantKeeps ==
  ASSUME IInv, NEW r \in Reqs, Grant(r) PROVE IInv'
<1> PICK w : w = req[r].user
  OBVIOUS
<1>1. /\ req[r] \in Request /\ Begun(req[r]) /\ Accounted(r, req[r]) /\ Bounded(req[r])
      /\ At(r, "grant") /\ today \in Nat
      /\ UNCHANGED <<number, solve, progress, stats, cached, today, history>>
  BY BoundsTyped DEF IInv, TypeOK, Grant
<1>2. PICK a \in req[r].todo :
       \/ /\ a \notin earned[w]
          /\ earned' = [earned EXCEPT ![w] = @ \cup {a}]
          /\ req' = [req EXCEPT ![r] = [req[r] EXCEPT !.todo = req[r].todo \ {a},
               !.granted = a, !.pc = IF Reward[a] > 0 THEN "rereadStats" ELSE "delRewarded"]]
       \/ /\ req' = [req EXCEPT ![r] = [@ EXCEPT !.todo = {}, !.pc = "failed"]]
          /\ UNCHANGED earned
  BY DEF Grant
<1>3. /\ w \in Users /\ a \in Achievements /\ Reward[a] \in Nat
      /\ DeservedBy(w, req[r].todo) /\ req[r].todo \subseteq Achievements
  BY <1>1, <1>2, RewardTyped DEF Begun, At, Bounded, Request
<1>4. CASE /\ a \notin earned[w]
           /\ earned' = [earned EXCEPT ![w] = @ \cup {a}]
           /\ req' = [req EXCEPT ![r] = [req[r] EXCEPT !.todo = req[r].todo \ {a},
                !.granted = a, !.pc = IF Reward[a] > 0 THEN "rereadStats" ELSE "delRewarded"]]
  <2> PICK x : x = [req[r] EXCEPT !.todo = req[r].todo \ {a}, !.granted = a,
                !.pc = IF Reward[a] > 0 THEN "rereadStats" ELSE "delRewarded"]
    OBVIOUS
  <2>1. req' = [req EXCEPT ![r] = x]
    BY <1>4
  <2>2. x \in Request
    <3>1. \A q \in Request, S \in SUBSET Achievements, b \in Achievements, l \in Awaits :
            [q EXCEPT !.todo = S, !.granted = b, !.pc = l] \in Request
      BY DEF Request
    <3>2. "rereadStats" \in Awaits /\ "delRewarded" \in Awaits
      BY DEF Awaits
    <3>3. req[r].todo \ {a} \in SUBSET Achievements
      BY <1>3
    <3>4. QED BY <1>1, <1>3, <3>1, <3>2, <3>3
  <2>3. /\ Begun(x) /\ Accounted(r, x) /\ Bounded(x)
        /\ x.user = w /\ x.granted = a
        /\ x.user = req[r].user /\ x.problem = req[r].problem /\ x.verdict = req[r].verdict
    BY <1>1, <1>3 DEF Begun, Owes, Accounted, Bounded, DeservedBy, Request, At, BeforeCreate,
       BeforeProgress, BeforeStats
  <2>4. PaidKept /\ OwedOnce'
    <3>1. /\ ~Owes(req[r]) /\ req'[r] = x /\ \A q \in Reqs \ {r} : req'[q] = req[q]
          /\ \A u \in Users : earned'[u] = IF u = w THEN earned[w] \cup {a} ELSE earned[u]
      BY <1>1, <1>3, <1>4, <2>1 DEF IInv, TypeOK, Owes, At
    <3>2. OwedOnce /\ \A q \in Reqs : Owes(req[q]) => req[q].user \in Users
      BY DEF IInv, OwedOnce, Begun, Owes
    <3>3. OwedOnce'
      BY <1>3, <1>4, <2>3, <3>1, <3>2 DEF OwedOnce
    <3>4. ASSUME NEW u \in Users PROVE Paid(u) \subseteq Paid(u)' /\ Paid(u)' \subseteq Achievements
      <4>1. Paid(u)' \subseteq Achievements
        BY <1>3, <3>1 DEF Paid, IInv, TypeOK
      <4>2. ASSUME NEW b \in Paid(u) PROVE b \in Paid(u)'
        <5>1. b \in earned[u] /\ ~(u = w /\ b = a)
          BY <1>4 DEF Paid
        <5>2. b \in earned'[u]
          BY <3>1, <5>1
        <5>3. ASSUME NEW q \in Reqs, Owes(req'[q]), req'[q].user = u PROVE req'[q].granted # b
          <6>1. CASE q = r
            BY <2>3, <3>1, <5>1, <5>3, <6>1
          <6>2. CASE q # r
            <7>1. req'[q] = req[q]
              BY <3>1, <6>2
            <7>2. Owes(req[q]) /\ req[q].user = u
              BY <5>3, <7>1
            <7>3. req[q].granted # b
              BY <4>2, <7>2 DEF Paid
            <7>4. QED BY <7>1, <7>3
          <6>3. QED BY <6>1, <6>2
        <5>4. QED BY <5>2, <5>3 DEF Paid
      <4>3. QED BY <4>1, <4>2
    <3>5. QED BY <3>3, <3>4 DEF PaidKept
  <2>persists. Persists /\ today' \in Nat
    BY <1>1, <2>1, <2>2, <2>3, <2>4, MovesPersist
  <2>5. EarnedSound'
    <3>1. \A b \in req[r].todo : Deserved(b, Cardinality(Counted(w)'), CountedXp(w)', today')
      BY <1>1, <1>3, <2>persists, DeservedStays
    <3>2. ASSUME NEW u \in Users, NEW b \in earned'[u]
          PROVE Deserved(b, Cardinality(Counted(u)'), CountedXp(u)', today')
      <4>1. b \in earned[u] => Deserved(b, Cardinality(Counted(u)'), CountedXp(u)', today')
        BY <1>1, <2>persists, DeservedStays DEF IInv, TypeOK
      <4>2. b \in earned[u] \/ (u = w /\ b = a)
        BY <1>3, <1>4, <3>2 DEF IInv, TypeOK
      <4>3. QED BY <3>1, <4>1, <4>2
    <3>3. QED BY <3>2 DEF EarnedSound, DeservedBy
  <2>6. TypeOK'
    BY <1>1, <1>3, <1>4, <2>1, <2>2 DEF IInv, TypeOK, history
  <2>7. QED
    BY <1>1, <2>1, <2>2, <2>3, <2>4, <2>5, <2>6, <2>persists, TablesKeep, Moves
<1>5. CASE /\ req' = [req EXCEPT ![r] = [@ EXCEPT !.todo = {}, !.pc = "failed"]]
           /\ UNCHANGED earned
  <2> PICK x : x = [req[r] EXCEPT !.todo = {}, !.pc = "failed"]
    OBVIOUS
  <2>1. req' = [req EXCEPT ![r] = x]
    BY <1>5
  <2>2. x \in Request
    BY <1>1 DEF Request, Ended
  <2>3. /\ Begun(x) /\ OwesNoMore(r, x) /\ Accounted(r, x) /\ Bounded(x)
        /\ x.user = req[r].user /\ x.problem = req[r].problem /\ x.verdict = req[r].verdict
    BY <1>1 DEF Begun, Owes, OwesNoMore, Accounted, Bounded, DeservedBy, Request, At,
       BeforeCreate, BeforeProgress,
       BeforeStats
  <2>4. ~At(r, "new") /\ UNCHANGED <<db, cached, today, history>>
    BY <1>1, <1>5 DEF At, db
  <2>5. QED
    BY <2>1, <2>2, <2>3, <2>4, Quiet
<1>6. QED BY <1>2, <1>4, <1>5

\* The row inserted is one attempt more, and its number counts those before it.
LEMMA CreateAttemptKeeps ==
  ASSUME IInv, NEW r \in Reqs, CreateAttempt(r) PROVE IInv'
<1> PICK x : x = [req[r] EXCEPT !.pc = "problemStats", !.count = 0]
  OBVIOUS
<1> PICK w : w = req[r].user
  OBVIOUS
<1> PICK p : p = req[r].problem
  OBVIOUS
<1>1. /\ req[r] \in Request /\ Begun(req[r]) /\ Accounted(r, req[r]) /\ Bounded(req[r])
      /\ At(r, "create") /\ req' = [req EXCEPT ![r] = x]
      /\ number' = [number EXCEPT ![r] = req[r].count + 1]
      /\ UNCHANGED <<solve, progress, stats, earned, cached, today, history>>
  BY DEF IInv, TypeOK, CreateAttempt
<1>2. /\ w \in Users /\ p \in Problems /\ req[r].count \in Nat /\ number[r] = 0
      /\ req[r].caller = "submit" /\ today \in Nat /\ today' \in Nat /\ today' = today
      /\ req[r].total = None /\ countedOn[r] = 0 /\ r \notin progressed
  BY <1>1, BoundsTyped DEF Begun, Accounted, At, Request, BeforeCreate, IInv, TypeOK
<1>3. /\ x \in Request /\ x.user = w /\ x.problem = p /\ x.verdict = req[r].verdict
      /\ x.pc = "problemStats" /\ x.caller = "submit" /\ x.total = None
      /\ x.seen = req[r].seen /\ x.todo = req[r].todo
  <2>1. x \in Request
    BY <1>1 DEF Request, Awaits
  <2>2. QED BY <1>1, <1>2, <2>1 DEF Request
<1>4. req'[r] = x /\ number'[r] = req[r].count + 1 /\ number'[r] \in Nat /\ number'[r] # 0
  BY <1>1, <1>2 DEF IInv, TypeOK
<1>5. TypeOK'
  BY <1>1, <1>2, <1>3 DEF IInv, TypeOK, history
<1>7. Begun(x) /\ OwesNoMore(r, x) /\ Bounded(x)
  BY <1>1, <1>2, <1>3 DEF Begun, Owes, OwesNoMore, Bounded, BeforeCreate, BeforeProgress
<1>owed. PaidKept /\ OwedOnce'
  BY <1>1, <1>3, <1>7, OwedStays
<1>6. Persists
  BY <1>1, <1>2, <1>3, <1>4, <1>owed DEF IInv, TypeOK, Persists, history, At
<1>8. Begun(req'[r]) /\ Bounded(req[r])'
  BY <1>2, <1>3, <1>4, <1>6, <1>7, BoundedStays
<1>9. Accounted(r, req[r])'
  BY <1>1, <1>2, <1>3, <1>4 DEF Accounted, history, BeforeCreate, BeforeProgress
<1>10. NumbersSound'
  <2>1. Cardinality(AttemptsAt(w, p)) + 1 <= Cardinality(AttemptsAt(w, p)')
        /\ Fits(AttemptsAt(w, p), AttemptsAt(w, p)')
    <3>1. AttemptsAt(w, p) \subseteq AttemptsAt(w, p)' /\ AttemptsAt(w, p)' \subseteq Reqs
      BY <1>6, Behind DEF Persists, AttemptsAt, AttemptsOf, Attempts
    <3>2. r \in AttemptsAt(w, p)' /\ r \notin AttemptsAt(w, p)
      BY <1>2, <1>3, <1>4 DEF AttemptsAt, AttemptsOf, Attempts
    <3>3. QED BY <3>1, <3>2, OneMore
  <2>2. number'[r] <= Cardinality(AttemptsAt(w, p)')
    BY <1>1, <1>2, <1>4, <2>1 DEF Bounded, At, Fits
  <2>3. ASSUME NEW q \in Attempts', q # r
        PROVE /\ number'[q] <= Cardinality(AttemptsAt(req[q].user, req[q].problem)')
              /\ req'[q] = req[q]
    <3>1. q \in Reqs /\ q \in Attempts /\ number'[q] = number[q] /\ req'[q] = req[q]
      BY <1>1, <2>3 DEF Attempts, IInv, TypeOK
    <3>2. /\ number[q] \in Nat /\ req[q].user \in Users /\ req[q].problem \in Problems
          /\ number[q] <= Cardinality(AttemptsAt(req[q].user, req[q].problem))
      BY <3>1 DEF IInv, TypeOK, Accounted, Attempts
    <3>3. Fits(AttemptsAt(req[q].user, req[q].problem), AttemptsAt(req[q].user, req[q].problem)')
      BY <1>6, <3>1, <3>2, Grows
    <3>4. QED BY <3>1, <3>2, <3>3 DEF Fits
  <2>4. QED BY <1>3, <1>4, <2>2, <2>3 DEF NumbersSound
<1>11. QED
  <2>1. \A q \in Reqs \ {r} : /\ req'[q] = req[q] /\ number'[q] = number[q]
                              /\ countedOn'[q] = countedOn[q]
                              /\ q \in progressed' <=> q \in progressed
    BY <1>1 DEF IInv, TypeOK, history
  <2>2. StatsSound' /\ CachedSound' /\ EarnedSound' /\ ProgressSound' /\ SolveSound'
    BY <1>1, <1>2, <1>6, TablesKeep
  <2>3. QED BY <1>5, <1>6, <1>8, <1>9, <1>10, <1>owed, <2>1, <2>2, Assemble

\* The row written is one up on the row read, and the request joins those
\* behind it.
LEMMA UpsertProgressKeeps ==
  ASSUME IInv, NEW r \in Reqs, UpsertProgress(r) PROVE IInv'
<1> PICK x : x = [req[r] EXCEPT !.pc = "getStats", !.row = NoProgress]
  OBVIOUS
<1> PICK w : w = req[r].user
  OBVIOUS
<1> PICK t : t = Topic(r)
  OBVIOUS
<1> PICK row : row = [problemsSolved |-> req[r].row.problemsSolved + 1,
             correctCount |-> req[r].row.correctCount
                                + (IF req[r].verdict = "right" THEN 1 ELSE 0)]
  OBVIOUS
<1>1. /\ req[r] \in Request /\ Begun(req[r]) /\ Accounted(r, req[r]) /\ Bounded(req[r])
      /\ At(r, "upsertProgress") /\ req' = [req EXCEPT ![r] = x]
      /\ progress' = [progress EXCEPT ![<<w, t>>] = row]
      /\ progressed' = progressed \cup {r}
      /\ UNCHANGED <<number, solve, stats, earned, cached, today, countedOn>>
  BY DEF IInv, TypeOK, UpsertProgress
<1>2. /\ w \in Users /\ t \in Topics /\ req[r].problem \in Problems
      /\ TopicOf[req[r].problem] = t /\ req[r].row \in Progress /\ row \in Progress
      /\ req[r].verdict \in {"right", "wrong"} /\ req[r].caller = "submit"
      /\ today \in Nat /\ today' \in Nat /\ today' = today /\ number[r] # 0
      /\ req[r].total = None /\ countedOn[r] = 0 /\ r \notin progressed
  BY <1>1, BoundsTyped, TopicsTyped DEF Begun, Accounted, At, Request, Progress, Topic, BeforeStats,
     BeforeProgress, IInv, TypeOK
<1>3. /\ x \in Request /\ x.user = w /\ x.problem = req[r].problem /\ x.verdict = req[r].verdict
      /\ x.pc = "getStats" /\ x.caller = "submit" /\ x.total = None
      /\ x.seen = req[r].seen /\ x.todo = req[r].todo
  <2>1. x \in Request
    <3>1. \A q \in Request, n \in Progress : [q EXCEPT !.pc = "getStats", !.row = n] \in Request
      BY DEF Request, Awaits
    <3>2. NoProgress \in Progress
      BY DEF NoProgress, Progress
    <3>3. QED BY <1>1, <3>1, <3>2
  <2>2. QED BY <1>1, <1>2, <2>1 DEF Request
<1>4. req'[r] = x
  BY <1>1 DEF IInv, TypeOK
<1>5. TypeOK'
  BY <1>1, <1>2, <1>3 DEF IInv, TypeOK
<1>7. Begun(x) /\ OwesNoMore(r, x) /\ Bounded(x)
  BY <1>1, <1>2, <1>3 DEF Begun, Owes, OwesNoMore, Bounded, BeforeCreate, BeforeProgress
<1>owed. PaidKept /\ OwedOnce'
  BY <1>1, <1>3, <1>7, OwedStays
<1>6. Persists
  BY <1>1, <1>2, <1>3, <1>4, <1>owed DEF IInv, TypeOK, Persists, At
<1>8. Begun(req'[r]) /\ Bounded(req[r])'
  BY <1>2, <1>3, <1>4, <1>6, <1>7, BoundedStays
<1>9. Accounted(r, req[r])'
  BY <1>1, <1>2, <1>3, <1>4 DEF Accounted, BeforeCreate, BeforeProgress
<1>10. ASSUME NEW V \in SUBSET {"right", "wrong"}
       PROVE /\ Fits(Progressed(w, t, V), Progressed(w, t, V)')
             /\ req[r].verdict \in V =>
                  Cardinality(Progressed(w, t, V)) + 1 <= Cardinality(Progressed(w, t, V)')
  <2>1. Fits(Progressed(w, t, V), Progressed(w, t, V)')
    BY <1>2, <1>6, Grows
  <2>2. ASSUME req[r].verdict \in V
        PROVE Cardinality(Progressed(w, t, V)) + 1 <= Cardinality(Progressed(w, t, V)')
    <3>1. Progressed(w, t, V) \subseteq Progressed(w, t, V)' /\ Progressed(w, t, V)' \subseteq Reqs
      BY <1>6, Behind DEF IInv, TypeOK, Persists, Progressed, WithVerdict, Topic
    <3>2. r \in Progressed(w, t, V)' /\ r \notin Progressed(w, t, V)
      BY <1>1, <1>2, <1>3, <1>4, <2>2 DEF Progressed, WithVerdict, Topic
    <3>3. QED BY <3>1, <3>2, OneMore
  <2>3. QED BY <2>1, <2>2
<1>11. /\ row.problemsSolved <= Cardinality(Progressed(w, t, {"right", "wrong"})')
       /\ row.correctCount <= Cardinality(Progressed(w, t, {"right"})')
  <2>1. /\ req[r].row.problemsSolved <= Cardinality(Progressed(w, t, {"right", "wrong"}))
        /\ req[r].row.correctCount <= Cardinality(Progressed(w, t, {"right"}))
    BY <1>1, <1>2 DEF Bounded, RowSound, At
  <2>2. row.problemsSolved = req[r].row.problemsSolved + 1
        /\ row.correctCount = req[r].row.correctCount
                                + (IF req[r].verdict = "right" THEN 1 ELSE 0)
    BY DEF Progress
  <2>3. row.problemsSolved <= Cardinality(Progressed(w, t, {"right", "wrong"})')
    BY <1>2, <1>10, <2>1, <2>2 DEF Fits, Progress
  <2>4. row.correctCount <= Cardinality(Progressed(w, t, {"right"})')
    BY <1>2, <1>10, <2>1, <2>2 DEF Fits, Progress
  <2>5. QED BY <2>3, <2>4
<1>12. ProgressSound'
  <2>1. ASSUME NEW v \in Users, NEW s \in Topics
        PROVE /\ progress'[<<v, s>>].problemsSolved
                   <= Cardinality(Progressed(v, s, {"right", "wrong"})')
              /\ progress'[<<v, s>>].correctCount <= Cardinality(Progressed(v, s, {"right"})')
    <3>1. progress'[<<v, s>>] = IF v = w /\ s = t THEN row ELSE progress[<<v, s>>]
      BY <1>1, <1>2 DEF IInv, TypeOK
    <3>2. /\ progress[<<v, s>>].problemsSolved <= Cardinality(Progressed(v, s, {"right", "wrong"})')
          /\ progress[<<v, s>>].correctCount <= Cardinality(Progressed(v, s, {"right"})')
      BY <1>6, RowStays DEF IInv, TypeOK
    <3>3. QED BY <1>11, <3>1, <3>2
  <2>2. QED BY <2>1 DEF ProgressSound, RowSound
<1>13. QED
  <2>1. \A q \in Reqs \ {r} : /\ req'[q] = req[q] /\ number'[q] = number[q]
                              /\ countedOn'[q] = countedOn[q]
                              /\ q \in progressed' <=> q \in progressed
    BY <1>1 DEF IInv, TypeOK
  <2>2. StatsSound' /\ CachedSound' /\ EarnedSound' /\ SolveSound' /\ NumbersSound'
    BY <1>1, <1>2, <1>6, TablesKeep
  <2>3. QED BY <1>5, <1>6, <1>8, <1>9, <1>12, <1>owed, <2>1, <2>2, Assemble

\* What an attempt makes of stats that were read stays within the days: the
\* streak goes up only when the day of the last write has passed.
LEMMA AfterAttemptSound ==
  ASSUME NEW st \in Stats, NEW v \in {"right", "wrong", "ungraded"}, NEW n \in Nat, NEW m \in Nat,
         NEW e \in Nat, NEW f \in Nat, today \in Nat, today >= 1, Sound(st, n, e, today),
         n + 1 <= m, e + XpGain(v) <= f
  PROVE AfterAttempt(st, v) \in Stats /\ Sound(AfterAttempt(st, v), m, f, today)
<1> DEFINE k == Streak(st)
           xp == st.totalXp + XpGain(v)
<1>1. /\ st.totalXp \in Nat /\ st.currentStreak \in Nat /\ st.longestStreak \in Nat
      /\ st.totalProblemsSolved \in Nat /\ st.day \in Nat
      /\ st.totalProblemsSolved <= n /\ st.currentStreak <= st.longestStreak
      /\ st.longestStreak <= st.day /\ st.day <= today /\ st.totalXp <= e
  BY NoneIsNoRow DEF Stats, Sound
<1>2. k \in Nat /\ k <= today
  BY <1>1 DEF Streak
<1>3. xp \in Nat /\ xp <= f /\ Level(xp) \in Nat
  BY <1>1 DEF XpGain, Level
<1> HIDE DEF k, xp
<1>4. AfterAttempt(st, v) =
        [totalXp |-> xp, level |-> Level(xp), currentStreak |-> k,
         longestStreak |-> IF k > st.longestStreak THEN k ELSE st.longestStreak,
         totalProblemsSolved |-> st.totalProblemsSolved + 1, day |-> today]
  BY DEF AfterAttempt, k, xp
<1>5. AfterAttempt(st, v) \in Stats
  BY <1>1, <1>2, <1>3, <1>4 DEF Stats
<1>6. QED BY <1>1, <1>2, <1>3, <1>4, <1>5 DEF Sound

\* The stats written are one attempt up on the stats read, and the request joins
\* those behind them.
LEMMA UpsertStatsKeeps ==
  ASSUME IInv, NEW r \in Reqs, UpsertStats(r) PROVE IInv'
<1> PICK x : x = [req[r] EXCEPT !.pc = "delStats", !.seen = None]
  OBVIOUS
<1> PICK w : w = req[r].user
  OBVIOUS
<1> PICK st : st = AfterAttempt(req[r].seen, req[r].verdict)
  OBVIOUS
<1>1. /\ req[r] \in Request /\ Begun(req[r]) /\ Accounted(r, req[r]) /\ Bounded(req[r])
      /\ At(r, "upsertStats") /\ req' = [req EXCEPT ![r] = x]
      /\ stats' = [stats EXCEPT ![w] = st]
      /\ countedOn' = [countedOn EXCEPT ![r] = today]
      /\ UNCHANGED <<number, solve, progress, earned, cached, today, progressed>>
  BY DEF IInv, TypeOK, UpsertStats
<1>2. /\ w \in Users /\ req[r].seen \in Stats /\ SoundFor(w, req[r].seen)
      /\ req[r].caller = "submit" /\ req[r].verdict \in {"right", "wrong", "ungraded"}
      /\ today \in Nat /\ today' \in Nat /\ today' = today /\ today >= 1 /\ today \in 0..LastDay
      /\ number[r] # 0 /\ countedOn[r] = 0 /\ req[r].total = None
  BY <1>1, BoundsTyped DEF Begun, Accounted, Bounded, At, Request, BeforeStats, BeforeProgress,
     IInv,
     TypeOK
<1>3. /\ x \in Request /\ x.user = w /\ x.problem = req[r].problem /\ x.verdict = req[r].verdict
      /\ x.pc = "delStats" /\ x.caller = "submit" /\ x.total = None /\ x.seen = None
      /\ x.todo = req[r].todo
  <2>1. x \in Request
    <3>1. "delStats" \in Awaits \cup Ended /\ None \in Stats \cup {None}
      BY DEF Awaits
    <3>2. QED BY <1>1, <3>1, SeenTyped
  <2>2. QED BY <1>1, <1>2, <2>1 DEF Request
<1>4. req'[r] = x /\ countedOn'[r] = today /\ countedOn'[r] # 0
  BY <1>1, <1>2 DEF IInv, TypeOK
<1>6. Begun(x) /\ OwesNoMore(r, x) /\ Bounded(x)
  BY <1>1, <1>2, <1>3 DEF Begun, Owes, OwesNoMore, Bounded, BeforeCreate, BeforeProgress,
     SoundFor, Sound
<1>owed. PaidKept /\ OwedOnce'
  BY <1>1, <1>3, <1>6, OwedStays
<1>5. Persists
  BY <1>1, <1>2, <1>3, <1>4, <1>owed DEF IInv, TypeOK, Persists, At
<1>7. Begun(req'[r]) /\ Bounded(req[r])'
  BY <1>2, <1>3, <1>4, <1>5, <1>6, BoundedStays
<1>8. Accounted(r, req[r])'
  BY <1>1, <1>2, <1>3, <1>4 DEF Accounted, BeforeCreate, BeforeProgress, BeforeStats
<1>9. Cardinality(Counted(w)) + 1 <= Cardinality(Counted(w)')
  <2>1. Counted(w) \subseteq Counted(w)' /\ Counted(w)' \subseteq Reqs
    BY <1>5, Behind DEF Persists, Counted
  <2>2. r \in Counted(w)' /\ r \notin Counted(w)
    BY <1>2, <1>3, <1>4 DEF Counted
  <2>3. QED BY <2>1, <2>2, OneMore
<1>15. Grew(CountedXp(w), CountedXp(w)')
       /\ CountedXp(w) + XpGain(req[r].verdict) <= CountedXp(w)'
  <2>1. ASSUME NEW v \in {"right", "wrong"}, v = req[r].verdict
        PROVE Cardinality(WithVerdict(Counted(w), {v})) + 1
                <= Cardinality(WithVerdict(Counted(w), {v})')
    <3>1. WithVerdict(Counted(w), {v}) \subseteq WithVerdict(Counted(w), {v})'
      BY <1>2, <1>5, XpParts
    <3>2. WithVerdict(Counted(w), {v})' \in SUBSET Reqs
      BY DEF WithVerdict, Counted
    <3>3. r \in WithVerdict(Counted(w), {v})' /\ r \notin WithVerdict(Counted(w), {v})
      BY <1>2, <1>3, <1>4, <2>1 DEF Counted, WithVerdict
    <3>4. QED BY <3>1, <3>2, <3>3, OneMore
  <2>2. /\ Fits(WithVerdict(Counted(w), {"right"}), WithVerdict(Counted(w), {"right"})')
        /\ Fits(WithVerdict(Counted(w), {"wrong"}), WithVerdict(Counted(w), {"wrong"})')
    BY <1>2, <1>5, XpParts
  <2>3. XpGain(req[r].verdict) = CASE req[r].verdict = "right" -> 10
                                   [] req[r].verdict = "wrong" -> 2 [] OTHER -> 0
    BY DEF XpGain
  <2>4. CASE req[r].verdict = "right"
    <3>1. Cardinality(WithVerdict(Counted(w), {"right"})) + 1
            <= Cardinality(WithVerdict(Counted(w), {"right"})')
      BY <2>1, <2>4
    <3>2. QED BY <1>2, <1>5, <2>2, <2>3, <2>4, <3>1, XpParts DEF Fits, Grew
  <2>5. CASE req[r].verdict = "wrong"
    <3>1. Cardinality(WithVerdict(Counted(w), {"wrong"})) + 1
            <= Cardinality(WithVerdict(Counted(w), {"wrong"})')
      BY <2>1, <2>5
    <3>2. QED BY <1>2, <1>5, <2>2, <2>3, <2>5, <3>1, XpParts DEF Fits, Grew
  <2>6. CASE req[r].verdict = "ungraded"
    BY <1>2, <1>5, <2>2, <2>3, <2>6, XpParts DEF Fits, Grew
  <2>7. QED BY <1>2, <2>4, <2>5, <2>6
<1>10. st \in Stats /\ Sound(st, Cardinality(Counted(w)'), CountedXp(w)', today')
  <2>1. Cardinality(Counted(w)) \in Nat /\ Cardinality(Counted(w)') \in Nat
    BY <1>2, CountedNat
  <2>2. QED BY <1>2, <1>9, <1>15, <2>1, AfterAttemptSound DEF SoundFor, Grew
<1>11. TypeOK'
  BY <1>1, <1>2, <1>3, <1>10 DEF IInv, TypeOK
<1>12. StatsSound'
  BY <1>1, <1>2, <1>5, <1>10, StatsReplaced
<1>13. QED
  <2>1. \A q \in Reqs \ {r} : /\ req'[q] = req[q] /\ number'[q] = number[q]
                              /\ countedOn'[q] = countedOn[q]
                              /\ q \in progressed' <=> q \in progressed
    BY <1>1 DEF IInv, TypeOK
  <2>2. CachedSound' /\ EarnedSound' /\ ProgressSound' /\ SolveSound' /\ NumbersSound'
    BY <1>1, <1>2, <1>5, TablesKeep
  <2>3. QED BY <1>5, <1>7, <1>8, <1>11, <1>12, <1>owed, <2>1, <2>2, Assemble

-----------------------------------------------------------------------------
(* Steps of the surroundings *)

\* A day more leaves every bound by the day true.
LEMMA NextDayKeeps == ASSUME IInv, NextDay PROVE IInv'
<1>1. /\ UNCHANGED <<req, number, history>> /\ today \in Nat /\ today' \in Nat /\ today <= today'
      /\ UNCHANGED <<solve, progress, stats, earned, cached>>
  BY BoundsTyped DEF NextDay, IInv, TypeOK, db
<1>2. Persists
  BY <1>1, OwedStill DEF IInv, TypeOK, Persists, history, At
<1>3. TypeOK'
  BY <1>1, BoundsTyped DEF NextDay, IInv, TypeOK, history
<1>4. QED BY <1>1, <1>2, <1>3, TablesKeep, Unmoved

\* Nothing is bounded too.
LEMMA StatsExpireKeeps == ASSUME IInv, NEW u \in Users, StatsExpire(u) PROVE IInv'
<1>1. /\ UNCHANGED <<req, number, history>> /\ today \in Nat /\ today' \in Nat /\ today <= today'
      /\ UNCHANGED <<solve, progress, stats, earned>> /\ cached' = [cached EXCEPT ![u] = None]
  BY BoundsTyped DEF StatsExpire, IInv, TypeOK, db
<1>2. Persists
  BY <1>1, OwedStill DEF IInv, TypeOK, Persists, history, At
<1>3. CachedSound' /\ cached' \in [Users -> Stats \cup {None}]
  BY <1>1, <1>2, UncachesKeeps DEF Uncaches
<1>4. TypeOK'
  BY <1>1, <1>3 DEF StatsExpire, IInv, TypeOK, history
<1>5. QED BY <1>1, <1>2, <1>3, <1>4, TablesKeep, Unmoved

\* Where nothing happens nothing changes.
LEMMA StutterKeeps == ASSUME IInv, UNCHANGED vars PROVE IInv'
<1>1. /\ UNCHANGED <<req, number, history>> /\ today \in Nat /\ today' \in Nat /\ today <= today'
      /\ UNCHANGED <<solve, progress, stats, earned, cached>> /\ today' = today
  BY BoundsTyped DEF IInv, TypeOK, vars, db, history
<1>2. Persists
  BY <1>1, OwedStill DEF IInv, TypeOK, Persists, history, At
<1>3. TypeOK'
  BY <1>1 DEF IInv, TypeOK, history
<1>4. QED BY <1>1, <1>2, <1>3, TablesKeep, Unmoved

-----------------------------------------------------------------------------
(* The invariant *)

\* At the start there is nothing, and nothing is behind it.
LEMMA InitKeeps == ASSUME Init PROVE IInv
<1>1. TypeOK
  <2>1. Blank \in Request /\ NoProgress \in Progress
    BY DEF Blank, Request, Callers, NoProgress, Progress
  <2>2. today \in 1..LastDay /\ 0 \in 0..LastDay
    BY BoundsTyped DEF Init
  <2>3. QED BY <2>1, <2>2 DEF Init, TypeOK
<1>2. ASSUME NEW r \in Reqs PROVE Begun(req[r]) /\ Accounted(r, req[r]) /\ Bounded(req[r])
  <2>1. req[r] = Blank /\ number[r] = 0 /\ countedOn[r] = 0 /\ r \notin progressed
    BY DEF Init
  <2>2. Begun(Blank) /\ Accounted(r, Blank)
    BY <2>1 DEF Begun, Owes, Accounted, Blank, BeforeCreate, BeforeProgress, BeforeStats
  <2>3. Bounded(Blank)
    BY DEF Bounded, Blank, SoundFor, Sound, DeservedBy
  <2>4. QED BY <2>1, <2>2, <2>3
<1>3. \A u \in Users : SoundFor(u, stats[u]) /\ SoundFor(u, cached[u]) /\ DeservedBy(u, earned[u])
  BY DEF Init, SoundFor, Sound, DeservedBy
<1>4. ASSUME NEW u \in Users, NEW t \in Topics PROVE RowSound(progress[<<u, t>>], u, t)
  <2>1. progress[<<u, t>>] = NoProgress
    BY DEF Init
  <2>2. \A V \in SUBSET {"right", "wrong"} : Progressed(u, t, V) \in SUBSET Reqs
    BY DEF Init, Progressed, WithVerdict
  <2>3. \A V \in SUBSET {"right", "wrong"} : Cardinality(Progressed(u, t, V)) \in Nat
    BY <2>2, Inside DEF Fits
  <2>4. QED BY <2>1, <2>3 DEF RowSound, NoProgress
<1>5. ASSUME NEW p \in Problems PROVE solve[p].solveCount <= Cardinality(AttemptsOn(p))
  <2>1. AttemptsOn(p) \in SUBSET Reqs
    BY DEF AttemptsOn, Attempts
  <2>2. Cardinality(AttemptsOn(p)) \in Nat /\ solve[p].solveCount = 0
    BY <2>1, Inside DEF Fits, Init
  <2>3. QED BY <2>2
<1>6. Attempts = {}
  BY DEF Init, Attempts
<1>7. \A r \in Reqs : ~Owes(req[r])
  BY DEF Init, Blank, Owes
<1>8. QED BY <1>1, <1>2, <1>3, <1>4, <1>5, <1>6, <1>7 DEF IInv

\* Every step of a request keeps the invariant.
LEMMA StepKeeps == ASSUME IInv, NEW r \in Reqs, Step(r) PROVE IInv'
<1>1. CASE CountByUserAndProblem(r) \/ CreateAttempt(r)
  BY <1>1, CountByUserAndProblemKeeps, CreateAttemptKeeps
<1>2. CASE CountTotal(r) \/ CountCorrect(r) \/ UpdateProblemStats(r)
  BY <1>2, CountTotalKeeps, CountCorrectKeeps, UpdateProblemStatsKeeps
<1>3. CASE ReadProgress(r) \/ UpsertProgress(r)
  BY <1>3, ReadProgressKeeps, UpsertProgressKeeps
<1>4. CASE GetStats(r) \/ FindStats(r) \/ UpsertZeroStats(r) \/ FillStats(r)
  BY <1>4, GetStatsKeeps, FindStatsKeeps, UpsertZeroStatsKeeps, FillStatsKeeps
<1>5. CASE UpsertStats(r) \/ DelStats(r)
  BY <1>5, UpsertStatsKeeps, DelStatsKeeps
<1>6. CASE FindEarned(r) \/ Evaluate(r) \/ Grant(r)
  BY <1>6, FindEarnedKeeps, EvaluateKeeps, GrantKeeps
<1>7. CASE RereadStats(r) \/ PayReward(r) \/ DelRewarded(r)
  BY <1>7, RereadStatsKeeps, PayRewardKeeps, DelRewardedKeeps
<1>8. QED BY <1>1, <1>2, <1>3, <1>4, <1>5, <1>6, <1>7 DEF Step

\* Every step keeps the invariant.
LEMMA NextKeeps == ASSUME IInv, [Next]_vars PROVE IInv'
<1>1. ASSUME NEW r \in Reqs, Start(r) PROVE IInv'
  BY <1>1, SubmitKeeps, GetMyStatsKeeps DEF Start
<1>2. ASSUME NEW r \in Reqs, Step(r) \/ Die(r) PROVE IInv'
  BY <1>2, StepKeeps, DieKeeps
<1>3. ASSUME NEW u \in Users, StatsExpire(u) PROVE IInv'
  BY <1>3, StatsExpireKeeps
<1>4. CASE NextDay
  BY <1>4, NextDayKeeps
<1>5. CASE UNCHANGED vars
  BY <1>5, StutterKeeps
<1>6. QED BY <1>1, <1>2, <1>3, <1>4, <1>5 DEF Next, NotFound

\* The bounds hold in every state of the pipeline, for any number of users,
\* problems, achievements and overlapping submissions, with the cache failing
\* and requests dying where those are allowed.
THEOREM Invariance == Spec => []IInv
<1>1. Init => IInv
  BY InitKeeps
<1>2. IInv /\ [Next]_vars => IInv'
  BY NextKeeps
<1>3. QED BY <1>1, <1>2, PTL DEF Spec

\* Every variable has its type in every state.
THEOREM TypeCorrect == Spec => []TypeOK
<1>1. IInv => TypeOK
  BY DEF IInv
<1>2. QED BY <1>1, Invariance, PTL

-----------------------------------------------------------------------------
(* What follows *)

\* The requests behind a progress row have graded attempts.
LEMMA ProgressedAttempted ==
  ASSUME IInv, NEW u \in Users, NEW t \in Topics
  PROVE LET graded == {r \in WithVerdict(AttemptsOf(u), {"right", "wrong"}) : Topic(r) = t}
        IN /\ Fits(Progressed(u, t, {"right", "wrong"}), graded)
           /\ Fits(Progressed(u, t, {"right"}), WithVerdict(graded, {"right"}))
<1> DEFINE graded == {r \in WithVerdict(AttemptsOf(u), {"right", "wrong"}) : Topic(r) = t}
<1>1. \A r \in progressed : r \in Reqs /\ number[r] # 0
  BY DEF IInv, TypeOK, Accounted
<1>2. graded \in SUBSET Reqs /\ WithVerdict(graded, {"right"}) \in SUBSET Reqs
  BY DEF WithVerdict, AttemptsOf, Attempts
<1>3. /\ Progressed(u, t, {"right", "wrong"}) \subseteq graded
      /\ Progressed(u, t, {"right"}) \subseteq WithVerdict(graded, {"right"})
  BY <1>1 DEF Progressed, WithVerdict, AttemptsOf, Attempts
<1>4. QED BY <1>2, <1>3, Inside

\* The requests behind a user's stats have attempts.
LEMMA CountedAttempted ==
  ASSUME IInv, NEW u \in Users PROVE Fits(Counted(u), AttemptsOf(u))
<1>1. AttemptsOf(u) \in SUBSET Reqs
  BY DEF AttemptsOf, Attempts
<1>2. Counted(u) \subseteq AttemptsOf(u)
  BY DEF IInv, Accounted, Counted, AttemptsOf, Attempts
<1>3. QED BY <1>1, <1>2, Inside

\* However submissions overlap, no progress row and no problem's statistics count
\* an attempt that is not in the database.
THEOREM CountsHold == Spec => []CountsNeverOvercount
<1>1. ASSUME IInv PROVE CountsNeverOvercount
  <2>1. ASSUME NEW u \in Users, NEW t \in Topics
        PROVE LET graded == {r \in WithVerdict(AttemptsOf(u), {"right", "wrong"}) : Topic(r) = t}
              IN /\ progress[<<u, t>>].problemsSolved <= Cardinality(graded)
                 /\ progress[<<u, t>>].correctCount <= Cardinality(WithVerdict(graded, {"right"}))
    <3>1. progress[<<u, t>>] \in Progress /\ RowSound(progress[<<u, t>>], u, t)
      BY <1>1 DEF IInv, TypeOK
    <3>2. QED BY <1>1, <3>1, ProgressedAttempted DEF RowSound, Progress, Fits
  <2>2. \A p \in Problems : solve[p].solveCount <= Cardinality(AttemptsOn(p))
    BY <1>1 DEF IInv
  <2>3. QED BY <2>1, <2>2 DEF CountsNeverOvercount
<1>2. IInv => CountsNeverOvercount
  BY <1>1
<1>3. QED BY <1>2, Invariance, PTL

\* No streak outgrows the longest one or the days that have passed.
THEOREM StreaksHold == Spec => []StreaksBounded
<1>1. IInv => StreaksBounded
  BY DEF IInv, SoundFor, Sound, StreaksBounded
<1>2. QED BY <1>1, Invariance, PTL

\* What has been counted and paid was really done and earned.
LEMMA XpEarned ==
  ASSUME IInv, NEW u \in Users PROVE Grew(CountedXp(u), EarnedXp(u))
<1>1. /\ Fits(WithVerdict(Counted(u), {"right"}), WithVerdict(AttemptsOf(u), {"right"}))
      /\ Fits(WithVerdict(Counted(u), {"wrong"}), WithVerdict(AttemptsOf(u), {"wrong"}))
  <2>1. Counted(u) \subseteq AttemptsOf(u) /\ AttemptsOf(u) \subseteq Reqs
    BY DEF IInv, Accounted, Counted, AttemptsOf, Attempts
  <2>2. \A V \in {{"right"}, {"wrong"}} :
          /\ WithVerdict(Counted(u), V) \in SUBSET WithVerdict(AttemptsOf(u), V)
          /\ WithVerdict(AttemptsOf(u), V) \in SUBSET Reqs
    BY <2>1 DEF WithVerdict
  <2>3. QED BY <2>2, Inside
<1>2. Grew(Total(Reward, Paid(u)), Total(Reward, earned[u]))
  <2>1. Paid(u) \in SUBSET earned[u] /\ earned[u] \in SUBSET Achievements
    BY DEF Paid, IInv, TypeOK
  <2>2. /\ IsFiniteSet(earned[u]) /\ Numbers(Reward, earned[u]) /\ Numbers(Reward, Paid(u))
        /\ \A a \in Paid(u) : Reward[a] <= Reward[a]
    BY <2>1, AchievementsFinite, RewardTyped, FS_Subset DEF Numbers
  <2>3. Total(Reward, Paid(u)) <= Total(Reward, earned[u])
    BY <2>1, <2>2, TotalMono
  <2>4. Total(Reward, Paid(u)) \in Nat /\ Total(Reward, earned[u]) \in Nat
    BY <2>1, <2>2, TotalNat
  <2>5. QED BY <2>3, <2>4 DEF Grew
<1>3. QED BY <1>1, <1>2, RewardTotal DEF Fits, Grew, CountedXp, EarnedXp

\* Stored or cached, no copy of a user's stats claims more than the user's
\* attempts and achievements account for.
Overcounted(u, st) == \E f \in Known \ {"currentStreak"} : ~(st[f] <= Real(u)[f])

LEMMA NeverOvercounted ==
  ASSUME IInv, NEW u \in Users, NEW st \in Stats, SoundFor(u, st) PROVE ~Overcounted(u, st)
<1>1. /\ st.totalProblemsSolved <= Cardinality(Counted(u)) /\ st.totalXp <= CountedXp(u)
      /\ st.level = Level(st.totalXp)
      /\ st.totalProblemsSolved \in Nat /\ st.totalXp \in Nat /\ st.level \in Nat
  BY NoneIsNoRow DEF SoundFor, Sound, Stats
<1>2. /\ st.totalProblemsSolved <= Cardinality(AttemptsOf(u)) /\ st.totalXp <= EarnedXp(u)
      /\ EarnedXp(u) \in Nat
  BY <1>1, CountedAttempted, XpEarned DEF Fits, Grew
<1>3. st.level <= Level(EarnedXp(u))
  BY <1>1, <1>2, LevelGrows
<1>4. QED BY <1>2, <1>3 DEF Overcounted, Known, Real

\* Lost updates only ever lose: for any number of overlapping submissions, with
\* stale copies in the cache, requests that die between grant and payment and
\* rewards of any size, no user's attempts, XP or level exceed what the attempts
\* and achievements in the database account for.
THEOREM StatsHold == Spec => []StatsNeverOvercount
<1>1. ASSUME IInv, NEW u \in Users, stats[u] # None PROVE ~Overcounted(u, stats[u])
  <2>1. stats[u] \in Stats /\ SoundFor(u, stats[u])
    BY <1>1 DEF IInv, TypeOK
  <2>2. QED BY <1>1, <2>1, NeverOvercounted
<1>2. IInv => StatsNeverOvercount
  BY <1>1 DEF StatsNeverOvercount, Overcounted
<1>3. QED BY <1>2, Invariance, PTL

\* The same of the copies that GET /stats/me is answered from and achievements are
\* judged by.
CopiesNeverOvercount == \A u \in Users : cached[u] # None => ~Overcounted(u, cached[u])

\* What the cache serves may be old, never too much.
THEOREM CopiesHold == Spec => []CopiesNeverOvercount
<1>1. ASSUME IInv, NEW u \in Users, cached[u] # None PROVE ~Overcounted(u, cached[u])
  <2>1. cached[u] \in Stats /\ SoundFor(u, cached[u])
    BY <1>1 DEF IInv, TypeOK
  <2>2. QED BY <1>1, <2>1, NeverOvercounted
<1>2. IInv => CopiesNeverOvercount
  BY <1>1 DEF CopiesNeverOvercount
<1>3. QED BY <1>2, Invariance, PTL

\* An achievement is granted only for what the user has really done: the attempts,
\* the XP and level they and the rewards add up to, and the days that have passed,
\* however stale the stats that were judged.
THEOREM DeservedHold == Spec => []EarnedDeserved
<1>1. ASSUME IInv, NEW u \in Users, NEW a \in earned[u], NEW f \in DOMAIN Condition[a] \cap Known
      PROVE Condition[a][f] <= Real(u)[f]
  <2>1. a \in Achievements /\ Deserved(a, Cardinality(Counted(u)), CountedXp(u), today)
    BY <1>1 DEF IInv, TypeOK, DeservedBy
  <2>2. today \in Nat
    BY <1>1, BoundsTyped DEF IInv, TypeOK
  <2>3. Deserved(a, Cardinality(AttemptsOf(u)), EarnedXp(u), today)
    BY <1>1, <2>1, <2>2, CountedAttempted, XpEarned, DeservedGrows DEF Fits, Grew
  <2>4. QED BY <1>1, <2>3 DEF Deserved, Real, Known
<1>2. IInv => EarnedDeserved
  BY <1>1 DEF EarnedDeserved
<1>3. QED BY <1>2, Invariance, PTL

\* A request leaves the count for the insert only by counting.
LEMMA OnlyCounts ==
  ASSUME TypeOK, [Next]_vars, NEW r \in Reqs, At(r, "count"), req'[r].pc = "create"
  PROVE CountByUserAndProblem(r)
<1>1. req[r] \in Request /\ req'[r] # req[r]
  BY DEF TypeOK, At
<1>2. ASSUME NEW q \in Reqs, q # r, Start(q) PROVE FALSE
  BY <1>1, <1>2 DEF TypeOK, Start, Submit, GetMyStats
<1>3. ASSUME NEW q \in Reqs, q # r, Step(q) PROVE FALSE
  <2>1. CASE CountByUserAndProblem(q) \/ CreateAttempt(q) \/ CountTotal(q) \/ CountCorrect(q)
    BY <1>1, <1>3, <2>1 DEF TypeOK, CountByUserAndProblem, CreateAttempt, CountTotal, CountCorrect
  <2>2. CASE UpdateProblemStats(q) \/ ReadProgress(q) \/ UpsertProgress(q)
    BY <1>1, <1>3, <2>2 DEF TypeOK, UpdateProblemStats, ReadProgress, UpsertProgress
  <2>3. CASE GetStats(q) \/ FindStats(q) \/ UpsertZeroStats(q) \/ FillStats(q)
    BY <1>1, <1>3, <2>3 DEF TypeOK, GetStats, FindStats, UpsertZeroStats, FillStats
  <2>4. CASE UpsertStats(q) \/ DelStats(q) \/ FindEarned(q) \/ Evaluate(q)
    BY <1>1, <1>3, <2>4 DEF TypeOK, UpsertStats, DelStats, FindEarned, Evaluate
  <2>5. CASE Grant(q) \/ RereadStats(q) \/ PayReward(q) \/ DelRewarded(q)
    BY <1>1, <1>3, <2>5 DEF TypeOK, Grant, RereadStats, PayReward, DelRewarded
  <2>6. QED BY <1>3, <2>1, <2>2, <2>3, <2>4, <2>5 DEF Step
<1>4. ASSUME NEW q \in Reqs, q # r, Die(q) PROVE FALSE
  BY <1>1, <1>4 DEF TypeOK, Die
<1>5. ~Start(r)
  <2>1. ~MayStart(r)
    BY DEF MayStart, Blank, At
  <2>2. QED BY <2>1 DEF Start, Submit, GetMyStats
<1>6. ~Die(r)
  BY DEF TypeOK, Die, Blank
<1>7. Step(r) => CountByUserAndProblem(r)
  BY DEF Step, At, CreateAttempt, CountTotal, CountCorrect, UpdateProblemStats, ReadProgress,
     UpsertProgress, GetStats, FindStats, UpsertZeroStats, FillStats, UpsertStats, DelStats,
     FindEarned, Evaluate, Grant, RereadStats, PayReward, DelRewarded
<1>8. ~NextDay /\ ~UNCHANGED vars /\ \A u \in Users : ~StatsExpire(u)
  BY <1>1 DEF NextDay, vars, StatsExpire
<1>9. QED
  BY <1>2, <1>3, <1>4, <1>5, <1>6, <1>7, <1>8 DEF Next, NotFound

\* A number handed out is at least that of every attempt of the same user at the
\* same problem that is in the database when the count is taken.
NumberedAfter(r) ==
  At(r, "count") /\ req'[r].pc = "create" =>
    \A q \in AttemptsAt(req[r].user, req[r].problem) : number[q] <= req'[r].count

\* Attempts that do not overlap are numbered in their order, even after two that
\* do have been given the same number.
THEOREM NumbersHold == Spec => NumbersFollowOrder
<1>1. ASSUME IInv, [Next]_vars, NEW r \in Reqs PROVE NumberedAfter(r)
  <2>1. SUFFICES ASSUME At(r, "count"), req'[r].pc = "create",
                        NEW q \in AttemptsAt(req[r].user, req[r].problem)
                 PROVE number[q] <= req'[r].count
    BY DEF NumberedAfter
  <2>2. CountByUserAndProblem(r) /\ req[r] \in Request
    BY <1>1, <2>1, OnlyCounts DEF IInv, TypeOK
  <2>3. req'[r].count = Cardinality(AttemptsAt(req[r].user, req[r].problem))
    BY <1>1, <2>2 DEF CountByUserAndProblem, IInv, TypeOK, Request
  <2>4. q \in Attempts /\ req[q].user = req[r].user /\ req[q].problem = req[r].problem
    BY <2>1 DEF AttemptsAt, AttemptsOf
  <2>5. number[q] <= Cardinality(AttemptsAt(req[q].user, req[q].problem))
    BY <1>1, <2>4 DEF IInv
  <2>6. QED BY <2>3, <2>4, <2>5
<1>2. IInv /\ [Next]_vars =>
        [\A r \in Reqs : At(r, "count") /\ req'[r].pc = "create" =>
           \A q \in AttemptsAt(req[r].user, req[r].problem) : number[q] <= req'[r].count]_vars
  BY <1>1 DEF NumberedAfter
<1>3. QED BY <1>2, Invariance, PTL DEF Spec, NumbersFollowOrder

-----------------------------------------------------------------------------
(* Submissions that come one at a time, where nothing fails.  EInv says      *)
(* what is exact at each await of the one request in flight: what it has     *)
(* read is still what is stored (Fresh), what it has written so far is told  *)
(* by where it is (Written), and the tables are exact but for the one it is  *)
(* about to bring up to date.                                                *)

\* One request at a time.
Alone == \A q, r \in Reqs : InFlight(q) /\ InFlight(r) => q = r

\* What request r has written, by where it is: nothing is skipped.
Written(r) ==
  /\ req[r].pc \notin {"failed", "dead"}
  /\ number[r] # 0 /\ req[r].verdict # "ungraded" /\ r \notin progressed => req[r].pc \in BeforeProgress
  /\ number[r] # 0 /\ countedOn[r] = 0 => req[r].pc \in BeforeStats /\ req[r].caller = "submit"
  /\ req[r].pc \in {"delStats", "evaluate", "grant", "rereadStats", "payReward", "delRewarded"}
       \/ req[r].caller = "check" => countedOn[r] # 0

\* What the record x of the request in flight has read is still what is stored.
Fresh(x) ==
  /\ x.pc = "create" => x.count = Cardinality(AttemptsAt(x.user, x.problem))
  /\ x.total # None => x.total = Cardinality(AttemptsOn(x.problem))
  /\ x.correct # None => /\ x.pc = "problemStats"
                         /\ x.correct = Cardinality(WithVerdict(AttemptsOn(x.problem), {"right"}))
  /\ x.pc = "upsertProgress" => x.row = progress[<<x.user, TopicOf[x.problem]>>]
  /\ x.pc = "zeroStats" => stats[x.user] = None
  /\ x.pc \in {"fillStats", "upsertStats", "payReward"} => x.seen = stats[x.user]
  /\ x.had # None => /\ x.pc \in {"getStats", "findStats", "zeroStats", "fillStats", "evaluate"}
                     /\ x.caller = "check" /\ x.had = earned[x.user]
  /\ x.todo \cap earned[x.user] = {}

\* What is stored is exact, but for what the request in flight is about to bring up to date.
NumbersExact ==
  \A u \in Users, p \in Problems :
    {number[r] : r \in AttemptsAt(u, p)} = 1..Cardinality(AttemptsAt(u, p))
SolveExact ==
  \A p \in Problems :
    \/ \E r \in Reqs : At(r, "problemStats") /\ req[r].problem = p
    \/ solve[p] = [solveCount |-> Cardinality(AttemptsOn(p)),
                   correct |-> Cardinality(WithVerdict(AttemptsOn(p), {"right"}))]
ProgressExact ==
  \A u \in Users, t \in Topics :
    progress[<<u, t>>] = [problemsSolved |-> Cardinality(Progressed(u, t, {"right", "wrong"})),
                          correctCount |-> Cardinality(Progressed(u, t, {"right"}))]
StatsExact ==
  \A u \in Users :
    IF stats[u] = None THEN Counted(u) = {} /\ earned[u] = {}
    ELSE /\ stats[u].totalProblemsSolved = Cardinality(Counted(u))
         /\ stats[u].totalXp = CountedXp(u)
CachedExact ==
  \A u \in Users :
    \/ \E r \in Reqs : req[r].pc \in {"delStats", "delRewarded"} /\ req[r].user = u
    \/ cached[u] \in {None, stats[u]}

EInv ==
  /\ Alone
  /\ \A r \in Reqs : Written(r) /\ (InFlight(r) => Fresh(req[r]))
  /\ NumbersExact /\ SolveExact /\ ProgressExact /\ StatsExact /\ CachedExact

\* Nothing fails and nothing overlaps.
Calm == MaxInFlight = 1 /\ CacheMayFail = FALSE /\ RequestsMayDie = FALSE

\* A request starts when none is in flight.
LEMMA NoneElse ==
  ASSUME Calm, NEW r \in Reqs, MayStart(r) PROVE \A q \in Reqs : ~InFlight(q)
<1> DEFINE S == {q \in Reqs : InFlight(q)}
<1>1. IsFiniteSet(S)
  BY ReqsFinite, FS_Subset
<1>2. Cardinality(S) < 1
  BY DEF MayStart, Calm
<1>3. Cardinality(S) \in Nat
  BY <1>1, FS_CardinalityType
<1>4. Cardinality(S) = 0
  BY <1>2, <1>3
<1>5. S = {}
  BY <1>1, <1>4, FS_EmptySet
<1>6. QED
  BY <1>5

\* The record of r is replaced by x; whoever has an attempt stays who it was.
Replaced(r, x) ==
  /\ x \in Request /\ req' = [req EXCEPT ![r] = x]
  /\ number[r] # 0 => /\ x.user = req[r].user /\ x.problem = req[r].problem
                      /\ x.verdict = req[r].verdict

LEMMA ReplacedAt ==
  ASSUME IInv, NEW r \in Reqs, NEW x, Replaced(r, x)
  PROVE  /\ req'[r] = x /\ \A q \in Reqs \ {r} : req'[q] = req[q]
         /\ \A q \in Reqs : number[q] # 0 => /\ req'[q].user = req[q].user
                                             /\ req'[q].problem = req[q].problem
                                             /\ req'[q].verdict = req[q].verdict
         /\ \A q \in Reqs : countedOn[q] # 0 => number[q] # 0
         /\ \A q \in progressed : q \in Reqs /\ number[q] # 0
BY DEF IInv, TypeOK, Replaced, Accounted

\* The sets behind the figures change only with the histories they are made of.
LEMMA SameSets ==
  ASSUME IInv, NEW r \in Reqs, NEW x, Replaced(r, x)
  PROVE  /\ UNCHANGED number =>
              /\ \A u, p : AttemptsAt(u, p)' = AttemptsAt(u, p)
              /\ \A p : AttemptsOn(p)' = AttemptsOn(p)
              /\ \A p, V : WithVerdict(AttemptsOn(p), V)' = WithVerdict(AttemptsOn(p), V)
         /\ UNCHANGED progressed => \A u, t, V : Progressed(u, t, V)' = Progressed(u, t, V)
         /\ UNCHANGED countedOn =>
              /\ \A u : Counted(u)' = Counted(u)
              /\ \A u, V : WithVerdict(Counted(u), V)' = WithVerdict(Counted(u), V)
<1>1. /\ \A q \in Reqs : number[q] # 0 => /\ req'[q].user = req[q].user
                                           /\ req'[q].problem = req[q].problem
                                           /\ req'[q].verdict = req[q].verdict
      /\ \A q \in Reqs : countedOn[q] # 0 => number[q] # 0
      /\ \A q \in progressed : q \in Reqs /\ number[q] # 0
  BY ReplacedAt
<1>2. ASSUME UNCHANGED number
      PROVE  /\ \A u, p : AttemptsAt(u, p)' = AttemptsAt(u, p)
             /\ \A p : AttemptsOn(p)' = AttemptsOn(p)
             /\ \A p, V : WithVerdict(AttemptsOn(p), V)' = WithVerdict(AttemptsOn(p), V)
  <2>1. ASSUME NEW u, NEW p PROVE AttemptsAt(u, p)' = AttemptsAt(u, p)
    BY <1>1, <1>2 DEF AttemptsAt, AttemptsOf, Attempts
  <2>2. ASSUME NEW p PROVE AttemptsOn(p)' = AttemptsOn(p)
    BY <1>1, <1>2 DEF AttemptsOn, Attempts
  <2>3. ASSUME NEW p, NEW V PROVE WithVerdict(AttemptsOn(p), V)' = WithVerdict(AttemptsOn(p), V)
    BY <1>1, <1>2 DEF WithVerdict, AttemptsOn, Attempts
  <2>4. QED
    BY <2>1, <2>2, <2>3
<1>3. ASSUME UNCHANGED progressed, NEW u, NEW t, NEW V PROVE Progressed(u, t, V)' = Progressed(u, t, V)
  BY <1>1, <1>3 DEF Progressed, WithVerdict, Topic
<1>4. ASSUME UNCHANGED countedOn
      PROVE  /\ \A u : Counted(u)' = Counted(u)
             /\ \A u, V : WithVerdict(Counted(u), V)' = WithVerdict(Counted(u), V)
  <2>1. ASSUME NEW u PROVE Counted(u)' = Counted(u)
    BY <1>1, <1>4 DEF Counted
  <2>2. ASSUME NEW u, NEW V PROVE WithVerdict(Counted(u), V)' = WithVerdict(Counted(u), V)
    BY <1>1, <1>4 DEF WithVerdict, Counted
  <2>3. QED
    BY <2>1, <2>2
<1>5. QED
  BY <1>2, <1>3, <1>4

\* What is owed and granted alike is paid alike.
LEMMA SamePaid ==
  ASSUME IInv, NEW r \in Reqs, NEW x, Replaced(r, x), UNCHANGED earned,
         Owes(x) <=> Owes(req[r]), Owes(x) => x.granted = req[r].granted /\ x.user = req[r].user
  PROVE  \A u \in Users : Paid(u)' = Paid(u)
<1>1. req'[r] = x /\ \A q \in Reqs \ {r} : req'[q] = req[q]
  BY ReplacedAt
<1>2. \A q \in Reqs : /\ Owes(req'[q]) <=> Owes(req[q])
                      /\ Owes(req[q]) => req'[q].granted = req[q].granted /\ req'[q].user = req[q].user
  BY <1>1
<1>3. ASSUME NEW u \in Users PROVE Paid(u)' = Paid(u)
  <2>1. {q \in Reqs : Owes(req'[q]) /\ req'[q].user = u} = {q \in Reqs : Owes(req[q]) /\ req[q].user = u}
    BY <1>2
  <2>2. {req'[q].granted : q \in {q \in Reqs : Owes(req'[q]) /\ req'[q].user = u}}
          = {req[q].granted : q \in {q \in Reqs : Owes(req[q]) /\ req[q].user = u}}
    BY <1>2, <2>1
  <2>3. QED
    BY <2>2 DEF Paid, Owes
<1>4. QED
  BY <1>3

\* Then the XP behind a user's stats is the same.
LEMMA SameXp ==
  ASSUME IInv, NEW r \in Reqs, NEW x, Replaced(r, x), UNCHANGED <<earned, countedOn>>,
         Owes(x) <=> Owes(req[r]), Owes(x) => x.granted = req[r].granted /\ x.user = req[r].user
  PROVE  \A u \in Users : CountedXp(u)' = CountedXp(u)
<1>1. ASSUME NEW u \in Users PROVE CountedXp(u)' = CountedXp(u)
  <2>1. /\ WithVerdict(Counted(u), {"right"})' = WithVerdict(Counted(u), {"right"})
        /\ WithVerdict(Counted(u), {"wrong"})' = WithVerdict(Counted(u), {"wrong"})
    BY SameSets
  <2>2. XpOf(Paid(u))' = XpOf(Paid(u))
    <3>1. Paid(u)' = Paid(u)
      BY SamePaid
    <3>2. QED
      BY <3>1, RewardTotal
  <2>3. QED
    BY <2>1, <2>2 DEF CountedXp
<1>2. QED
  BY <1>1

\* Request r gives up no exception it stood for.
Holds(r, x) ==
  /\ At(r, "problemStats") => x.pc = "problemStats" /\ x.problem = req[r].problem
  /\ req[r].pc \in {"delStats", "delRewarded"} =>
       x.pc \in {"delStats", "delRewarded"} /\ x.user = req[r].user
OwesSame(r, x) ==
  /\ Owes(x) <=> Owes(req[r])
  /\ Owes(x) => x.granted = req[r].granted /\ x.user = req[r].user

\* A part that is not written stays exact.
LEMMA ExactKeep ==
  ASSUME IInv, EInv, NEW r \in Reqs, NEW x, Replaced(r, x)
  PROVE  /\ UNCHANGED number => NumbersExact'
         /\ UNCHANGED <<number, solve>> /\ (Holds(r, x) \/ ~At(r, "problemStats")) => SolveExact'
         /\ UNCHANGED <<progress, progressed>> => ProgressExact'
         /\ UNCHANGED <<stats, earned, countedOn>> /\ OwesSame(r, x) => StatsExact'
         /\ UNCHANGED <<stats, cached>> /\ Holds(r, x) => CachedExact'
<1>0. req'[r] = x /\ \A q \in Reqs \ {r} : req'[q] = req[q]
  BY ReplacedAt
<1>1. ASSUME UNCHANGED number PROVE NumbersExact'
  <2>1. ASSUME NEW u \in Users, NEW p \in Problems
        PROVE  {number'[q] : q \in AttemptsAt(u, p)'} = 1..Cardinality(AttemptsAt(u, p)')
    <3>1. AttemptsAt(u, p)' = AttemptsAt(u, p)
      BY <1>1, SameSets
    <3>2. {number[q] : q \in AttemptsAt(u, p)} = 1..Cardinality(AttemptsAt(u, p))
      BY DEF EInv, NumbersExact
    <3>3. QED
      BY <1>1, <3>1, <3>2
  <2>2. QED
    BY <2>1 DEF NumbersExact
<1>2. ASSUME UNCHANGED <<number, solve>>, Holds(r, x) \/ ~At(r, "problemStats") PROVE SolveExact'
  <2>1. ASSUME NEW p \in Problems, \A q \in Reqs : ~(req'[q].pc = "problemStats" /\ req'[q].problem = p)
        PROVE  solve'[p] = [solveCount |-> Cardinality(AttemptsOn(p)'),
                            correct |-> Cardinality(WithVerdict(AttemptsOn(p), {"right"})')]
    <3>1. \A q \in Reqs : ~(At(q, "problemStats") /\ req[q].problem = p)
      BY <1>0, <1>2, <2>1 DEF Holds, At
    <3>2. /\ AttemptsOn(p)' = AttemptsOn(p)
          /\ WithVerdict(AttemptsOn(p), {"right"})' = WithVerdict(AttemptsOn(p), {"right"})
      BY <1>2, SameSets
    <3>3. solve[p] = [solveCount |-> Cardinality(AttemptsOn(p)),
                      correct |-> Cardinality(WithVerdict(AttemptsOn(p), {"right"}))]
      BY <3>1 DEF EInv, SolveExact
    <3>4. QED
      BY <1>2, <3>2, <3>3
  <2>2. QED
    BY <2>1 DEF SolveExact, At
<1>3. ASSUME UNCHANGED <<progress, progressed>> PROVE ProgressExact'
  <2>1. ASSUME NEW u \in Users, NEW t \in Topics
        PROVE  progress'[<<u, t>>] =
                 [problemsSolved |-> Cardinality(Progressed(u, t, {"right", "wrong"})'),
                  correctCount |-> Cardinality(Progressed(u, t, {"right"})')]
    <3>1. /\ Progressed(u, t, {"right", "wrong"})' = Progressed(u, t, {"right", "wrong"})
          /\ Progressed(u, t, {"right"})' = Progressed(u, t, {"right"})
      BY <1>3, SameSets
    <3>2. QED
      BY <1>3, <3>1 DEF EInv, ProgressExact
  <2>2. QED
    BY <2>1 DEF ProgressExact
<1>4. ASSUME UNCHANGED <<stats, earned, countedOn>>, OwesSame(r, x) PROVE StatsExact'
  <2>1. ASSUME NEW u \in Users
        PROVE  IF stats'[u] = None THEN Counted(u)' = {} /\ earned'[u] = {}
               ELSE /\ stats'[u].totalProblemsSolved = Cardinality(Counted(u)')
                    /\ stats'[u].totalXp = CountedXp(u)'
    <3>1. Counted(u)' = Counted(u)
      BY <1>4, SameSets
    <3>2. CountedXp(u)' = CountedXp(u)
      BY <1>4, SameXp DEF OwesSame
    <3>3. QED
      BY <1>4, <3>1, <3>2 DEF EInv, StatsExact
  <2>2. QED
    BY <2>1 DEF StatsExact
<1>5. ASSUME UNCHANGED <<stats, cached>>, Holds(r, x) PROVE CachedExact'
  BY <1>0, <1>5 DEF EInv, CachedExact, Holds
<1>6. QED
  BY <1>1, <1>2, <1>3, <1>4, <1>5

\* A step of request r, given what it makes of its record and of the tables.
LEMMA ExactAssemble ==
  ASSUME IInv, EInv, NEW r \in Reqs, NEW x, Replaced(r, x),
         InFlight(r) \/ \A q \in Reqs : ~InFlight(q),
         \A q \in Reqs \ {r} : /\ number'[q] = number[q] /\ countedOn'[q] = countedOn[q]
                               /\ q \in progressed' <=> q \in progressed,
         Written(r)', x.pc \in Awaits => Fresh(x)',
         NumbersExact', SolveExact', ProgressExact', StatsExact', CachedExact'
  PROVE  EInv'
<1>1. req'[r] = x /\ \A q \in Reqs \ {r} : req'[q] = req[q]
  BY ReplacedAt
<1>2. \A q \in Reqs \ {r} : ~InFlight(q)
  BY DEF EInv, Alone
<1>3. Alone'
  BY <1>1, <1>2 DEF Alone, InFlight
<1>4. ASSUME NEW q \in Reqs PROVE Written(q)' /\ (InFlight(q)' => Fresh(req[q])')
  <2>1. CASE q = r
    BY <1>1, <2>1 DEF InFlight
  <2>2. CASE q # r
    <3>1. ~InFlight(q)'
      BY <1>1, <1>2, <2>2 DEF InFlight
    <3>2. Written(q)'
      BY <1>1, <2>2 DEF EInv, Written
    <3>3. QED
      BY <3>1, <3>2
  <2>3. QED
    BY <2>1, <2>2
<1>5. QED
  BY <1>3, <1>4 DEF EInv

\* A step that only replaces the record of r, and neither owes nor settles anything.
LEMMA ExactQuiet ==
  ASSUME IInv, EInv, NEW r \in Reqs, NEW x, Replaced(r, x),
         InFlight(r) \/ \A q \in Reqs : ~InFlight(q),
         UNCHANGED <<db, cached, history>>, Holds(r, x), OwesSame(r, x),
         Written(r)', x.pc \in Awaits => Fresh(x)
  PROVE  EInv'
<1>1. UNCHANGED <<number, solve, progress, stats, earned, cached, progressed, countedOn>>
  BY DEF db, history
<1>2. NumbersExact' /\ SolveExact' /\ ProgressExact' /\ StatsExact' /\ CachedExact'
  BY <1>1, ExactKeep
<1>3. x.pc \in Awaits => Fresh(x)'
  <2>1. SUFFICES ASSUME x.pc \in Awaits PROVE Fresh(x)'
    OBVIOUS
  <2>2. /\ AttemptsAt(x.user, x.problem)' = AttemptsAt(x.user, x.problem)
        /\ AttemptsOn(x.problem)' = AttemptsOn(x.problem)
        /\ WithVerdict(AttemptsOn(x.problem), {"right"})' = WithVerdict(AttemptsOn(x.problem), {"right"})
    BY <1>1, SameSets
  <2>3. QED
    BY <1>1, <2>1, <2>2 DEF Fresh
<1>4. QED
  BY <1>1, <1>2, <1>3, ExactAssemble

\* What is known of the request in flight.
LEMMA Flying ==
  ASSUME IInv, EInv, NEW r \in Reqs, InFlight(r)
  PROVE  /\ req[r] \in Request /\ req[r].user \in Users /\ Begun(req[r]) /\ Accounted(r, req[r])
         /\ Written(r) /\ Fresh(req[r])
         /\ \A q \in Reqs \ {r} : ~InFlight(q)
BY DEF IInv, TypeOK, EInv, Alone, InFlight, Awaits, Begun

\* The attempts are counted while nothing is added.
LEMMA CountExact == ASSUME IInv, IInv', EInv, NEW r \in Reqs, CountByUserAndProblem(r) PROVE EInv'
<1> PICK x : x = [req[r] EXCEPT !.pc = "create",
                    !.count = Cardinality(AttemptsAt(req[r].user, req[r].problem))]
  OBVIOUS
<1>1. /\ InFlight(r) /\ req[r].pc = "count" /\ req' = [req EXCEPT ![r] = x]
      /\ UNCHANGED <<db, cached, history>>
  BY DEF CountByUserAndProblem, InFlight, At, Awaits
<1>2. req[r] \in Request /\ Begun(req[r]) /\ Accounted(r, req[r]) /\ Written(r) /\ Fresh(req[r])
  BY <1>1, Flying
<1>3. /\ x.pc = "create" /\ x.count = Cardinality(AttemptsAt(req[r].user, req[r].problem))
      /\ x.user = req[r].user /\ x.problem = req[r].problem /\ x.verdict = req[r].verdict
      /\ x.total = req[r].total /\ x.correct = req[r].correct /\ x.had = req[r].had
      /\ x.todo = req[r].todo /\ x.caller = req[r].caller /\ x.granted = req[r].granted
  BY <1>2 DEF Request
<1>4. Replaced(r, x) /\ req'[r] = x
  BY <1>1, <1>3 DEF Replaced, IInv, TypeOK
<1>5. Holds(r, x) /\ OwesSame(r, x)
  BY <1>1, <1>3 DEF Holds, OwesSame, Owes, At
<1>6. Written(r)'
  BY <1>1, <1>2, <1>3, <1>4 DEF Written, Accounted, BeforeCreate, db, history
<1>7. Fresh(x)
  BY <1>1, <1>2, <1>3 DEF Fresh
<1>8. QED
  BY <1>1, <1>4, <1>5, <1>6, <1>7, ExactQuiet

\* A total is taken while nothing is added.
LEMMA TotalExact == ASSUME IInv, IInv', EInv, NEW r \in Reqs, CountTotal(r) PROVE EInv'
<1> PICK x : x = [req[r] EXCEPT !.total = Cardinality(AttemptsOn(req[r].problem))]
  OBVIOUS
<1>1. /\ InFlight(r) /\ req[r].pc = "problemStats" /\ req' = [req EXCEPT ![r] = x]
      /\ UNCHANGED <<db, cached, history>>
  BY DEF CountTotal, InFlight, At, Awaits, IInv, TypeOK, Request
<1>2. req[r] \in Request /\ Begun(req[r]) /\ Accounted(r, req[r]) /\ Written(r) /\ Fresh(req[r])
  BY <1>1, Flying
<1>3. /\ x.pc = req[r].pc /\ x.total = Cardinality(AttemptsOn(req[r].problem))
      /\ x.user = req[r].user /\ x.problem = req[r].problem /\ x.verdict = req[r].verdict
      /\ x.correct = req[r].correct /\ x.had = req[r].had
      /\ x.todo = req[r].todo /\ x.caller = req[r].caller /\ x.granted = req[r].granted
  BY <1>2 DEF Request
<1>4. Replaced(r, x) /\ req'[r] = x
  BY <1>1, <1>3 DEF Replaced, IInv, TypeOK
<1>5. Holds(r, x) /\ OwesSame(r, x)
  BY <1>1, <1>3 DEF Holds, OwesSame, Owes, At
<1>6. Written(r)'
  BY <1>1, <1>2, <1>3, <1>4 DEF Written, Accounted, BeforeCreate, db, history
<1>7. Fresh(x)
  BY <1>1, <1>2, <1>3 DEF Fresh
<1>8. QED
  BY <1>1, <1>4, <1>5, <1>6, <1>7, ExactQuiet

\* So is the count of right answers.
LEMMA CorrectExact == ASSUME IInv, IInv', EInv, NEW r \in Reqs, CountCorrect(r) PROVE EInv'
<1> PICK x : x = [req[r] EXCEPT !.correct =
                    Cardinality(WithVerdict(AttemptsOn(req[r].problem), {"right"}))]
  OBVIOUS
<1>1. /\ InFlight(r) /\ req[r].pc = "problemStats" /\ req' = [req EXCEPT ![r] = x]
      /\ UNCHANGED <<db, cached, history>>
  BY DEF CountCorrect, InFlight, At, Awaits, IInv, TypeOK, Request
<1>2. req[r] \in Request /\ Begun(req[r]) /\ Accounted(r, req[r]) /\ Written(r) /\ Fresh(req[r])
  BY <1>1, Flying
<1>3. /\ x.pc = req[r].pc
      /\ x.correct = Cardinality(WithVerdict(AttemptsOn(req[r].problem), {"right"}))
      /\ x.user = req[r].user /\ x.problem = req[r].problem /\ x.verdict = req[r].verdict
      /\ x.total = req[r].total /\ x.had = req[r].had
      /\ x.todo = req[r].todo /\ x.caller = req[r].caller /\ x.granted = req[r].granted
  BY <1>2 DEF Request
<1>4. Replaced(r, x) /\ req'[r] = x
  BY <1>1, <1>3 DEF Replaced, IInv, TypeOK
<1>5. Holds(r, x) /\ OwesSame(r, x)
  BY <1>1, <1>3 DEF Holds, OwesSame, Owes, At
<1>6. Written(r)'
  BY <1>1, <1>2, <1>3, <1>4 DEF Written, Accounted, BeforeCreate, db, history
<1>7. Fresh(x)
  BY <1>1, <1>2, <1>3 DEF Fresh
<1>8. QED
  BY <1>1, <1>4, <1>5, <1>6, <1>7, ExactQuiet

\* The progress row is read to be written next.
LEMMA ProgressReadExact == ASSUME IInv, IInv', EInv, NEW r \in Reqs, ReadProgress(r) PROVE EInv'
<1> PICK x : x = [req[r] EXCEPT !.pc = "upsertProgress",
                    !.row = progress[<<req[r].user, Topic(r)>>]]
  OBVIOUS
<1>1. /\ InFlight(r) /\ req[r].pc = "readProgress" /\ req' = [req EXCEPT ![r] = x]
      /\ UNCHANGED <<db, cached, history>>
  BY DEF ReadProgress, InFlight, At, Awaits
<1>2. req[r] \in Request /\ Begun(req[r]) /\ Accounted(r, req[r]) /\ Written(r) /\ Fresh(req[r])
  BY <1>1, Flying
<1>3. /\ x.pc = "upsertProgress" /\ x.row = progress[<<req[r].user, TopicOf[req[r].problem]>>]
      /\ x.user = req[r].user /\ x.problem = req[r].problem /\ x.verdict = req[r].verdict
      /\ x.total = req[r].total /\ x.correct = req[r].correct /\ x.had = req[r].had
      /\ x.todo = req[r].todo /\ x.caller = req[r].caller /\ x.granted = req[r].granted
  BY <1>2 DEF Request, Topic
<1>4. Replaced(r, x) /\ req'[r] = x
  BY <1>1, <1>3 DEF Replaced, IInv, TypeOK
<1>5. Holds(r, x) /\ OwesSame(r, x)
  BY <1>1, <1>3 DEF Holds, OwesSame, Owes, At
<1>6. Written(r)'
  BY <1>1, <1>2, <1>3, <1>4 DEF Written, Accounted, BeforeProgress, BeforeStats, db, history
<1>7. Fresh(x)
  BY <1>1, <1>2, <1>3 DEF Fresh
<1>8. QED
  BY <1>1, <1>4, <1>5, <1>6, <1>7, ExactQuiet

\* The stats row is read as it is; where there is none it has to be made.
LEMMA FoundExact == ASSUME IInv, IInv', EInv, NEW r \in Reqs, FindStats(r) PROVE EInv'
<1> PICK x : x = [req[r] EXCEPT !.seen = stats[req[r].user],
             !.pc = IF stats[req[r].user] = None THEN "zeroStats" ELSE "fillStats"]
  OBVIOUS
<1>1. /\ InFlight(r) /\ req[r].pc = "findStats" /\ req' = [req EXCEPT ![r] = x]
      /\ UNCHANGED <<db, cached, history>>
  BY DEF FindStats, InFlight, At, Awaits
<1>2. req[r] \in Request /\ Begun(req[r]) /\ Accounted(r, req[r]) /\ Written(r) /\ Fresh(req[r])
  BY <1>1, Flying
<1>3. /\ x.pc = (IF stats[req[r].user] = None THEN "zeroStats" ELSE "fillStats")
      /\ x.seen = stats[req[r].user]
      /\ x.user = req[r].user /\ x.problem = req[r].problem /\ x.verdict = req[r].verdict
      /\ x.total = req[r].total /\ x.correct = req[r].correct /\ x.had = req[r].had
      /\ x.todo = req[r].todo /\ x.caller = req[r].caller /\ x.granted = req[r].granted
  BY <1>2 DEF Request
<1>4. Replaced(r, x) /\ req'[r] = x
  BY <1>1, <1>3 DEF Replaced, IInv, TypeOK
<1>5. Holds(r, x) /\ OwesSame(r, x)
  BY <1>1, <1>3 DEF Holds, OwesSame, Owes, At
<1>6. Written(r)'
  BY <1>1, <1>2, <1>3, <1>4 DEF Written, Accounted, BeforeProgress, BeforeStats, db, history
<1>7. Fresh(x)
  BY <1>1, <1>2, <1>3 DEF Fresh
<1>8. QED
  BY <1>1, <1>4, <1>5, <1>6, <1>7, ExactQuiet

\* The achievements read are those the user has.
LEMMA EarnedExact == ASSUME IInv, IInv', EInv, NEW r \in Reqs, FindEarned(r) PROVE EInv'
<1> PICK x : x = [req[r] EXCEPT !.had = earned[req[r].user]]
  OBVIOUS
<1>1. /\ InFlight(r) /\ req[r].pc \in {"getStats", "findStats", "zeroStats", "fillStats", "evaluate"}
      /\ req[r].caller = "check" /\ req' = [req EXCEPT ![r] = x] /\ UNCHANGED <<db, cached, history>>
  BY DEF FindEarned, IInv, TypeOK, Request
<1>2. req[r] \in Request /\ Begun(req[r]) /\ Accounted(r, req[r]) /\ Written(r) /\ Fresh(req[r])
  BY <1>1, Flying
<1>3. /\ x.pc = req[r].pc /\ x.had = earned[req[r].user] /\ x.seen = req[r].seen
      /\ x.user = req[r].user /\ x.problem = req[r].problem /\ x.verdict = req[r].verdict
      /\ x.total = req[r].total /\ x.correct = req[r].correct
      /\ x.todo = req[r].todo /\ x.caller = req[r].caller /\ x.granted = req[r].granted
  BY <1>2 DEF Request
<1>4. Replaced(r, x) /\ req'[r] = x
  BY <1>1, <1>3 DEF Replaced, IInv, TypeOK
<1>5. Holds(r, x) /\ OwesSame(r, x)
  BY <1>1, <1>3 DEF Holds, OwesSame, Owes, At
<1>6. Written(r)'
  BY <1>1, <1>2, <1>3, <1>4 DEF Written, db, history
<1>7. Fresh(x)
  BY <1>1, <1>2, <1>3 DEF Fresh
<1>8. QED
  BY <1>1, <1>4, <1>5, <1>6, <1>7, ExactQuiet

\* None of the achievements to grant has been granted.
LEMMA EvaluateExact == ASSUME IInv, IInv', EInv, NEW r \in Reqs, Evaluate(r) PROVE EInv'
<1> PICK met : met = {a \in Achievements \ req[r].had : Met(a, req[r].seen)}
  OBVIOUS
<1> PICK x : x = [req[r] EXCEPT !.todo = met, !.seen = None, !.had = None,
                    !.pc = IF met = {} THEN "done" ELSE "grant"]
  OBVIOUS
<1>1. /\ InFlight(r) /\ req[r].pc = "evaluate" /\ req[r].had # None
      /\ req' = [req EXCEPT ![r] = x] /\ UNCHANGED <<db, cached, history>>
  BY DEF Evaluate, InFlight, At, Awaits
<1>2. req[r] \in Request /\ Begun(req[r]) /\ Accounted(r, req[r]) /\ Written(r) /\ Fresh(req[r])
  BY <1>1, Flying
<1>3. /\ x.pc = (IF met = {} THEN "done" ELSE "grant") /\ x.todo = met /\ x.had = None
      /\ x.user = req[r].user /\ x.problem = req[r].problem /\ x.verdict = req[r].verdict
      /\ x.total = req[r].total /\ x.correct = req[r].correct
      /\ x.caller = req[r].caller /\ x.granted = req[r].granted
  BY <1>2 DEF Request
<1>4. Replaced(r, x) /\ req'[r] = x
  BY <1>1, <1>3 DEF Replaced, IInv, TypeOK
<1>5. Holds(r, x) /\ OwesSame(r, x)
  BY <1>1, <1>3 DEF Holds, OwesSame, Owes, At
<1>6. Written(r)'
  BY <1>1, <1>2, <1>3, <1>4 DEF Written, Accounted, BeforeProgress, BeforeStats, db, history
<1>7. Fresh(x)
  <2>1. met \cap earned[req[r].user] = {}
    BY <1>1, <1>2 DEF Fresh
  <2>2. QED
    BY <1>1, <1>2, <1>3, <2>1 DEF Fresh
<1>8. QED
  BY <1>1, <1>4, <1>5, <1>6, <1>7, ExactQuiet

\* A user to be rewarded has a row.
LEMMA RereadExact == ASSUME IInv, IInv', EInv, NEW r \in Reqs, RereadStats(r) PROVE EInv'
<1> PICK x : x = [req[r] EXCEPT !.seen = stats[req[r].user],
             !.pc = IF stats[req[r].user] = None THEN "delRewarded" ELSE "payReward"]
  OBVIOUS
<1>1. /\ InFlight(r) /\ req[r].pc = "rereadStats" /\ req' = [req EXCEPT ![r] = x]
      /\ UNCHANGED <<db, cached, history>>
  BY DEF RereadStats, InFlight, At, Awaits
<1>2. /\ req[r] \in Request /\ Begun(req[r]) /\ Accounted(r, req[r]) /\ Written(r) /\ Fresh(req[r])
      /\ req[r].user \in Users
  BY <1>1, Flying
<1>3. stats[req[r].user] # None
  <2>1. r \in Counted(req[r].user)
    BY <1>1, <1>2 DEF Written, Counted
  <2>2. QED
    BY <1>2, <2>1 DEF EInv, StatsExact
<1>4. /\ x.pc = "payReward" /\ x.seen = stats[req[r].user]
      /\ x.user = req[r].user /\ x.problem = req[r].problem /\ x.verdict = req[r].verdict
      /\ x.total = req[r].total /\ x.correct = req[r].correct /\ x.had = req[r].had
      /\ x.todo = req[r].todo /\ x.caller = req[r].caller /\ x.granted = req[r].granted
  BY <1>2, <1>3 DEF Request
<1>5. Replaced(r, x) /\ req'[r] = x
  BY <1>1, <1>4 DEF Replaced, IInv, TypeOK
<1>6. Holds(r, x) /\ OwesSame(r, x)
  BY <1>1, <1>4 DEF Holds, OwesSame, Owes, At
<1>7. Written(r)'
  BY <1>1, <1>2, <1>4, <1>5 DEF Written, Accounted, BeforeProgress, BeforeStats, db, history
<1>8. Fresh(x)
  BY <1>1, <1>2, <1>4 DEF Fresh
<1>9. QED
  BY <1>1, <1>5, <1>6, <1>7, <1>8, ExactQuiet

\* What findStatsByUserId makes of the request that called it.
LEMMA ReturnedIs ==
  ASSUME NEW q \in Request, NEW st \in Stats, NEW x, x = Returned(q, st)
  PROVE  /\ \/ q.caller = "submit" /\ x.pc = "upsertStats" /\ x.seen = st
            \/ q.caller = "check" /\ x.pc = "evaluate" /\ x.seen = st
            \/ q.caller = "controller" /\ x.pc = "done"
         /\ x.user = q.user /\ x.problem = q.problem /\ x.verdict = q.verdict
         /\ x.total = q.total /\ x.correct = q.correct /\ x.had = q.had
         /\ x.todo = q.todo /\ x.caller = q.caller /\ x.granted = q.granted
<1>1. q.caller \in {"submit", "check", "controller"}
  BY DEF Request, Callers
<1>2. \/ q.caller = "submit" /\ x.pc = "upsertStats" /\ x.seen = st
      \/ q.caller = "check" /\ x.pc = "evaluate" /\ x.seen = st
      \/ q.caller = "controller" /\ x.pc = "done"
  BY <1>1 DEF Returned, Request
<1>3. /\ x.user = q.user /\ x.problem = q.problem /\ x.verdict = q.verdict
      /\ x.total = q.total /\ x.correct = q.correct /\ x.had = q.had
      /\ x.todo = q.todo /\ x.caller = q.caller /\ x.granted = q.granted
  BY DEF Returned, Request
<1>4. QED
  BY <1>2, <1>3

\* A request it returns to has written what it had to, and sees the row.
LEMMA ReturnedExact ==
  ASSUME IInv, EInv, NEW r \in Reqs, req[r].pc \in {"getStats", "fillStats"},
         NEW st \in Stats, stats[req[r].user] = st, NEW x, x = Returned(req[r], st),
         req' = [req EXCEPT ![r] = x], UNCHANGED history, UNCHANGED db, x \in Request
  PROVE  Replaced(r, x) /\ Holds(r, x) /\ OwesSame(r, x) /\ Written(r)' /\ (x.pc \in Awaits => Fresh(x))
<1>1. InFlight(r)
  BY DEF InFlight, Awaits
<1>2. req[r] \in Request /\ Begun(req[r]) /\ Accounted(r, req[r]) /\ Written(r) /\ Fresh(req[r])
  BY <1>1, Flying
<1>3. /\ \/ req[r].caller = "submit" /\ x.pc = "upsertStats" /\ x.seen = st
         \/ req[r].caller = "check" /\ x.pc = "evaluate" /\ x.seen = st
         \/ req[r].caller = "controller" /\ x.pc = "done"
      /\ x.user = req[r].user /\ x.problem = req[r].problem /\ x.verdict = req[r].verdict
      /\ x.total = req[r].total /\ x.correct = req[r].correct /\ x.had = req[r].had
      /\ x.todo = req[r].todo /\ x.caller = req[r].caller /\ x.granted = req[r].granted
  BY <1>2, ReturnedIs
<1>4. Replaced(r, x) /\ req'[r] = x
  BY <1>3 DEF Replaced, IInv, TypeOK
<1>5. Holds(r, x) /\ OwesSame(r, x)
  BY <1>3 DEF Holds, OwesSame, Owes, At
<1>6. Written(r)'
  BY <1>2, <1>3, <1>4 DEF Written, BeforeProgress, BeforeStats, db, history
<1>7. ASSUME x.pc \in Awaits PROVE Fresh(x)
  <2>1. x.pc \in {"upsertStats", "evaluate"} /\ x.seen = stats[x.user]
    BY <1>3, <1>7 DEF Awaits
  <2>2. req[r].pc \in {"getStats", "fillStats"} /\ req[r].total = None /\ req[r].correct = None
    BY <1>2 DEF Begun, Fresh
  <2>3. x.had # None => x.pc = "evaluate" /\ x.had = earned[x.user]
    <3>1. req[r].had # None => req[r].caller = "check" /\ req[r].had = earned[req[r].user]
      BY <1>2 DEF Fresh
    <3>2. QED
      BY <1>3, <3>1
  <2>4. x.todo \cap earned[x.user] = {}
    BY <1>2, <1>3 DEF Fresh
  <2>5. QED
    BY <1>3, <2>1, <2>2, <2>3, <2>4 DEF Fresh
<1>8. QED
  BY <1>4, <1>5, <1>6, <1>7

\* Cached stats are those of the row while no write is on its way to drop them.
LEMMA HitExact ==
  ASSUME Calm, IInv, IInv', EInv, NEW r \in Reqs, GetStats(r) PROVE EInv'
<1>1. InFlight(r) /\ req[r].pc = "getStats" /\ UNCHANGED <<db, cached, history>>
  BY DEF GetStats, InFlight, At, Awaits
<1>2. /\ req[r] \in Request /\ Begun(req[r]) /\ Accounted(r, req[r]) /\ Written(r) /\ Fresh(req[r])
      /\ req[r].user \in Users /\ \A q \in Reqs \ {r} : ~InFlight(q)
  BY <1>1, Flying
<1>3. CASE cached[req[r].user] # None /\ req' = [req EXCEPT ![r] = Returned(req[r], cached[req[r].user])]
  <2>1. PICK st : st = cached[req[r].user]
    OBVIOUS
  <2>2. st \in Stats
    BY <1>2, <1>3, <2>1 DEF IInv, TypeOK
  <2>3. st = stats[req[r].user]
    <3>1. \A q \in Reqs : req[q].pc \notin {"delStats", "delRewarded"}
      BY <1>1, <1>2 DEF InFlight, Awaits
    <3>2. QED
      BY <1>2, <1>3, <2>1, <3>1 DEF EInv, CachedExact
  <2>4. PICK x : x = Returned(req[r], st)
    OBVIOUS
  <2>5. req' = [req EXCEPT ![r] = x]
    BY <1>3, <2>1, <2>4
  <2>6. x \in Request
    BY <2>5 DEF IInv, TypeOK
  <2>7. Replaced(r, x) /\ Holds(r, x) /\ OwesSame(r, x) /\ Written(r)' /\ (x.pc \in Awaits => Fresh(x))
    BY <1>1, <2>2, <2>3, <2>4, <2>5, <2>6, ReturnedExact
  <2>8. QED
    BY <1>1, <2>7, ExactQuiet
<1>4. CASE req' = [req EXCEPT ![r].pc = "findStats"]
  <2> PICK x : x = [req[r] EXCEPT !.pc = "findStats"]
    OBVIOUS
  <2>1. /\ x.pc = "findStats"
        /\ x.user = req[r].user /\ x.problem = req[r].problem /\ x.verdict = req[r].verdict
        /\ x.total = req[r].total /\ x.correct = req[r].correct /\ x.had = req[r].had
        /\ x.todo = req[r].todo /\ x.caller = req[r].caller /\ x.granted = req[r].granted
    BY <1>2 DEF Request
  <2>2. Replaced(r, x) /\ req'[r] = x
    BY <1>4, <2>1 DEF Replaced, IInv, TypeOK
  <2>3. Holds(r, x) /\ OwesSame(r, x)
    BY <1>1, <2>1 DEF Holds, OwesSame, Owes, At
  <2>4. Written(r)'
    BY <1>1, <1>2, <2>1, <2>2 DEF Written, BeforeProgress, BeforeStats, db, history
  <2>5. Fresh(x)
    BY <1>1, <1>2, <2>1 DEF Fresh
  <2>6. QED
    BY <1>1, <2>2, <2>3, <2>4, <2>5, ExactQuiet
<1>5. QED
  BY <1>3, <1>4 DEF GetStats

\* A submission starts alone.
LEMMA SubmitExact ==
  ASSUME Calm, IInv, IInv', EInv, NEW r \in Reqs, NEW u \in Users, NEW p \in Problems,
         NEW v \in Verdicts, Submit(r, u, p, v)
  PROVE  EInv'
<1> PICK x : x = [req[r] EXCEPT !.pc = "count", !.user = u, !.problem = p, !.verdict = v]
  OBVIOUS
<1>1. /\ req[r] = Blank /\ req' = [req EXCEPT ![r] = x] /\ UNCHANGED <<db, cached, history>>
      /\ \A q \in Reqs : ~InFlight(q)
  BY NoneElse DEF Submit, MayStart
<1>2. number[r] = 0 /\ Accounted(r, req[r]) /\ req[r] \in Request
  <2>1. req[r] \in Request /\ Accounted(r, req[r])
    BY DEF IInv, TypeOK
  <2>2. req[r].pc = "new"
    BY <1>1 DEF Blank
  <2>3. QED
    BY <2>1, <2>2 DEF Accounted, BeforeCreate
<1>3. /\ x.pc = "count" /\ x.total = None /\ x.correct = None /\ x.had = None /\ x.todo = {}
      /\ x.caller = "submit"
  BY <1>1 DEF Blank
<1>4. Replaced(r, x) /\ req'[r] = x
  BY <1>1, <1>2 DEF Replaced, IInv, TypeOK
<1>5. Holds(r, x) /\ OwesSame(r, x)
  BY <1>1, <1>3 DEF Holds, OwesSame, Owes, At, Blank
<1>6. Written(r)'
  BY <1>1, <1>2, <1>3, <1>4 DEF Written, db, history
<1>7. Fresh(x)
  BY <1>3 DEF Fresh
<1>8. QED
  BY <1>1, <1>4, <1>5, <1>6, <1>7, ExactQuiet

\* So does a read of the stats.
LEMMA GetMyStatsExact ==
  ASSUME Calm, IInv, IInv', EInv, NEW r \in Reqs, NEW u \in Users, GetMyStats(r, u)
  PROVE  EInv'
<1> PICK x : x = [req[r] EXCEPT !.pc = "getStats", !.caller = "controller", !.user = u]
  OBVIOUS
<1>1. /\ req[r] = Blank /\ req' = [req EXCEPT ![r] = x] /\ UNCHANGED <<db, cached, history>>
      /\ \A q \in Reqs : ~InFlight(q)
  BY NoneElse DEF GetMyStats, MayStart
<1>2. number[r] = 0 /\ Accounted(r, req[r]) /\ req[r] \in Request
  <2>1. req[r] \in Request /\ Accounted(r, req[r])
    BY DEF IInv, TypeOK
  <2>2. req[r].pc = "new"
    BY <1>1 DEF Blank
  <2>3. QED
    BY <2>1, <2>2 DEF Accounted, BeforeCreate
<1>3. /\ x.pc = "getStats" /\ x.total = None /\ x.correct = None /\ x.had = None /\ x.todo = {}
      /\ x.caller = "controller"
  BY <1>1 DEF Blank
<1>4. Replaced(r, x) /\ req'[r] = x
  BY <1>1, <1>2 DEF Replaced, IInv, TypeOK
<1>5. Holds(r, x) /\ OwesSame(r, x)
  BY <1>1, <1>3 DEF Holds, OwesSame, Owes, At, Blank
<1>6. Written(r)'
  BY <1>1, <1>2, <1>3, <1>4 DEF Written, db, history
<1>7. Fresh(x)
  BY <1>3 DEF Fresh
<1>8. QED
  BY <1>1, <1>4, <1>5, <1>6, <1>7, ExactQuiet

\* Only the request in flight can owe a reward.
Owed(f, u) == {f[q].granted : q \in {q \in Reqs : Owes(f[q]) /\ f[q].user = u}}

LEMMA PaidBut ==
  ASSUME NEW f, NEW r \in Reqs, \A q \in Reqs \ {r} : f[q].pc \notin Awaits, NEW u
  PROVE  /\ Owes(f[r]) /\ f[r].user = u => Owed(f, u) = {f[r].granted}
         /\ ~Owes(f[r]) => Owed(f, u) = {}
<1>1. \A q \in Reqs \ {r} : ~Owes(f[q])
  BY DEF Owes, Awaits
<1>2. QED
  BY <1>1 DEF Owed

\* The figures of one user's row are replaced; those of the others stand.
LEMMA StatsFor ==
  ASSUME IInv, EInv, NEW r \in Reqs, NEW x, Replaced(r, x), NEW w \in Users,
         req[r].user = w, x.user = w, \A q \in Reqs \ {r} : countedOn'[q] = countedOn[q],
         \A u \in Users \ {w} : stats'[u] = stats[u] /\ earned'[u] = earned[u],
         stats'[w] # None, stats'[w].totalProblemsSolved = Cardinality(Counted(w)'),
         stats'[w].totalXp = CountedXp(w)'
  PROVE  StatsExact'
<1>1. req'[r] = x /\ \A q \in Reqs \ {r} : req'[q] = req[q]
  BY ReplacedAt
<1>2. ASSUME NEW u \in Users \ {w} PROVE Counted(u)' = Counted(u) /\ CountedXp(u)' = CountedXp(u)
  <2>1. Counted(u)' = Counted(u) /\ r \notin Counted(u)
    BY <1>1, <1>2 DEF Counted
  <2>2. ASSUME NEW V PROVE WithVerdict(Counted(u), V)' = WithVerdict(Counted(u), V)
    BY <1>1, <2>1 DEF WithVerdict, Counted
  <2>3. Total(Reward, Paid(u)') = Total(Reward, Paid(u))
    <3>1. {q \in Reqs : Owes(req'[q]) /\ req'[q].user = u} = {q \in Reqs : Owes(req[q]) /\ req[q].user = u}
      BY <1>1, <1>2
    <3>2. {req'[q].granted : q \in {q \in Reqs : Owes(req'[q]) /\ req'[q].user = u}}
            = {req[q].granted : q \in {q \in Reqs : Owes(req[q]) /\ req[q].user = u}}
      BY <1>1, <1>2, <3>1
    <3>3. Paid(u)' = Paid(u)
      BY <1>2, <3>2 DEF Paid, Owes
    <3>4. QED
      BY <3>3
  <2>4. QED
    BY <2>1, <2>2, <2>3, RewardTotal DEF CountedXp
<1>3. ASSUME NEW u \in Users
      PROVE  IF stats'[u] = None THEN Counted(u)' = {} /\ earned'[u] = {}
             ELSE /\ stats'[u].totalProblemsSolved = Cardinality(Counted(u)')
                  /\ stats'[u].totalXp = CountedXp(u)'
  <2>1. CASE u = w
    BY <2>1
  <2>2. CASE u # w
    BY <1>2, <2>2 DEF EInv, StatsExact
  <2>3. QED
    BY <2>1, <2>2
<1>4. QED
  BY <1>3 DEF StatsExact

\* So with one user's key.
LEMMA CachedFor ==
  ASSUME IInv, EInv, NEW r \in Reqs, NEW x, Replaced(r, x), InFlight(r), NEW w \in Users,
         req[r].user = w, \A u \in Users \ {w} : stats'[u] = stats[u] /\ cached'[u] = cached[u],
         \/ x.pc \in {"delStats", "delRewarded"} /\ x.user = w
         \/ cached'[w] \in {None, stats'[w]}
  PROVE  CachedExact'
<1>1. req'[r] = x
  BY ReplacedAt
<1>2. \A q \in Reqs \ {r} : req[q].pc \notin {"delStats", "delRewarded"}
  BY DEF EInv, Alone, InFlight, Awaits
<1>3. \A u \in Users \ {w} : cached'[u] \in {None, stats'[u]}
  BY <1>2 DEF EInv, CachedExact
<1>4. QED
  BY <1>1, <1>3 DEF CachedExact

\* While r is at neither deletion the keys are those of the rows.
LEMMA CachedNow ==
  ASSUME IInv, EInv, NEW r \in Reqs, InFlight(r), req[r].pc \notin {"delStats", "delRewarded"}
  PROVE  \A u \in Users : cached[u] \in {None, stats[u]}
<1>1. \A q \in Reqs : req[q].pc \notin {"delStats", "delRewarded"}
  BY DEF EInv, Alone, InFlight, Awaits
<1>2. QED
  BY <1>1 DEF EInv, CachedExact

\* The attempt inserted gets the number after those there are.
LEMMA CreateExact == ASSUME IInv, IInv', EInv, NEW r \in Reqs, CreateAttempt(r) PROVE EInv'
<1> PICK x : x = [req[r] EXCEPT !.pc = "problemStats", !.count = 0]
  OBVIOUS
<1> PICK w : w = req[r].user
  OBVIOUS
<1> PICK p : p = req[r].problem
  OBVIOUS
<1>1. /\ InFlight(r) /\ req[r].pc = "create" /\ req' = [req EXCEPT ![r] = x]
      /\ number' = [number EXCEPT ![r] = req[r].count + 1]
      /\ UNCHANGED <<solve, progress, stats, earned, cached, history>>
  BY DEF CreateAttempt, InFlight, At, Awaits
<1>2. /\ req[r] \in Request /\ Begun(req[r]) /\ Accounted(r, req[r]) /\ Written(r) /\ Fresh(req[r])
      /\ w \in Users /\ \A q \in Reqs \ {r} : ~InFlight(q)
  BY <1>1, Flying
<1>3. /\ p \in Problems /\ number[r] = 0 /\ req[r].caller = "submit" /\ countedOn[r] = 0
      /\ r \notin progressed /\ req[r].count = Cardinality(AttemptsAt(w, p))
      /\ req[r].total = None /\ req[r].correct = None /\ req[r].had = None
  BY <1>1, <1>2 DEF Begun, Accounted, Fresh, BeforeCreate
<1>4. /\ x.pc = "problemStats" /\ x.user = w /\ x.problem = p /\ x.verdict = req[r].verdict
      /\ x.total = None /\ x.correct = None /\ x.had = None
      /\ x.todo = req[r].todo /\ x.caller = "submit" /\ x.granted = req[r].granted
  BY <1>2, <1>3 DEF Request
<1>5. Replaced(r, x) /\ req'[r] = x /\ \A q \in Reqs \ {r} : req'[q] = req[q] /\ number'[q] = number[q]
  BY <1>1, <1>3, <1>4 DEF Replaced, IInv, TypeOK
<1>6. number'[r] = Cardinality(AttemptsAt(w, p)) + 1 /\ number'[r] # 0
  <2>1. number'[r] = Cardinality(AttemptsAt(w, p)) + 1
    BY <1>1, <1>3 DEF IInv, TypeOK
  <2>2. AttemptsAt(w, p) \in SUBSET Reqs
    BY DEF AttemptsAt, AttemptsOf, Attempts
  <2>3. Cardinality(AttemptsAt(w, p)) \in Nat
    BY <2>2, Inside DEF Fits
  <2>4. QED
    BY <2>1, <2>3
<1>7. NumbersExact'
  <2>1. ASSUME NEW u \in Users, NEW k \in Problems
        PROVE  {number'[q] : q \in AttemptsAt(u, k)'} = 1..Cardinality(AttemptsAt(u, k)')
    <3>0. {number[q] : q \in AttemptsAt(u, k)} = 1..Cardinality(AttemptsAt(u, k))
      BY DEF EInv, NumbersExact
    <3>1. CASE u = w /\ k = p
      <4> PICK S : S = AttemptsAt(w, p)
        OBVIOUS
      <4> PICK n : n = Cardinality(S)
        OBVIOUS
      <4>1. S \in SUBSET Reqs /\ r \notin S
        BY <1>3 DEF AttemptsAt, AttemptsOf, Attempts
      <4>2. AttemptsAt(w, p)' = S \cup {r}
        BY <1>3, <1>4, <1>5, <1>6 DEF AttemptsAt, AttemptsOf, Attempts
      <4>3. IsFiniteSet(S) /\ n \in Nat
        BY <4>1, ReqsFinite, FS_Subset, FS_CardinalityType
      <4>4. Cardinality(S \cup {r}) = n + 1
        BY <4>1, <4>3, FS_AddElement
      <4>5. {number'[q] : q \in S} = 1..n
        <5>1. \A q \in S : number'[q] = number[q]
          BY <1>5, <4>1
        <5>2. {number'[q] : q \in S} = {number[q] : q \in S}
          BY <5>1
        <5>3. QED
          BY <3>0, <3>1, <5>2
      <4>6. {number'[q] : q \in S \cup {r}} = {number'[q] : q \in S} \cup {n + 1}
        BY <1>6
      <4>7. 1..(n + 1) = 1..n \cup {n + 1}
        BY <4>3
      <4>8. QED
        BY <3>1, <4>2, <4>4, <4>5, <4>6, <4>7
    <3>2. CASE ~(u = w /\ k = p)
      <4>0. req'[r].user = w /\ req'[r].problem = p
        BY <1>4, <1>5
      <4>1. AttemptsAt(u, k)' = AttemptsAt(u, k) /\ r \notin AttemptsAt(u, k)
        <5>1. r \notin AttemptsAt(u, k) /\ r \notin AttemptsAt(u, k)'
          BY <1>3, <3>2, <4>0 DEF AttemptsAt, AttemptsOf, Attempts
        <5>2. \A q \in Reqs \ {r} : q \in AttemptsAt(u, k)' <=> q \in AttemptsAt(u, k)
          BY <1>5 DEF AttemptsAt, AttemptsOf, Attempts
        <5>3. AttemptsAt(u, k) \subseteq Reqs /\ AttemptsAt(u, k)' \subseteq Reqs
          BY DEF AttemptsAt, AttemptsOf, Attempts
        <5>4. QED
          BY <5>1, <5>2, <5>3
      <4>2. \A q \in AttemptsAt(u, k) : number'[q] = number[q]
        BY <1>5, <4>1 DEF AttemptsAt, AttemptsOf, Attempts
      <4>3. {number'[q] : q \in AttemptsAt(u, k)} = {number[q] : q \in AttemptsAt(u, k)}
        BY <4>2
      <4>4. QED
        BY <3>0, <4>1, <4>3
    <3>3. QED
      BY <3>1, <3>2
  <2>2. QED
    BY <2>1 DEF NumbersExact
<1>8. SolveExact'
  <2>1. ASSUME NEW k \in Problems, k # p
        PROVE  solve'[k] = [solveCount |-> Cardinality(AttemptsOn(k)'),
                            correct |-> Cardinality(WithVerdict(AttemptsOn(k), {"right"})')]
    <3>0. req'[r].problem = p
      BY <1>4, <1>5
    <3>1. AttemptsOn(k)' = AttemptsOn(k) /\ r \notin AttemptsOn(k)
      <4>1. r \notin AttemptsOn(k) /\ r \notin AttemptsOn(k)'
        BY <1>3, <2>1, <3>0 DEF AttemptsOn, Attempts
      <4>2. \A q \in Reqs \ {r} : q \in AttemptsOn(k)' <=> q \in AttemptsOn(k)
        BY <1>5 DEF AttemptsOn, Attempts
      <4>3. AttemptsOn(k) \subseteq Reqs /\ AttemptsOn(k)' \subseteq Reqs
        BY DEF AttemptsOn, Attempts
      <4>4. QED
        BY <4>1, <4>2, <4>3
    <3>2. WithVerdict(AttemptsOn(k), {"right"})' = WithVerdict(AttemptsOn(k), {"right"})
      BY <1>5, <3>1 DEF WithVerdict, AttemptsOn, Attempts
    <3>3. \A q \in Reqs : ~At(q, "problemStats")
      BY <1>1, <1>2 DEF InFlight, At, Awaits
    <3>4. solve[k] = [solveCount |-> Cardinality(AttemptsOn(k)),
                      correct |-> Cardinality(WithVerdict(AttemptsOn(k), {"right"}))]
      BY <3>3 DEF EInv, SolveExact
    <3>5. QED
      BY <1>1, <3>1, <3>2, <3>4
  <2>2. At(r, "problemStats")' /\ req'[r].problem = p
    BY <1>4, <1>5 DEF At
  <2>3. QED
    BY <2>1, <2>2 DEF SolveExact
<1>9. ProgressExact' /\ StatsExact' /\ CachedExact'
  <2>1. Holds(r, x) /\ OwesSame(r, x)
    BY <1>1, <1>4 DEF Holds, OwesSame, Owes, At
  <2>2. QED
    BY <1>1, <1>5, <2>1, ExactKeep DEF history
<1>10. Written(r)'
  BY <1>1, <1>3, <1>4, <1>5 DEF Written, BeforeProgress, BeforeStats, history
<1>11. Fresh(x)'
  BY <1>1, <1>2, <1>4 DEF Fresh
<1>12. QED
  BY <1>1, <1>5, <1>7, <1>8, <1>9, <1>10, <1>11, ExactAssemble DEF history

\* The counts written are those of the attempts there are.
LEMMA SolveWritten == ASSUME IInv, IInv', EInv, NEW r \in Reqs, UpdateProblemStats(r) PROVE EInv'
<1> PICK x : x = [req[r] EXCEPT !.total = None, !.correct = None,
       !.pc = IF req[r].verdict = "ungraded" THEN "getStats" ELSE "readProgress"]
  OBVIOUS
<1>1. /\ InFlight(r) /\ req[r].pc = "problemStats" /\ req' = [req EXCEPT ![r] = x]
      /\ req[r].total # None /\ req[r].correct # None
      /\ solve' = [solve EXCEPT ![req[r].problem] =
                     [solveCount |-> req[r].total, correct |-> req[r].correct]]
      /\ UNCHANGED <<number, progress, stats, earned, cached, history>>
  BY DEF UpdateProblemStats, InFlight, At, Awaits
<1>2. /\ req[r] \in Request /\ Begun(req[r]) /\ Accounted(r, req[r]) /\ Written(r) /\ Fresh(req[r])
      /\ \A q \in Reqs \ {r} : ~InFlight(q)
  BY <1>1, Flying
<1>3. /\ req[r].problem \in Problems /\ number[r] # 0 /\ req[r].caller = "submit" /\ countedOn[r] = 0
      /\ r \notin progressed /\ req[r].had = None
      /\ req[r].total = Cardinality(AttemptsOn(req[r].problem))
      /\ req[r].correct = Cardinality(WithVerdict(AttemptsOn(req[r].problem), {"right"}))
  BY <1>1, <1>2 DEF Begun, Accounted, Fresh, BeforeProgress, BeforeStats
<1>4. /\ x.pc = (IF req[r].verdict = "ungraded" THEN "getStats" ELSE "readProgress")
      /\ x.user = req[r].user /\ x.problem = req[r].problem /\ x.verdict = req[r].verdict
      /\ x.total = None /\ x.correct = None /\ x.had = None
      /\ x.todo = req[r].todo /\ x.caller = "submit" /\ x.granted = req[r].granted
  BY <1>2, <1>3 DEF Request
<1>5. Replaced(r, x) /\ req'[r] = x
  BY <1>1, <1>4 DEF Replaced, IInv, TypeOK
<1>6. SolveExact'
  <2>1. ASSUME NEW k \in Problems
        PROVE  solve'[k] = [solveCount |-> Cardinality(AttemptsOn(k)'),
                            correct |-> Cardinality(WithVerdict(AttemptsOn(k), {"right"})')]
    <3>1. /\ AttemptsOn(k)' = AttemptsOn(k)
          /\ WithVerdict(AttemptsOn(k), {"right"})' = WithVerdict(AttemptsOn(k), {"right"})
      BY <1>1, <1>5, SameSets
    <3>2. CASE k = req[r].problem
      BY <1>1, <1>3, <3>1, <3>2 DEF IInv, TypeOK
    <3>3. CASE k # req[r].problem
      <4>1. \A q \in Reqs : ~(At(q, "problemStats") /\ req[q].problem = k)
        BY <1>1, <1>2, <3>3 DEF InFlight, At, Awaits
      <4>2. solve[k] = [solveCount |-> Cardinality(AttemptsOn(k)),
                        correct |-> Cardinality(WithVerdict(AttemptsOn(k), {"right"}))]
        BY <4>1 DEF EInv, SolveExact
      <4>3. QED
        BY <1>1, <3>1, <3>3, <4>2 DEF IInv, TypeOK
    <3>4. QED
      BY <3>2, <3>3
  <2>2. QED
    BY <2>1 DEF SolveExact
<1>7. NumbersExact' /\ ProgressExact' /\ StatsExact'
  <2>1. OwesSame(r, x)
    BY <1>1, <1>4 DEF OwesSame, Owes
  <2>2. QED
    BY <1>1, <1>5, <2>1, ExactKeep DEF history
<1>8. CachedExact'
  BY <1>1, <1>2, CachedNow DEF CachedExact
<1>9. Written(r)'
  BY <1>1, <1>3, <1>4, <1>5 DEF Written, BeforeProgress, BeforeStats, history
<1>10. Fresh(x)'
  BY <1>1, <1>2, <1>4 DEF Fresh
<1>11. QED
  BY <1>1, <1>5, <1>6, <1>7, <1>8, <1>9, <1>10, ExactAssemble DEF history

\* One attempt more on the row, and one more request behind it.
LEMMA ProgressWritten == ASSUME IInv, IInv', EInv, NEW r \in Reqs, UpsertProgress(r) PROVE EInv'
<1> PICK x : x = [req[r] EXCEPT !.pc = "getStats", !.row = NoProgress]
  OBVIOUS
<1> PICK w : w = req[r].user
  OBVIOUS
<1> PICK t : t = Topic(r)
  OBVIOUS
<1> PICK gain : gain = IF req[r].verdict = "right" THEN 1 ELSE 0
  OBVIOUS
<1>1. /\ InFlight(r) /\ req[r].pc = "upsertProgress" /\ req' = [req EXCEPT ![r] = x]
      /\ progress' = [progress EXCEPT ![<<w, t>>] =
                        [problemsSolved |-> req[r].row.problemsSolved + 1,
                         correctCount |-> req[r].row.correctCount + gain]]
      /\ progressed' = progressed \cup {r}
      /\ UNCHANGED <<number, solve, stats, earned, cached, countedOn>>
  BY DEF UpsertProgress, InFlight, At, Awaits
<1>2. /\ req[r] \in Request /\ Begun(req[r]) /\ Accounted(r, req[r]) /\ Written(r) /\ Fresh(req[r])
      /\ w \in Users
  BY <1>1, Flying
<1>3. /\ req[r].problem \in Problems /\ number[r] # 0 /\ req[r].caller = "submit" /\ countedOn[r] = 0
      /\ r \notin progressed /\ req[r].had = None /\ req[r].verdict \in {"right", "wrong"}
      /\ req[r].row = progress[<<w, t>>] /\ t \in Topics
      /\ req[r].total = None /\ req[r].correct = None
  BY <1>1, <1>2, TopicsTyped
     DEF Begun, Accounted, Fresh, BeforeProgress, BeforeStats, Request, Topic
<1>4. /\ x.pc = "getStats"
      /\ x.user = w /\ x.problem = req[r].problem /\ x.verdict = req[r].verdict
      /\ x.total = None /\ x.correct = None /\ x.had = None
      /\ x.todo = req[r].todo /\ x.caller = "submit" /\ x.granted = req[r].granted
  BY <1>2, <1>3 DEF Request
<1>5. Replaced(r, x) /\ req'[r] = x
  BY <1>1, <1>4 DEF Replaced, IInv, TypeOK
<1>6. ASSUME NEW u \in Users, NEW s \in Topics, NEW V \in SUBSET {"right", "wrong"}
      PROVE  Progressed(u, s, V)' = IF u = w /\ s = t /\ req[r].verdict \in V
                                    THEN Progressed(u, s, V) \cup {r} ELSE Progressed(u, s, V)
  <2>1. \A q \in progressed : /\ q \in Reqs /\ req'[q].user = req[q].user
                              /\ req'[q].problem = req[q].problem
                              /\ req'[q].verdict = req[q].verdict
    BY <1>5, ReplacedAt
  <2>2. req'[r].user = w /\ TopicOf[req'[r].problem] = t /\ req'[r].verdict = req[r].verdict
    BY <1>4, <1>5 DEF Topic
  <2>3. QED
    BY <1>1, <2>1, <2>2 DEF Progressed, WithVerdict, Topic
<1>7. ASSUME NEW V \in SUBSET {"right", "wrong"}
      PROVE  /\ Cardinality(Progressed(w, t, V)) \in Nat
             /\ Cardinality(Progressed(w, t, V)')
                  = Cardinality(Progressed(w, t, V)) + (IF req[r].verdict \in V THEN 1 ELSE 0)
  <2> PICK S : S = Progressed(w, t, V)
    OBVIOUS
  <2>1. S \in SUBSET Reqs /\ r \notin S
    BY <1>3 DEF Progressed, WithVerdict, IInv, TypeOK
  <2>2. IsFiniteSet(S) /\ Cardinality(S) \in Nat
    BY <2>1, ReqsFinite, FS_Subset, FS_CardinalityType
  <2>3. Cardinality(S \cup {r}) = Cardinality(S) + 1
    BY <2>1, <2>2, FS_AddElement
  <2>4. Progressed(w, t, V)' = IF req[r].verdict \in V THEN S \cup {r} ELSE S
    BY <1>2, <1>3, <1>6
  <2>5. QED
    BY <2>2, <2>3, <2>4
<1>8. ProgressExact'
  <2>1. ASSUME NEW u \in Users, NEW s \in Topics
        PROVE  progress'[<<u, s>>] =
                 [problemsSolved |-> Cardinality(Progressed(u, s, {"right", "wrong"})'),
                  correctCount |-> Cardinality(Progressed(u, s, {"right"})')]
    <3>1. progress[<<u, s>>] =
                 [problemsSolved |-> Cardinality(Progressed(u, s, {"right", "wrong"})),
                  correctCount |-> Cardinality(Progressed(u, s, {"right"}))]
      BY DEF EInv, ProgressExact
    <3>2. CASE u = w /\ s = t
      <4>1. Cardinality(Progressed(w, t, {"right", "wrong"})')
              = Cardinality(Progressed(w, t, {"right", "wrong"})) + 1
        BY <1>3, <1>7
      <4>2. Cardinality(Progressed(w, t, {"right"})')
              = Cardinality(Progressed(w, t, {"right"})) + gain
        BY <1>3, <1>7
      <4>3. progress'[<<w, t>>] = [problemsSolved |-> progress[<<w, t>>].problemsSolved + 1,
                                   correctCount |-> progress[<<w, t>>].correctCount + gain]
        BY <1>1, <1>2, <1>3 DEF IInv, TypeOK
      <4>4. QED
        BY <3>1, <3>2, <4>1, <4>2, <4>3
    <3>3. CASE ~(u = w /\ s = t)
      <4>1. /\ Progressed(u, s, {"right", "wrong"})' = Progressed(u, s, {"right", "wrong"})
            /\ Progressed(u, s, {"right"})' = Progressed(u, s, {"right"})
        BY <1>6, <3>3
      <4>2. progress'[<<u, s>>] = progress[<<u, s>>]
        BY <1>1, <3>3 DEF IInv, TypeOK
      <4>3. QED
        BY <3>1, <4>1, <4>2
    <3>4. QED
      BY <3>2, <3>3
  <2>2. QED
    BY <2>1 DEF ProgressExact
<1>9. NumbersExact' /\ SolveExact' /\ StatsExact' /\ CachedExact'
  <2>1. Holds(r, x) /\ OwesSame(r, x)
    BY <1>1, <1>4 DEF Holds, OwesSame, Owes, At
  <2>2. QED
    BY <1>1, <1>5, <2>1, ExactKeep
<1>10. Written(r)'
  BY <1>1, <1>3, <1>4, <1>5 DEF Written, BeforeProgress, BeforeStats
<1>11. Fresh(x)'
  BY <1>1, <1>2, <1>4 DEF Fresh
<1>12. QED
  BY <1>1, <1>5, <1>8, <1>9, <1>10, <1>11, ExactAssemble

\* Where there is no row nothing has been counted or earned: zeros are exact.
LEMMA ZeroExact == ASSUME IInv, IInv', EInv, NEW r \in Reqs, UpsertZeroStats(r) PROVE EInv'
<1>x. PICK x : x = [req[r] EXCEPT !.seen = ZeroStats, !.pc = "fillStats"]
  OBVIOUS
<1> PICK w : w = req[r].user
  OBVIOUS
<1>1. /\ InFlight(r) /\ req[r].pc = "zeroStats" /\ req' = [req EXCEPT ![r] = x]
      /\ stats' = [stats EXCEPT ![w] = ZeroStats]
      /\ UNCHANGED <<number, solve, progress, earned, cached, history>>
  BY <1>x DEF UpsertZeroStats, InFlight, At, Awaits
<1>2. /\ req[r] \in Request /\ Begun(req[r]) /\ Accounted(r, req[r]) /\ Written(r) /\ Fresh(req[r])
      /\ w \in Users /\ \A q \in Reqs \ {r} : ~InFlight(q)
  BY <1>1, Flying
<1>3. stats[w] = None /\ Counted(w) = {} /\ earned[w] = {} /\ ZeroStats # None /\ ZeroStats \in Stats
  <2>1. stats[w] = None
    BY <1>1, <1>2 DEF Fresh
  <2>2. today \in Nat
    BY BoundsTyped DEF IInv, TypeOK
  <2>3. ZeroStats \in Stats
    BY <2>2 DEF ZeroStats, Stats
  <2>4. QED
    BY <1>2, <2>1, <2>3, NoneIsNoRow DEF EInv, StatsExact
<1>4. /\ x.pc = "fillStats" /\ x.seen = ZeroStats
      /\ x.user = w /\ x.problem = req[r].problem /\ x.verdict = req[r].verdict
      /\ x.total = req[r].total /\ x.correct = req[r].correct /\ x.had = req[r].had
      /\ x.todo = req[r].todo /\ x.caller = req[r].caller /\ x.granted = req[r].granted
  BY <1>x, <1>2 DEF Request
<1>5. Replaced(r, x) /\ req'[r] = x /\ stats'[w] = ZeroStats /\ \A u \in Users \ {w} : stats'[u] = stats[u]
  BY <1>1, <1>2, <1>4 DEF Replaced, IInv, TypeOK
<1>6. StatsExact'
  <2>1. Counted(w)' = {} /\ WithVerdict(Counted(w), {"right"})' = {}
        /\ WithVerdict(Counted(w), {"wrong"})' = {}
    <3>1. Counted(w)' = {}
      BY <1>1, <1>3, <1>5, SameSets DEF history
    <3>2. QED
      BY <3>1 DEF WithVerdict
  <2>2. Paid(w)' = {}
    BY <1>1, <1>3 DEF Paid
  <2>3. CountedXp(w)' = 0
    <3>1. XpOf({}) = 0
      BY RewardTotal, TotalEmpty
    <3>2. Cardinality({}) = 0
      BY FS_EmptySet
    <3>3. XpOf(Paid(w))' = 0
      BY <2>2, <3>1
    <3>4. QED
      BY <2>1, <3>2, <3>3 DEF CountedXp
  <2>4. Cardinality(Counted(w)') = 0
    BY <2>1, FS_EmptySet
  <2>5. ZeroStats.totalProblemsSolved = 0 /\ ZeroStats.totalXp = 0
    BY DEF ZeroStats
  <2>6. stats'[w] # None /\ stats'[w].totalProblemsSolved = Cardinality(Counted(w)')
        /\ stats'[w].totalXp = CountedXp(w)'
    BY <1>3, <1>5, <2>3, <2>4, <2>5
  <2>7. /\ \A q \in Reqs \ {r} : countedOn'[q] = countedOn[q]
        /\ \A u \in Users \ {w} : stats'[u] = stats[u] /\ earned'[u] = earned[u]
    BY <1>1, <1>5 DEF history
  <2>8. Replaced(r, x) /\ w \in Users /\ req[r].user = w /\ x.user = w
    BY <1>2, <1>4, <1>5
  <2>9. QED
    BY <2>6, <2>7, <2>8, StatsFor
<1>7. CachedExact'
  <2>1. cached'[w] = None
    BY <1>1, <1>2, <1>3, CachedNow
  <2>2. QED
    BY <1>1, <1>2, <1>5, <2>1, CachedFor
<1>8. NumbersExact' /\ SolveExact' /\ ProgressExact'
  <2>1. Holds(r, x)
    BY <1>1 DEF Holds, At
  <2>2. QED
    BY <1>1, <1>5, <2>1, ExactKeep DEF history
<1>9. Written(r)'
  BY <1>1, <1>2, <1>4, <1>5 DEF Written, BeforeProgress, BeforeStats, history
<1>10. Fresh(x)'
  <2>1. req[r].total = None /\ req[r].correct = None
    BY <1>1, <1>2 DEF Begun, Fresh
  <2>2. x.seen = stats'[x.user]
    BY <1>4, <1>5
  <2>3. QED
    BY <1>1, <1>2, <1>4, <2>1, <2>2 DEF Fresh
<1>11. QED
  BY <1>1, <1>5, <1>6, <1>7, <1>8, <1>9, <1>10, ExactAssemble DEF history

\* The key is filled with the row.
LEMMA FillExact == ASSUME Calm, IInv, IInv', EInv, NEW r \in Reqs, FillStats(r) PROVE EInv'
<1> PICK w : w = req[r].user
  OBVIOUS
<1> PICK st : st = req[r].seen
  OBVIOUS
<1> PICK x : x = Returned(req[r], st)
  OBVIOUS
<1>1. /\ InFlight(r) /\ req[r].pc = "fillStats" /\ req' = [req EXCEPT ![r] = x]
      /\ cached' = [cached EXCEPT ![w] = st]
      /\ UNCHANGED <<db, history>>
  BY DEF FillStats, InFlight, At, Awaits, Calm
<1>2. /\ req[r] \in Request /\ Begun(req[r]) /\ Accounted(r, req[r]) /\ Written(r) /\ Fresh(req[r])
      /\ w \in Users
  BY <1>1, Flying
<1>3. st \in Stats /\ st = stats[w] /\ x \in Request
  <2>1. st \in Stats /\ st = stats[w]
    BY <1>1, <1>2 DEF Begun, Fresh
  <2>2. x \in Request
    BY <1>1 DEF IInv, TypeOK
  <2>3. QED
    BY <2>1, <2>2
<1>4. Replaced(r, x) /\ Holds(r, x) /\ OwesSame(r, x) /\ Written(r)' /\ (x.pc \in Awaits => Fresh(x))
  BY <1>1, <1>3, ReturnedExact
<1>5. UNCHANGED <<number, solve, progress, stats, earned, progressed, countedOn>>
  BY <1>1 DEF db, history
<1>6. NumbersExact' /\ SolveExact' /\ ProgressExact' /\ StatsExact'
  BY <1>4, <1>5, ExactKeep
<1>7. CachedExact'
  <2>1. cached'[w] = stats'[w] /\ \A u \in Users \ {w} : cached'[u] = cached[u]
    BY <1>1, <1>2, <1>3, <1>5 DEF IInv, TypeOK
  <2>2. QED
    BY <1>1, <1>2, <1>4, <1>5, <2>1, CachedFor
<1>8. x.pc \in Awaits => Fresh(x)'
  <2>1. SUFFICES ASSUME x.pc \in Awaits PROVE Fresh(x)'
    OBVIOUS
  <2>2. /\ AttemptsAt(x.user, x.problem)' = AttemptsAt(x.user, x.problem)
        /\ AttemptsOn(x.problem)' = AttemptsOn(x.problem)
        /\ WithVerdict(AttemptsOn(x.problem), {"right"})' = WithVerdict(AttemptsOn(x.problem), {"right"})
    BY <1>4, <1>5, SameSets
  <2>3. QED
    BY <1>4, <1>5, <2>1, <2>2 DEF Fresh
<1>9. QED
  BY <1>1, <1>4, <1>5, <1>6, <1>7, <1>8, ExactAssemble

\* One attempt more and the XP of its verdict, and one more request behind them.
LEMMA StatsWritten == ASSUME IInv, IInv', EInv, NEW r \in Reqs, UpsertStats(r) PROVE EInv'
<1>x. PICK x : x = [req[r] EXCEPT !.pc = "delStats", !.seen = None]
  OBVIOUS
<1> PICK w : w = req[r].user
  OBVIOUS
<1> PICK v : v = req[r].verdict
  OBVIOUS
<1> PICK st : st = AfterAttempt(req[r].seen, v)
  OBVIOUS
<1>1. /\ InFlight(r) /\ req[r].pc = "upsertStats" /\ req' = [req EXCEPT ![r] = x]
      /\ stats' = [stats EXCEPT ![w] = st]
      /\ countedOn' = [countedOn EXCEPT ![r] = today]
      /\ UNCHANGED <<number, solve, progress, earned, cached, progressed>>
  BY <1>x DEF UpsertStats, InFlight, At, Awaits
<1>2. /\ req[r] \in Request /\ Begun(req[r]) /\ Accounted(r, req[r]) /\ Written(r) /\ Fresh(req[r])
      /\ w \in Users
  BY <1>1, Flying
<1>3. /\ req[r].caller = "submit" /\ number[r] # 0 /\ countedOn[r] = 0 /\ req[r].had = None
      /\ req[r].seen = stats[w] /\ stats[w] \in Stats /\ stats[w] # None
      /\ req[r].total = None /\ req[r].correct = None /\ today # 0
      /\ v \in {"right", "wrong", "ungraded"}
  <2>1. /\ req[r].caller = "submit" /\ number[r] # 0 /\ countedOn[r] = 0 /\ req[r].had = None
        /\ req[r].seen = stats[w] /\ stats[w] \in Stats
        /\ req[r].total = None /\ req[r].correct = None
    BY <1>1, <1>2 DEF Begun, Accounted, Fresh, BeforeStats
  <2>2. today # 0 /\ v \in {"right", "wrong", "ungraded"}
    BY <1>2, BoundsTyped DEF IInv, TypeOK, Request
  <2>3. QED
    BY <2>1, <2>2, NoneIsNoRow
<1>4. /\ x.pc = "delStats"
      /\ x.user = w /\ x.problem = req[r].problem /\ x.verdict = v
      /\ x.total = None /\ x.correct = None /\ x.had = None
      /\ x.todo = req[r].todo /\ x.caller = "submit" /\ x.granted = req[r].granted
  BY <1>x, <1>2, <1>3 DEF Request
<1>5. /\ Replaced(r, x) /\ req'[r] = x /\ stats'[w] = st
      /\ \A u \in Users \ {w} : stats'[u] = stats[u]
      /\ countedOn'[r] # 0 /\ \A q \in Reqs \ {r} : countedOn'[q] = countedOn[q] /\ req'[q] = req[q]
  BY <1>1, <1>2, <1>3, <1>4 DEF Replaced, IInv, TypeOK
<1>6. Counted(w)' = Counted(w) \cup {r} /\ r \notin Counted(w)
  <2>1. r \in Counted(w)' /\ r \notin Counted(w)
    BY <1>3, <1>4, <1>5 DEF Counted
  <2>2. \A q \in Reqs \ {r} : q \in Counted(w)' <=> q \in Counted(w)
    BY <1>5 DEF Counted
  <2>3. Counted(w) \subseteq Reqs /\ Counted(w)' \subseteq Reqs
    BY DEF Counted
  <2>4. QED
    BY <2>1, <2>2, <2>3
<1>7. ASSUME NEW V
      PROVE  /\ Cardinality(WithVerdict(Counted(w), V)) \in Nat
             /\ Cardinality(WithVerdict(Counted(w), V)')
                  = Cardinality(WithVerdict(Counted(w), V)) + (IF v \in V THEN 1 ELSE 0)
  <2> PICK S : S = WithVerdict(Counted(w), V)
    OBVIOUS
  <2>1. S \in SUBSET Reqs /\ r \notin S
    BY <1>6 DEF WithVerdict, Counted
  <2>2. IsFiniteSet(S) /\ Cardinality(S) \in Nat
    BY <2>1, ReqsFinite, FS_Subset, FS_CardinalityType
  <2>3. Cardinality(S \cup {r}) = Cardinality(S) + 1
    BY <2>1, <2>2, FS_AddElement
  <2>4. WithVerdict(Counted(w), V)' = IF v \in V THEN S \cup {r} ELSE S
    <3>1. \A q \in Counted(w) : req'[q] = req[q]
      BY <1>5, <1>6 DEF Counted
    <3>2. req'[r].verdict = v
      BY <1>4, <1>5
    <3>3. QED
      BY <1>6, <3>1, <3>2 DEF WithVerdict
  <2>5. QED
    BY <2>2, <2>3, <2>4
<1>8. Cardinality(Counted(w)) \in Nat /\ Cardinality(Counted(w)') = Cardinality(Counted(w)) + 1
  <2>1. Counted(w) \in SUBSET Reqs
    BY DEF Counted
  <2>2. IsFiniteSet(Counted(w)) /\ Cardinality(Counted(w)) \in Nat
    BY <2>1, ReqsFinite, FS_Subset, FS_CardinalityType
  <2>3. QED
    BY <1>6, <2>2, FS_AddElement
<1>9. CountedXp(w)' = CountedXp(w) + XpGain(v)
  <2>1. Paid(w)' = Paid(w)
    <3>1. OwesSame(r, x)
      BY <1>1, <1>4 DEF OwesSame, Owes
    <3>2. QED
      BY <1>1, <1>2, <1>5, <3>1, SamePaid DEF OwesSame
  <2>2. XpOf(Paid(w))' = XpOf(Paid(w))
    BY <2>1, RewardTotal
  <2>3. XpOf(Paid(w)) \in Nat
    <3>1. Paid(w) \in SUBSET Achievements
      BY <1>2 DEF Paid, IInv, TypeOK
    <3>2. Numbers(Reward, Achievements)
      BY RewardTyped DEF Numbers
    <3>3. QED
      BY <3>1, <3>2, AchievementsFinite, TotalNat, RewardTotal
  <2>4. /\ Cardinality(WithVerdict(Counted(w), {"right"})')
             = Cardinality(WithVerdict(Counted(w), {"right"})) + (IF v = "right" THEN 1 ELSE 0)
        /\ Cardinality(WithVerdict(Counted(w), {"wrong"})')
             = Cardinality(WithVerdict(Counted(w), {"wrong"})) + (IF v = "wrong" THEN 1 ELSE 0)
        /\ Cardinality(WithVerdict(Counted(w), {"right"})) \in Nat
        /\ Cardinality(WithVerdict(Counted(w), {"wrong"})) \in Nat
    BY <1>7
  <2>5. XpGain(v) = IF v = "right" THEN 10 ELSE IF v = "wrong" THEN 2 ELSE 0
    BY <1>3 DEF XpGain
  <2>6. QED
    BY <1>3, <2>2, <2>3, <2>4, <2>5 DEF CountedXp
<1>10. StatsExact'
  <2>1. stats[w].totalProblemsSolved = Cardinality(Counted(w)) /\ stats[w].totalXp = CountedXp(w)
    BY <1>2, <1>3 DEF EInv, StatsExact
  <2>2. /\ st.totalProblemsSolved = stats[w].totalProblemsSolved + 1
        /\ st.totalXp = stats[w].totalXp + XpGain(v)
    BY <1>3 DEF AfterAttempt
  <2>3. st # None
    <3>1. SoundFor(w, stats[w]) /\ today \in Nat /\ today >= 1
      BY <1>2, BoundsTyped DEF IInv, TypeOK
    <3>2. CountedXp(w) \in Nat
      BY <1>2, XpNat
    <3>3. XpGain(v) \in Nat
      BY <1>3 DEF XpGain
    <3> PICK n : n = Cardinality(Counted(w))
      OBVIOUS
    <3> PICK e : e = CountedXp(w)
      OBVIOUS
    <3>4. /\ Sound(stats[w], n, e, today) /\ n \in Nat /\ n + 1 \in Nat /\ n + 1 <= n + 1
          /\ e \in Nat /\ e + XpGain(v) \in Nat /\ e + XpGain(v) <= e + XpGain(v)
      BY <1>8, <3>1, <3>2, <3>3 DEF SoundFor
    <3>5. st \in Stats
      BY <1>3, <3>1, <3>4, AfterAttemptSound
    <3>6. QED
      BY <3>5, NoneIsNoRow
  <2>4. stats'[w] # None /\ stats'[w].totalProblemsSolved = Cardinality(Counted(w)')
        /\ stats'[w].totalXp = CountedXp(w)'
    BY <1>5, <1>8, <1>9, <2>1, <2>2, <2>3
  <2>5. /\ \A q \in Reqs \ {r} : countedOn'[q] = countedOn[q]
        /\ \A u \in Users \ {w} : stats'[u] = stats[u] /\ earned'[u] = earned[u]
    BY <1>1, <1>5
  <2>6. Replaced(r, x) /\ w \in Users /\ req[r].user = w /\ x.user = w
    BY <1>2, <1>4, <1>5
  <2>7. QED
    BY <2>4, <2>5, <2>6, StatsFor
<1>11. CachedExact'
  <2>1. /\ \A u \in Users \ {w} : stats'[u] = stats[u] /\ cached'[u] = cached[u]
        /\ x.pc \in {"delStats", "delRewarded"} /\ x.user = w
    BY <1>1, <1>4, <1>5
  <2>2. Replaced(r, x) /\ InFlight(r) /\ w \in Users /\ req[r].user = w
    BY <1>1, <1>2, <1>5
  <2>3. QED
    BY <2>1, <2>2, CachedFor
<1>12. NumbersExact' /\ SolveExact' /\ ProgressExact'
  <2>1. Holds(r, x)
    BY <1>1 DEF Holds, At
  <2>2. QED
    BY <1>1, <1>5, <2>1, ExactKeep
<1>13. Written(r)'
  BY <1>1, <1>2, <1>4, <1>5 DEF Written, BeforeProgress, BeforeStats
<1>14. Fresh(x)'
  BY <1>1, <1>2, <1>4 DEF Fresh
<1>15. QED
  BY <1>1, <1>5, <1>10, <1>11, <1>12, <1>13, <1>14, ExactAssemble

\* The key is gone, whatever was in it.
LEMMA DroppedExact == ASSUME Calm, IInv, IInv', EInv, NEW r \in Reqs, DelStats(r) PROVE EInv'
<1>x. PICK x : x = [req[r] EXCEPT !.pc = "getStats", !.caller = "check"]
  OBVIOUS
<1> PICK w : w = req[r].user
  OBVIOUS
<1>1. /\ InFlight(r) /\ req[r].pc = "delStats" /\ req' = [req EXCEPT ![r] = x]
      /\ cached' = [cached EXCEPT ![w] = None]
      /\ UNCHANGED <<number, solve, progress, stats, earned, progressed, countedOn>>
  BY <1>x DEF DelStats, Uncaches, Calm, InFlight, At, Awaits, db, history
<1>2. /\ req[r] \in Request /\ Begun(req[r]) /\ Accounted(r, req[r]) /\ Written(r) /\ Fresh(req[r])
      /\ w \in Users
  BY <1>1, Flying
<1>3. req[r].total = None /\ req[r].correct = None /\ req[r].had = None
  BY <1>1, <1>2 DEF Begun, Fresh
<1>4. /\ x.pc = "getStats" /\ x.caller = "check"
      /\ x.user = w /\ x.problem = req[r].problem /\ x.verdict = req[r].verdict
      /\ x.total = None /\ x.correct = None /\ x.had = None
      /\ x.todo = req[r].todo /\ x.granted = req[r].granted
  BY <1>x, <1>2, <1>3 DEF Request
<1>5. Replaced(r, x) /\ req'[r] = x
  BY <1>1, <1>4 DEF Replaced, IInv, TypeOK
<1>6. CachedExact'
  <2>1. /\ \A u \in Users \ {w} : stats'[u] = stats[u] /\ cached'[u] = cached[u]
        /\ cached'[w] = None
    BY <1>1, <1>2 DEF IInv, TypeOK
  <2>2. Replaced(r, x) /\ InFlight(r) /\ w \in Users /\ req[r].user = w
    BY <1>1, <1>2, <1>5
  <2>3. QED
    BY <2>1, <2>2, CachedFor
<1>7. NumbersExact' /\ SolveExact' /\ ProgressExact' /\ StatsExact'
  <2>1. ~At(r, "problemStats")
    BY <1>1 DEF At
  <2>2. OwesSame(r, x)
    BY <1>1, <1>4 DEF OwesSame, Owes
  <2>3. QED
    BY <1>1, <1>5, <2>1, <2>2, ExactKeep
<1>8. Written(r)'
  BY <1>1, <1>2, <1>4, <1>5 DEF Written, BeforeProgress, BeforeStats
<1>9. Fresh(x)'
  BY <1>1, <1>2, <1>4 DEF Fresh
<1>10. QED
  BY <1>1, <1>5, <1>6, <1>7, <1>8, <1>9, ExactAssemble

\* The same at the end of a round of the loop over the achievements.
LEMMA RoundExact == ASSUME Calm, IInv, IInv', EInv, NEW r \in Reqs, DelRewarded(r) PROVE EInv'
<1>x. PICK x : x = [req[r] EXCEPT !.granted = None,
                      !.pc = IF req[r].todo = {} THEN "done" ELSE "grant"]
  OBVIOUS
<1> PICK w : w = req[r].user
  OBVIOUS
<1>1. /\ InFlight(r) /\ req[r].pc = "delRewarded" /\ req' = [req EXCEPT ![r] = x]
      /\ cached' = [cached EXCEPT ![w] = None]
      /\ UNCHANGED <<number, solve, progress, stats, earned, progressed, countedOn>>
  BY <1>x DEF DelRewarded, Uncaches, Calm, InFlight, At, Awaits, db, history
<1>2. /\ req[r] \in Request /\ Begun(req[r]) /\ Accounted(r, req[r]) /\ Written(r) /\ Fresh(req[r])
      /\ w \in Users
  BY <1>1, Flying
<1>3. req[r].total = None /\ req[r].correct = None /\ req[r].had = None
  BY <1>1, <1>2 DEF Begun, Fresh
<1>4. /\ x.pc \in {"done", "grant"} /\ x.caller = req[r].caller
      /\ x.user = w /\ x.problem = req[r].problem /\ x.verdict = req[r].verdict
      /\ x.total = None /\ x.correct = None /\ x.had = None /\ x.todo = req[r].todo
  BY <1>x, <1>2, <1>3 DEF Request
<1>5. Replaced(r, x) /\ req'[r] = x
  BY <1>1, <1>4 DEF Replaced, IInv, TypeOK
<1>6. CachedExact'
  <2>1. /\ \A u \in Users \ {w} : stats'[u] = stats[u] /\ cached'[u] = cached[u]
        /\ cached'[w] = None
    BY <1>1, <1>2 DEF IInv, TypeOK
  <2>2. Replaced(r, x) /\ InFlight(r) /\ w \in Users /\ req[r].user = w
    BY <1>1, <1>2, <1>5
  <2>3. QED
    BY <2>1, <2>2, CachedFor
<1>7. NumbersExact' /\ SolveExact' /\ ProgressExact' /\ StatsExact'
  <2>1. ~At(r, "problemStats")
    BY <1>1 DEF At
  <2>2. OwesSame(r, x)
    BY <1>1, <1>4 DEF OwesSame, Owes
  <2>3. QED
    BY <1>1, <1>5, <2>1, <2>2, ExactKeep
<1>8. Written(r)'
  BY <1>1, <1>2, <1>4, <1>5 DEF Written, BeforeProgress, BeforeStats
<1>9. Fresh(x)'
  BY <1>1, <1>2, <1>4 DEF Fresh
<1>10. QED
  BY <1>1, <1>5, <1>6, <1>7, <1>8, <1>9, ExactAssemble

\* An achievement granted is new; its XP is owed until it is paid.
LEMMA GrantExact == ASSUME IInv, IInv', EInv, NEW r \in Reqs, Grant(r) PROVE EInv'
<1> PICK w : w = req[r].user
  OBVIOUS
<1>1. /\ InFlight(r) /\ req[r].pc = "grant"
      /\ UNCHANGED <<number, solve, progress, stats, cached, history>>
  BY DEF Grant, InFlight, At, Awaits
<1>2. /\ req[r] \in Request /\ Begun(req[r]) /\ Accounted(r, req[r]) /\ Written(r) /\ Fresh(req[r])
      /\ w \in Users /\ \A q \in Reqs \ {r} : ~InFlight(q)
  BY <1>1, Flying
<1>3. /\ req[r].total = None /\ req[r].correct = None /\ req[r].had = None
      /\ req[r].todo \cap earned[w] = {} /\ countedOn[r] # 0
  BY <1>1, <1>2 DEF Begun, Fresh, Written
<1>a. PICK a \in req[r].todo :
       /\ earned' = [earned EXCEPT ![w] = @ \cup {a}]
       /\ req' = [req EXCEPT ![r] = [req[r] EXCEPT !.todo = req[r].todo \ {a},
            !.granted = a, !.pc = IF Reward[a] > 0 THEN "rereadStats" ELSE "delRewarded"]]
  BY <1>3 DEF Grant
<1>x. PICK x : x = [req[r] EXCEPT !.todo = req[r].todo \ {a}, !.granted = a,
                      !.pc = IF Reward[a] > 0 THEN "rereadStats" ELSE "delRewarded"]
  OBVIOUS
<1>4. /\ x.pc = (IF Reward[a] > 0 THEN "rereadStats" ELSE "delRewarded")
      /\ x.caller = req[r].caller /\ x.granted = a
      /\ x.user = w /\ x.problem = req[r].problem /\ x.verdict = req[r].verdict
      /\ x.total = None /\ x.correct = None /\ x.had = None /\ x.todo = req[r].todo \ {a}
  BY <1>x, <1>2, <1>3 DEF Request
<1>5. /\ req' = [req EXCEPT ![r] = x] /\ Replaced(r, x) /\ req'[r] = x
      /\ \A q \in Reqs \ {r} : req'[q] = req[q]
  BY <1>a, <1>x, <1>4 DEF Replaced, IInv, TypeOK
<1>6. /\ a \in Achievements /\ Reward[a] \in Nat /\ a \notin earned[w]
      /\ earned'[w] = earned[w] \cup {a} /\ \A u \in Users \ {w} : earned'[u] = earned[u]
      /\ earned[w] \in SUBSET Achievements
  BY <1>2, <1>3, <1>a, RewardTyped DEF IInv, TypeOK, Request
<1>7. Paid(w) = earned[w] /\ Paid(w)' = IF Reward[a] > 0 THEN earned[w] ELSE earned[w] \cup {a}
  <2>1. \A q \in Reqs \ {r} : req[q].pc \notin Awaits /\ req'[q].pc \notin Awaits
    BY <1>2, <1>5 DEF InFlight
  <2>2. ~Owes(req[r]) /\ (Owes(req'[r]) <=> Reward[a] > 0) /\ req'[r].user = w /\ req'[r].granted = a
    BY <1>1, <1>4, <1>5 DEF Owes
  <2>3. Owed(req, w) = {} /\ Owed(req', w) = IF Reward[a] > 0 THEN {a} ELSE {}
    BY <2>1, <2>2, PaidBut
  <2>4. Paid(w) = earned[w] \ Owed(req, w) /\ Paid(w)' = earned'[w] \ Owed(req', w)
    BY DEF Paid, Owed, Owes
  <2>5. QED
    BY <1>6, <2>3, <2>4
<1>8. XpOf(Paid(w))' = XpOf(Paid(w))
  <2> PICK S : S = earned[w]
    OBVIOUS
  <2>1. IsFiniteSet(S) /\ Numbers(Reward, S) /\ a \notin S
    BY <1>6, AchievementsFinite, RewardTyped, FS_Subset DEF Numbers
  <2>2. Total(Reward, S) \in Nat /\ Total(Reward, S \cup {a}) = Total(Reward, S) + Reward[a]
    BY <1>6, <2>1, TotalAdd, TotalNat
  <2>3. Total(Reward, Paid(w)') = Total(Reward, Paid(w))
    BY <1>6, <1>7, <2>2
  <2>4. QED
    BY <2>3, RewardTotal
<1>9. StatsExact'
  <2>1. Counted(w)' = Counted(w) /\ CountedXp(w)' = CountedXp(w)
    <3>1. UNCHANGED countedOn
      BY <1>1 DEF history
    <3>2. QED
      BY <1>5, <1>8, <3>1, SameSets DEF CountedXp
  <2>2. r \in Counted(w)
    BY <1>3 DEF Counted
  <2>3. stats'[w] # None /\ stats'[w].totalProblemsSolved = Cardinality(Counted(w)')
        /\ stats'[w].totalXp = CountedXp(w)'
    BY <1>1, <1>2, <2>1, <2>2 DEF EInv, StatsExact
  <2>4. /\ \A q \in Reqs \ {r} : countedOn'[q] = countedOn[q]
        /\ \A u \in Users \ {w} : stats'[u] = stats[u] /\ earned'[u] = earned[u]
    BY <1>1, <1>6 DEF history
  <2>5. Replaced(r, x) /\ w \in Users /\ req[r].user = w /\ x.user = w
    BY <1>2, <1>4, <1>5
  <2>6. QED
    BY <2>3, <2>4, <2>5, StatsFor
<1>10. NumbersExact' /\ SolveExact' /\ ProgressExact' /\ CachedExact'
  <2>1. Holds(r, x)
    BY <1>1 DEF Holds, At
  <2>2. QED
    BY <1>1, <1>5, <2>1, ExactKeep DEF history
<1>11. Written(r)'
  BY <1>1, <1>2, <1>3, <1>4, <1>5 DEF Written, BeforeProgress, BeforeStats, history
<1>12. Fresh(x)'
  <2>1. x.todo \cap earned'[x.user] = {}
    BY <1>3, <1>4, <1>6
  <2>2. x.pc \in {"rereadStats", "delRewarded"}
    BY <1>4
  <2>3. QED
    BY <1>4, <2>1, <2>2 DEF Fresh
<1>13. QED
  BY <1>1, <1>5, <1>9, <1>10, <1>11, <1>12, ExactAssemble DEF history

\* What is owed is paid once, on top of the row as it is.
LEMMA PaidExact == ASSUME IInv, IInv', EInv, NEW r \in Reqs, PayReward(r) PROVE EInv'
<1> PICK w : w = req[r].user
  OBVIOUS
<1> PICK a : a = req[r].granted
  OBVIOUS
<1>x. PICK x : x = [req[r] EXCEPT !.seen = None, !.pc = "delRewarded"]
  OBVIOUS
<1>st. PICK st : st = [req[r].seen EXCEPT !.totalXp = req[r].seen.totalXp + Reward[a],
                         !.level = Level(req[r].seen.totalXp + Reward[a]), !.day = today]
  OBVIOUS
<1>1. /\ InFlight(r) /\ req[r].pc = "payReward" /\ req' = [req EXCEPT ![r] = x]
      /\ stats' = [stats EXCEPT ![w] = st]
      /\ UNCHANGED <<number, solve, progress, earned, cached, history>>
  BY <1>x, <1>st DEF PayReward, InFlight, At, Awaits
<1>2. /\ req[r] \in Request /\ Begun(req[r]) /\ Accounted(r, req[r]) /\ Written(r) /\ Fresh(req[r])
      /\ w \in Users /\ \A q \in Reqs \ {r} : ~InFlight(q)
  BY <1>1, Flying
<1>3. /\ req[r].total = None /\ req[r].correct = None /\ req[r].had = None
      /\ req[r].seen = stats[w] /\ stats[w] \in Stats /\ stats[w] # None
      /\ a \in Achievements /\ Reward[a] \in Nat /\ a \in earned[w]
      /\ earned[w] \in SUBSET Achievements
  <2>1. /\ req[r].total = None /\ req[r].correct = None /\ req[r].had = None
        /\ req[r].seen = stats[w] /\ stats[w] \in Stats /\ a \in Achievements
    BY <1>1, <1>2 DEF Begun, Fresh, Owes
  <2>2. a \in earned[w] /\ earned[w] \in SUBSET Achievements
    BY <1>1, <1>2 DEF IInv, TypeOK, Owes
  <2>3. QED
    BY <2>1, <2>2, RewardTyped, NoneIsNoRow
<1>4. /\ x.pc = "delRewarded" /\ x.caller = req[r].caller
      /\ x.user = w /\ x.problem = req[r].problem /\ x.verdict = req[r].verdict
      /\ x.total = None /\ x.correct = None /\ x.had = None /\ x.todo = req[r].todo
  BY <1>x, <1>2, <1>3 DEF Request
<1>5. /\ Replaced(r, x) /\ req'[r] = x /\ \A q \in Reqs \ {r} : req'[q] = req[q]
      /\ stats'[w] = st /\ \A u \in Users \ {w} : stats'[u] = stats[u]
  BY <1>1, <1>2, <1>4 DEF Replaced, IInv, TypeOK
<1>6. Paid(w) = earned[w] \ {a} /\ Paid(w)' = earned[w]
  <2>1. \A q \in Reqs \ {r} : req[q].pc \notin Awaits /\ req'[q].pc \notin Awaits
    BY <1>2, <1>5 DEF InFlight
  <2>2. Owes(req[r]) /\ ~Owes(req'[r])
    BY <1>1, <1>4, <1>5 DEF Owes
  <2>3. Owed(req, w) = {a} /\ Owed(req', w) = {}
    BY <2>1, <2>2, PaidBut
  <2>4. Paid(w) = earned[w] \ Owed(req, w) /\ Paid(w)' = earned'[w] \ Owed(req', w)
    BY DEF Paid, Owed, Owes
  <2>5. QED
    BY <1>1, <2>3, <2>4
<1>7. XpOf(Paid(w))' = XpOf(Paid(w)) + Reward[a] /\ XpOf(Paid(w)) \in Nat
  <2> PICK S : S = earned[w]
    OBVIOUS
  <2>1. IsFiniteSet(S) /\ Numbers(Reward, S) /\ a \in S
    BY <1>3, AchievementsFinite, RewardTyped, FS_Subset DEF Numbers
  <2>2. Total(Reward, S) = Reward[a] + Total(Reward, S \ {a}) /\ Total(Reward, S \ {a}) \in Nat
    BY <2>1, TotalOne, TotalNat
  <2>3. Total(Reward, Paid(w)') = Total(Reward, Paid(w)) + Reward[a] /\ Total(Reward, Paid(w)) \in Nat
    BY <1>3, <1>6, <2>2
  <2>4. QED
    BY <2>3, RewardTotal
<1>8. Counted(w)' = Counted(w) /\ CountedXp(w)' = CountedXp(w) + Reward[a]
  <2>1. /\ Counted(w)' = Counted(w)
        /\ WithVerdict(Counted(w), {"right"})' = WithVerdict(Counted(w), {"right"})
        /\ WithVerdict(Counted(w), {"wrong"})' = WithVerdict(Counted(w), {"wrong"})
    <3>1. UNCHANGED countedOn
      BY <1>1 DEF history
    <3>2. QED
      BY <1>5, <3>1, SameSets
  <2>2. /\ Cardinality(WithVerdict(Counted(w), {"right"})) \in Nat
        /\ Cardinality(WithVerdict(Counted(w), {"wrong"})) \in Nat
    <3>1. /\ WithVerdict(Counted(w), {"right"}) \in SUBSET Reqs
          /\ WithVerdict(Counted(w), {"wrong"}) \in SUBSET Reqs
      BY DEF WithVerdict, Counted
    <3>2. QED
      BY <3>1, Inside DEF Fits
  <2>3. QED
    BY <1>3, <1>7, <2>1, <2>2 DEF CountedXp
<1>9. StatsExact'
  <2>1. stats[w].totalProblemsSolved = Cardinality(Counted(w)) /\ stats[w].totalXp = CountedXp(w)
    BY <1>2, <1>3 DEF EInv, StatsExact
  <2>2. /\ st.totalProblemsSolved = stats[w].totalProblemsSolved
        /\ st.totalXp = stats[w].totalXp + Reward[a]
    BY <1>st, <1>3 DEF Stats
  <2>3. st # None
    <3>1. st \in Stats
      <4>1. today \in Nat /\ stats[w].totalXp \in Nat
        BY <1>3, BoundsTyped DEF IInv, TypeOK, Stats
      <4>2. Level(stats[w].totalXp + Reward[a]) \in Nat /\ stats[w].totalXp + Reward[a] \in Nat
        BY <1>3, <4>1 DEF Level
      <4>3. QED
        BY <1>st, <1>3, <4>1, <4>2 DEF Stats
    <3>2. QED
      BY <3>1, NoneIsNoRow
  <2>4. stats'[w] # None /\ stats'[w].totalProblemsSolved = Cardinality(Counted(w)')
        /\ stats'[w].totalXp = CountedXp(w)'
    BY <1>5, <1>8, <2>1, <2>2, <2>3
  <2>5. /\ \A q \in Reqs \ {r} : countedOn'[q] = countedOn[q]
        /\ \A u \in Users \ {w} : stats'[u] = stats[u] /\ earned'[u] = earned[u]
    BY <1>1, <1>5 DEF history
  <2>6. Replaced(r, x) /\ w \in Users /\ req[r].user = w /\ x.user = w
    BY <1>2, <1>4, <1>5
  <2>7. QED
    BY <2>4, <2>5, <2>6, StatsFor
<1>10. CachedExact'
  <2>1. /\ \A u \in Users \ {w} : stats'[u] = stats[u] /\ cached'[u] = cached[u]
        /\ x.pc \in {"delStats", "delRewarded"} /\ x.user = w
    BY <1>1, <1>4, <1>5
  <2>2. Replaced(r, x) /\ InFlight(r) /\ w \in Users /\ req[r].user = w
    BY <1>1, <1>2, <1>5
  <2>3. QED
    BY <2>1, <2>2, CachedFor
<1>11. NumbersExact' /\ SolveExact' /\ ProgressExact'
  <2>1. Holds(r, x)
    BY <1>1 DEF Holds, At
  <2>2. QED
    BY <1>1, <1>5, <2>1, ExactKeep DEF history
<1>12. Written(r)'
  BY <1>1, <1>2, <1>4, <1>5 DEF Written, BeforeProgress, BeforeStats, history
<1>13. Fresh(x)'
  BY <1>1, <1>2, <1>4 DEF Fresh
<1>14. QED
  BY <1>1, <1>5, <1>9, <1>10, <1>11, <1>12, <1>13, ExactAssemble DEF history

\* The surroundings touch nothing but the cache and the day.
LEMMA AroundExact ==
  ASSUME EInv, UNCHANGED <<db, req, history>>, \A u \in Users : cached'[u] \in {None, cached[u]}
  PROVE  EInv'
<1>1. UNCHANGED <<number, solve, progress, stats, earned, req, progressed, countedOn>>
  BY DEF db, history
<1>2. Alone' /\ \A r \in Reqs : Written(r)' /\ (InFlight(r)' => Fresh(req[r])')
  <2>1. Alone'
    BY <1>1 DEF EInv, Alone, InFlight
  <2>2. ASSUME NEW r \in Reqs PROVE Written(r)' /\ (InFlight(r)' => Fresh(req[r])')
    <3>1. Written(r)'
      BY <1>1 DEF EInv, Written
    <3>2. InFlight(r) => Fresh(req[r])
      BY DEF EInv
    <3>3. InFlight(r)' => Fresh(req[r])'
      BY <1>1, <3>2 DEF InFlight, Fresh, AttemptsAt, AttemptsOf, AttemptsOn, Attempts, WithVerdict
    <3>4. QED
      BY <3>1, <3>3
  <2>3. QED
    BY <2>1, <2>2
<1>3. NumbersExact' /\ SolveExact' /\ ProgressExact'
  <2>1. NumbersExact'
    BY <1>1 DEF EInv, NumbersExact, AttemptsAt, AttemptsOf, Attempts
  <2>2. SolveExact'
    BY <1>1 DEF EInv, SolveExact, At, AttemptsOn, Attempts, WithVerdict
  <2>3. ProgressExact'
    <3>1. ASSUME NEW u, NEW t, NEW V PROVE Progressed(u, t, V)' = Progressed(u, t, V)
      BY <1>1 DEF Progressed, WithVerdict, Topic
    <3>2. QED
      BY <1>1, <3>1 DEF EInv, ProgressExact
  <2>4. QED
    BY <2>1, <2>2, <2>3
<1>4. StatsExact'
  <2>1. ASSUME NEW u \in Users PROVE CountedXp(u)' = CountedXp(u) /\ Counted(u)' = Counted(u)
    <3>1. Counted(u)' = Counted(u)
      BY <1>1 DEF Counted
    <3>2. /\ WithVerdict(Counted(u), {"right"})' = WithVerdict(Counted(u), {"right"})
          /\ WithVerdict(Counted(u), {"wrong"})' = WithVerdict(Counted(u), {"wrong"})
      BY <1>1, <3>1 DEF WithVerdict
    <3>3. Paid(u)' = Paid(u)
      BY <1>1 DEF Paid, Owes
    <3>4. XpOf(Paid(u))' = XpOf(Paid(u))
      BY <3>3, RewardTotal
    <3>5. QED
      BY <3>1, <3>2, <3>4 DEF CountedXp
  <2>2. QED
    BY <1>1, <2>1 DEF EInv, StatsExact
<1>5. CachedExact'
  BY <1>1 DEF EInv, CachedExact
<1>6. QED
  BY <1>2, <1>3, <1>4, <1>5 DEF EInv

\* At the start there is nothing to be wrong about.
LEMMA InitExact == ASSUME Init PROVE EInv
<1>1. \A r \in Reqs : /\ req[r].pc = "new" /\ req[r].caller = "submit" /\ number[r] = 0
                      /\ countedOn[r] = 0 /\ ~InFlight(r) /\ ~Owes(req[r])
  BY DEF Init, Blank, InFlight, Awaits, Owes
<1>2. Alone /\ \A r \in Reqs : Written(r) /\ (InFlight(r) => Fresh(req[r]))
  BY <1>1 DEF Alone, Written
<1>3. /\ Attempts = {} /\ \A u : Counted(u) = {}
      /\ \A u, t, V : Progressed(u, t, V) = {}
  BY <1>1 DEF Init, Attempts, Counted, Progressed, WithVerdict
<1>4. Cardinality({}) = 0
  BY FS_EmptySet
<1>5. NumbersExact
  <2>1. ASSUME NEW u \in Users, NEW p \in Problems
        PROVE  {number[r] : r \in AttemptsAt(u, p)} = 1..Cardinality(AttemptsAt(u, p))
    <3>1. AttemptsAt(u, p) = {}
      BY <1>3 DEF AttemptsAt, AttemptsOf
    <3>2. QED
      BY <1>4, <3>1
  <2>2. QED
    BY <2>1 DEF NumbersExact
<1>6. SolveExact
  <2>1. ASSUME NEW p \in Problems
        PROVE  solve[p] = [solveCount |-> Cardinality(AttemptsOn(p)),
                           correct |-> Cardinality(WithVerdict(AttemptsOn(p), {"right"}))]
    <3>1. AttemptsOn(p) = {} /\ WithVerdict(AttemptsOn(p), {"right"}) = {}
      BY <1>3 DEF AttemptsOn, WithVerdict
    <3>2. QED
      BY <1>4, <3>1 DEF Init
  <2>2. QED
    BY <2>1 DEF SolveExact
<1>7. ProgressExact
  BY <1>3, <1>4 DEF Init, ProgressExact, NoProgress
<1>8. StatsExact /\ CachedExact
  BY <1>3 DEF Init, StatsExact, CachedExact
<1>9. QED
  BY <1>2, <1>5, <1>6, <1>7, <1>8 DEF EInv

\* Every step of a request keeps the figures exact.
LEMMA StepExact == ASSUME Calm, IInv, IInv', EInv, NEW r \in Reqs, Step(r) PROVE EInv'
<1>1. CASE CountByUserAndProblem(r) \/ CreateAttempt(r)
  BY <1>1, CountExact, CreateExact
<1>2. CASE CountTotal(r) \/ CountCorrect(r) \/ UpdateProblemStats(r)
  BY <1>2, TotalExact, CorrectExact, SolveWritten
<1>3. CASE ReadProgress(r) \/ UpsertProgress(r)
  BY <1>3, ProgressReadExact, ProgressWritten
<1>4. CASE GetStats(r) \/ FindStats(r) \/ UpsertZeroStats(r) \/ FillStats(r)
  BY <1>4, HitExact, FoundExact, ZeroExact, FillExact
<1>5. CASE UpsertStats(r) \/ DelStats(r)
  BY <1>5, StatsWritten, DroppedExact
<1>6. CASE FindEarned(r) \/ Evaluate(r) \/ Grant(r)
  BY <1>6, EarnedExact, EvaluateExact, GrantExact
<1>7. CASE RereadStats(r) \/ PayReward(r) \/ DelRewarded(r)
  BY <1>7, RereadExact, PaidExact, RoundExact
<1>8. QED
  BY <1>1, <1>2, <1>3, <1>4, <1>5, <1>6, <1>7 DEF Step

\* Every step does.
LEMMA NextExact == ASSUME Calm, IInv, EInv, [Next]_vars PROVE EInv'
<1>0. IInv'
  BY NextKeeps
<1>1. ASSUME NEW r \in Reqs, Start(r) PROVE EInv'
  BY <1>0, <1>1, SubmitExact, GetMyStatsExact DEF Start
<1>2. ASSUME NEW r \in Reqs, Step(r) PROVE EInv'
  BY <1>0, <1>2, StepExact
<1>3. ASSUME NEW r \in Reqs PROVE ~Die(r)
  BY DEF Die, Calm
<1>4. ASSUME NEW u \in Users, StatsExpire(u) PROVE EInv'
  <2>1. UNCHANGED <<db, req, history>> /\ \A v \in Users : cached'[v] \in {None, cached[v]}
    BY <1>4 DEF StatsExpire, IInv, TypeOK
  <2>2. QED
    BY <2>1, AroundExact
<1>5. CASE NextDay \/ UNCHANGED vars
  <2>1. UNCHANGED <<db, req, history>> /\ \A v \in Users : cached'[v] \in {None, cached[v]}
    BY <1>5 DEF NextDay, vars
  <2>2. QED
    BY <2>1, AroundExact
<1>6. QED
  BY <1>1, <1>2, <1>3, <1>4, <1>5 DEF Next, NotFound

\* Between requests nothing is left to write: what is counted are the attempts,
\* what is paid the achievements.
LEMMA RestExact == ASSUME IInv, EInv, AtRest, NEW u \in Users
  PROVE  /\ Counted(u) = AttemptsOf(u) /\ Paid(u) = earned[u] /\ CountedXp(u) = EarnedXp(u)
         /\ \A t \in Topics, V \in SUBSET {"right", "wrong"} :
              Progressed(u, t, V) = WithVerdict({r \in AttemptsOf(u) : Topic(r) = t}, V)
<1>1. \A r \in Reqs : req[r].pc \notin BeforeStats /\ ~Owes(req[r]) /\ req[r].pc \notin BeforeProgress
  BY DEF AtRest, InFlight, Awaits, BeforeStats, BeforeProgress, Owes
<1>2. \A r \in Reqs : (number[r] # 0 <=> countedOn[r] # 0)
  BY <1>1 DEF EInv, Written, IInv, Accounted
<1>3. \A r \in Reqs : (number[r] # 0 /\ req[r].verdict # "ungraded" <=> r \in progressed)
  BY <1>1 DEF EInv, Written, IInv, Accounted
<1>4. Counted(u) = AttemptsOf(u)
  BY <1>2 DEF Counted, AttemptsOf, Attempts
<1>5. Paid(u) = earned[u]
  BY <1>1 DEF Paid
<1>6. CountedXp(u) = EarnedXp(u)
  BY <1>4, <1>5 DEF CountedXp, EarnedXp
<1>7. ASSUME NEW t \in Topics, NEW V \in SUBSET {"right", "wrong"}
      PROVE  Progressed(u, t, V) = WithVerdict({r \in AttemptsOf(u) : Topic(r) = t}, V)
  <2>1. \A r \in progressed : r \in Reqs
    BY DEF IInv, TypeOK
  <2>2. QED
    BY <1>3, <2>1 DEF Progressed, WithVerdict, AttemptsOf, Attempts
<1>8. QED
  BY <1>4, <1>5, <1>6, <1>7

\* Where submissions come one at a time, the cache does not fail and no request
\* dies, then between requests every figure the pipeline derives is exactly what
\* the attempts and achievements add up to: attempts are numbered without a gap,
\* the problems' statistics, the progress rows and the users' attempts, XP and
\* level are those of the rows behind them, and a cached copy is that of the row.
THEOREM ExactHolds ==
  ASSUME MaxInFlight = 1, CacheMayFail = FALSE, RequestsMayDie = FALSE
  PROVE  Spec => []ExactAtRest
<1>1. Calm
  BY DEF Calm
<1>2. Init => EInv
  BY InitExact
<1>3. IInv /\ EInv /\ [Next]_vars => EInv'
  BY <1>1, NextExact
<1>4. ASSUME IInv, EInv, AtRest
      PROVE  /\ NumbersExact
             /\ \A p \in Problems :
                  solve[p] = [solveCount |-> Cardinality(AttemptsOn(p)),
                              correct |-> Cardinality(WithVerdict(AttemptsOn(p), {"right"}))]
             /\ \A u \in Users : cached[u] \in {None, stats[u]}
  BY <1>4 DEF EInv, SolveExact, CachedExact, AtRest, InFlight, Awaits, At
<1>5. ASSUME IInv, EInv, AtRest, NEW u \in Users, NEW t \in Topics
      PROVE  LET on == {r \in AttemptsOf(u) : Topic(r) = t}
             IN progress[<<u, t>>] =
                  [problemsSolved |-> Cardinality(WithVerdict(on, {"right", "wrong"})),
                   correctCount |-> Cardinality(WithVerdict(on, {"right"}))]
  <2> DEFINE on == {r \in AttemptsOf(u) : Topic(r) = t}
  <2>1. /\ Progressed(u, t, {"right", "wrong"}) = WithVerdict(on, {"right", "wrong"})
        /\ Progressed(u, t, {"right"}) = WithVerdict(on, {"right"})
    BY <1>5, RestExact
  <2> HIDE DEF on
  <2>2. progress[<<u, t>>] = [problemsSolved |-> Cardinality(WithVerdict(on, {"right", "wrong"})),
                              correctCount |-> Cardinality(WithVerdict(on, {"right"}))]
    BY <1>5, <2>1 DEF EInv, ProgressExact
  <2>3. QED
    BY <2>2 DEF on
<1>6. ASSUME IInv, EInv, AtRest, NEW u \in Users, AttemptsOf(u) # {}
      PROVE  stats[u] # None /\ \A f \in Known \ {"currentStreak"} : stats[u][f] = Real(u)[f]
  <2>1. Counted(u) = AttemptsOf(u) /\ CountedXp(u) = EarnedXp(u)
    BY <1>6, RestExact
  <2>2. stats[u] # None
    BY <1>6, <2>1 DEF EInv, StatsExact
  <2>3. stats[u].totalProblemsSolved = Cardinality(AttemptsOf(u)) /\ stats[u].totalXp = EarnedXp(u)
    BY <1>6, <2>1, <2>2 DEF EInv, StatsExact
  <2>4. stats[u].level = Level(EarnedXp(u))
    BY <1>6, <2>2, <2>3 DEF IInv, SoundFor, Sound
  <2>5. QED
    BY <2>2, <2>3, <2>4 DEF Known, Real
<1>7. IInv /\ EInv => ExactAtRest
  BY <1>4, <1>5, <1>6 DEF ExactAtRest, NumbersExact
<1>8. QED
  BY <1>2, <1>3, <1>7, Invariance, PTL DEF Spec

-----------------------------------------------------------------------------
(* The calls of a request run out, whatever overlaps, fails or dies.         *)

\* A request comes to its loop with something to grant, and judges for itself.
Loops(x) == (x.pc = "grant" => x.todo # {}) /\ (x.pc = "evaluate" => x.caller = "check")
Looping == \A r \in Reqs : Loops(req[r])

\* A request that moved made a call, and what it may do next is less.
Spent(r) ==
  /\ req' = [req EXCEPT ![r] = req'[r]]
  /\ Loops(req'[r])
  /\ CallsLeft(req'[r]) < CallsLeft(req[r])

\* The loops the measure counts are numbers, the rounds still to go at most all of them.
LEMMA RoundsType ==
  ASSUME NEW S \in SUBSET Achievements
  PROVE  /\ Cardinality(Achievements) \in Nat /\ Cardinality(S) \in Nat
         /\ Cardinality(S) <= Cardinality(Achievements)
BY AchievementsFinite, FS_Subset, FS_CardinalityType

\* What follows once findStatsByUserId has returned.
Onward(x) ==
  LET loop == 4 * Cardinality(Achievements)
  IN CASE x.caller = "submit" -> loop + 8
       [] x.caller = "check" -> loop + 1 + (IF x.had = None THEN 1 ELSE 0)
       [] OTHER -> 0

\* It is a number.
LEMMA OnwardType == ASSUME NEW x PROVE Onward(x) \in Nat
BY RoundsType DEF Onward

\* The measure, place by place.
LEMMA Measure ==
  ASSUME NEW x
  PROVE  LET loop == 4 * Cardinality(Achievements)
             rounds == 4 * Cardinality(x.todo)
             pending(v) == IF v = None THEN 1 ELSE 0
         IN /\ x.pc = "count" => CallsLeft(x) = loop + 19
            /\ x.pc = "create" => CallsLeft(x) = loop + 18
            /\ x.pc = "problemStats" =>
                 CallsLeft(x) = loop + 15 + pending(x.total) + pending(x.correct)
            /\ x.pc = "readProgress" => CallsLeft(x) = loop + 14
            /\ x.pc = "upsertProgress" => CallsLeft(x) = loop + 13
            /\ x.pc = "upsertStats" => CallsLeft(x) = loop + 8
            /\ x.pc = "delStats" => CallsLeft(x) = loop + 7
            /\ x.pc = "grant" => CallsLeft(x) = rounds
            /\ x.pc = "rereadStats" => CallsLeft(x) = rounds + 3
            /\ x.pc = "payReward" => CallsLeft(x) = rounds + 2
            /\ x.pc = "delRewarded" => CallsLeft(x) = rounds + 1
            /\ x.pc \in Ended => CallsLeft(x) = 0
            /\ x.pc = "getStats" => CallsLeft(x) = 4 + Onward(x)
            /\ x.pc = "findStats" => CallsLeft(x) = 3 + Onward(x)
            /\ x.pc = "zeroStats" => CallsLeft(x) = 2 + Onward(x)
            /\ x.pc = "fillStats" => CallsLeft(x) = 1 + Onward(x)
            /\ x.pc = "evaluate" => CallsLeft(x) = Onward(x)
BY RoundsType DEF CallsLeft, Onward, Ended

\* submit, up to the stats.
LEMMA SubmitSpends ==
  ASSUME IInv, NEW r \in Reqs,
         \/ CountByUserAndProblem(r) \/ CreateAttempt(r) \/ CountTotal(r) \/ CountCorrect(r)
         \/ UpdateProblemStats(r) \/ ReadProgress(r) \/ UpsertProgress(r)
  PROVE  Spent(r)
<1> DEFINE x == req[r]
           y == req'[r]
           loop == 4 * Cardinality(Achievements)
<1>1. x \in Request /\ req \in [Reqs -> Request] /\ Begun(x) /\ loop \in Nat
  BY RoundsType DEF IInv, TypeOK
<1>2. CASE CountByUserAndProblem(r)
  <2>1. x.pc = "count" /\ y.pc = "create" /\ req' = [req EXCEPT ![r] = y]
    BY <1>1, <1>2 DEF CountByUserAndProblem, At, Request
  <2>2. CallsLeft(x) = loop + 19 /\ CallsLeft(y) = loop + 18
    BY <2>1, Measure
  <2>3. QED
    BY <1>1, <2>1, <2>2 DEF Spent, Loops
<1>3. CASE CreateAttempt(r)
  <2>1. /\ x.pc = "create" /\ y.pc = "problemStats" /\ req' = [req EXCEPT ![r] = y]
        /\ y.total = x.total /\ y.correct = x.correct
    BY <1>1, <1>3 DEF CreateAttempt, At, Request
  <2>2. CallsLeft(x) = loop + 18 /\ CallsLeft(y) <= loop + 17
    BY <1>1, <2>1, Measure
  <2>3. QED
    BY <1>1, <2>1, <2>2, Measure DEF Spent, Loops
<1>4. CASE CountTotal(r)
  <2>1. /\ x.pc = "problemStats" /\ y.pc = "problemStats" /\ req' = [req EXCEPT ![r] = y]
        /\ x.total = None /\ y.total \in Nat /\ y.correct = x.correct
    <3>1. Cardinality(AttemptsOn(x.problem)) \in Nat
      BY Inside DEF AttemptsOn, Attempts, Fits
    <3>2. QED
      BY <1>1, <1>4, <3>1 DEF CountTotal, At, Request
  <2>2. CallsLeft(y) < CallsLeft(x)
    BY <1>1, <2>1, NoneIsFresh, Measure
  <2>3. QED
    BY <2>1, <2>2 DEF Spent, Loops
<1>5. CASE CountCorrect(r)
  <2>1. /\ x.pc = "problemStats" /\ y.pc = "problemStats" /\ req' = [req EXCEPT ![r] = y]
        /\ x.correct = None /\ y.correct \in Nat /\ y.total = x.total
    <3>1. Cardinality(WithVerdict(AttemptsOn(x.problem), {"right"})) \in Nat
      BY Inside DEF AttemptsOn, Attempts, WithVerdict, Fits
    <3>2. QED
      BY <1>1, <1>5, <3>1 DEF CountCorrect, At, Request
  <2>2. CallsLeft(y) < CallsLeft(x)
    BY <1>1, <2>1, NoneIsFresh, Measure
  <2>3. QED
    BY <2>1, <2>2 DEF Spent, Loops
<1>6. CASE UpdateProblemStats(r)
  <2>1. /\ x.pc = "problemStats" /\ y.pc \in {"getStats", "readProgress"}
        /\ req' = [req EXCEPT ![r] = y] /\ y.caller = "submit"
    BY <1>1, <1>6 DEF UpdateProblemStats, At, Request, Begun, BeforeProgress
  <2>2. CallsLeft(x) >= loop + 15 /\ CallsLeft(y) <= loop + 14
    BY <1>1, <2>1, Measure DEF Onward
  <2>3. QED
    BY <1>1, <2>1, <2>2, Measure, OnwardType DEF Spent, Loops
<1>7. CASE ReadProgress(r)
  <2>1. x.pc = "readProgress" /\ y.pc = "upsertProgress" /\ req' = [req EXCEPT ![r] = y]
    BY <1>1, <1>7 DEF ReadProgress, At, Request
  <2>2. CallsLeft(x) = loop + 14 /\ CallsLeft(y) = loop + 13
    BY <2>1, Measure
  <2>3. QED
    BY <1>1, <2>1, <2>2 DEF Spent, Loops
<1>8. CASE UpsertProgress(r)
  <2>1. /\ x.pc = "upsertProgress" /\ y.pc = "getStats" /\ req' = [req EXCEPT ![r] = y]
        /\ y.caller = "submit"
    BY <1>1, <1>8 DEF UpsertProgress, At, Request, Begun, BeforeProgress
  <2>2. CallsLeft(x) = loop + 13 /\ CallsLeft(y) = 4 + (loop + 8)
    BY <2>1, Measure DEF Onward
  <2>3. QED
    BY <1>1, <2>1, <2>2 DEF Spent, Loops
<1>9. QED
  BY <1>2, <1>3, <1>4, <1>5, <1>6, <1>7, <1>8

\* What findStatsByUserId hands over is used next.
LEMMA ReturnedSpends ==
  ASSUME NEW x \in Request, NEW st, NEW y, y = Returned(x, st), x.pc \in {"getStats", "fillStats"}
  PROVE  Loops(y) /\ CallsLeft(y) < CallsLeft(x)
<1> DEFINE loop == 4 * Cardinality(Achievements)
<1>1. loop \in Nat
  BY RoundsType
<1>2. y.caller = x.caller /\ y.had = x.had
  BY DEF Returned, Request
<1>3. CASE x.caller = "submit"
  <2>1. y.pc = "upsertStats"
    BY <1>3 DEF Returned, Request
  <2>2. CallsLeft(y) = loop + 8 /\ CallsLeft(x) >= loop + 9
    BY <1>1, <1>3, <2>1, Measure DEF Onward
  <2>3. QED
    BY <1>1, <2>1, <2>2, <1>3, Measure, OnwardType DEF Loops
<1>4. CASE x.caller = "check"
  <2>1. y.pc = "evaluate"
    BY <1>4 DEF Returned, Request
  <2>2. CallsLeft(y) < CallsLeft(x)
    <3>1. Onward(y) = Onward(x) /\ CallsLeft(y) = Onward(y)
      BY <1>2, <2>1, Measure DEF Onward
    <3>2. QED
      BY <3>1, OnwardType, Measure
  <2>3. QED
    BY <1>2, <1>4, <2>1, <2>2 DEF Loops
<1>5. CASE x.caller = "controller"
  <2>1. y.pc = "done"
    BY <1>5 DEF Returned, Request
  <2>2. CallsLeft(y) = 0 /\ CallsLeft(x) >= 1
    BY <1>5, <2>1, Measure, OnwardType DEF Ended
  <2>3. QED
    BY <1>5, <2>1, <2>2, Measure, OnwardType DEF Loops
<1>6. QED
  BY <1>3, <1>4, <1>5 DEF Request, Callers

\* findStatsByUserId and the stats update.
LEMMA StatsSpend ==
  ASSUME IInv, NEW r \in Reqs,
         \/ GetStats(r) \/ FindStats(r) \/ UpsertZeroStats(r) \/ FillStats(r)
         \/ UpsertStats(r) \/ DelStats(r)
  PROVE  Spent(r)
<1> DEFINE x == req[r]
           y == req'[r]
           loop == 4 * Cardinality(Achievements)
<1>1. x \in Request /\ req \in [Reqs -> Request] /\ Begun(x) /\ loop \in Nat
  BY RoundsType DEF IInv, TypeOK
<1>2. CASE x.pc = "getStats" /\ req' = [req EXCEPT ![r].pc = "findStats"]
  <2>1. /\ x.pc = "getStats" /\ y.pc = "findStats" /\ req' = [req EXCEPT ![r] = y]
        /\ y.caller = x.caller /\ y.had = x.had
    BY <1>1, <1>2 DEF Request
  <2>2. CallsLeft(y) < CallsLeft(x)
    <3>1. Onward(y) = Onward(x)
      BY <2>1 DEF Onward
    <3>2. QED
      BY <2>1, <3>1, OnwardType, Measure
  <2>3. QED
    BY <2>1, <2>2 DEF Spent, Loops
<1>3. ASSUME NEW st, x.pc \in {"getStats", "fillStats"}, req' = [req EXCEPT ![r] = Returned(@, st)]
      PROVE  Spent(r)
  <2>1. y = Returned(x, st) /\ req' = [req EXCEPT ![r] = y]
    BY <1>1, <1>3
  <2>2. QED
    BY <1>1, <1>3, <2>1, ReturnedSpends DEF Spent
<1>4. CASE FindStats(r)
  <2>1. /\ x.pc = "findStats" /\ y.pc \in {"zeroStats", "fillStats"}
        /\ req' = [req EXCEPT ![r] = y] /\ y.caller = x.caller /\ y.had = x.had
    BY <1>1, <1>4 DEF FindStats, At, Request
  <2>2. CallsLeft(y) < CallsLeft(x)
    <3>1. Onward(y) = Onward(x)
      BY <2>1 DEF Onward
    <3>2. QED
      BY <2>1, <3>1, OnwardType, Measure
  <2>3. QED
    BY <2>1, <2>2 DEF Spent, Loops
<1>5. CASE UpsertZeroStats(r)
  <2>1. /\ x.pc = "zeroStats" /\ y.pc = "fillStats"
        /\ req' = [req EXCEPT ![r] = y] /\ y.caller = x.caller /\ y.had = x.had
    BY <1>1, <1>5 DEF UpsertZeroStats, At, Request
  <2>2. CallsLeft(y) < CallsLeft(x)
    <3>1. Onward(y) = Onward(x)
      BY <2>1 DEF Onward
    <3>2. QED
      BY <2>1, <3>1, OnwardType, Measure
  <2>3. QED
    BY <2>1, <2>2 DEF Spent, Loops
<1>6. CASE UpsertStats(r)
  <2>1. x.pc = "upsertStats" /\ y.pc = "delStats" /\ req' = [req EXCEPT ![r] = y]
    BY <1>1, <1>6 DEF UpsertStats, At, Request
  <2>2. CallsLeft(x) = loop + 8 /\ CallsLeft(y) = loop + 7
    BY <2>1, Measure
  <2>3. QED
    BY <1>1, <2>1, <2>2 DEF Spent, Loops
<1>7. CASE DelStats(r)
  <2>1. /\ x.pc = "delStats" /\ y.pc = "getStats" /\ req' = [req EXCEPT ![r] = y]
        /\ y.caller = "check"
    BY <1>1, <1>7 DEF DelStats, At, Request
  <2>2. CallsLeft(x) = loop + 7 /\ CallsLeft(y) <= loop + 6
    BY <1>1, <2>1, Measure DEF Onward
  <2>3. QED
    BY <1>1, <2>1, <2>2, Measure, OnwardType DEF Spent, Loops
<1>8. CASE GetStats(r)
  BY <1>2, <1>3, <1>8 DEF GetStats, At
<1>9. CASE FillStats(r)
  <2>1. x.pc = "fillStats" /\ req' = [req EXCEPT ![r] = Returned(@, x.seen)]
    BY <1>9 DEF FillStats, At
  <2>2. y = Returned(x, x.seen) /\ req' = [req EXCEPT ![r] = y]
    BY <1>1, <2>1
  <2>3. QED
    BY <1>1, <2>1, <2>2, ReturnedSpends DEF Spent
<1>10. QED
  BY <1>4, <1>5, <1>6, <1>7, <1>8, <1>9

\* checkAchievements: a round of the loop takes one achievement off the list, and
\* an error all of them.
LEMMA RoundsSpend ==
  ASSUME IInv, Looping, NEW r \in Reqs,
         FindEarned(r) \/ Evaluate(r) \/ Grant(r) \/ RereadStats(r) \/ PayReward(r) \/ DelRewarded(r)
  PROVE  Spent(r)
<1> DEFINE x == req[r]
           y == req'[r]
           loop == 4 * Cardinality(Achievements)
           rounds(q) == 4 * Cardinality(q.todo)
<1>1. x \in Request /\ req \in [Reqs -> Request] /\ loop \in Nat /\ Loops(x)
  BY RoundsType DEF IInv, TypeOK, Looping
<1>2. x.todo \in SUBSET Achievements /\ rounds(x) \in Nat /\ IsFiniteSet(x.todo)
  BY <1>1, RoundsType, AchievementsFinite, FS_Subset DEF Request
<1>3. CASE FindEarned(r)
  <2>1. /\ x.pc \in {"getStats", "findStats", "zeroStats", "fillStats", "evaluate"}
        /\ x.caller = "check" /\ x.had = None /\ y.pc = x.pc /\ y.caller = "check"
        /\ y.had = earned[x.user] /\ req' = [req EXCEPT ![r] = y]
    BY <1>1, <1>3 DEF FindEarned, At, Request
  <2>2. y.had # None
    <3>1. x.user \in Users
      BY <1>1, <2>1 DEF IInv, Begun
    <3>2. QED
      BY <2>1, <3>1, NoneIsNoSet DEF IInv, TypeOK
  <2>3. CallsLeft(y) < CallsLeft(x)
    <3>1. Onward(y) < Onward(x)
      BY <1>1, <2>1, <2>2 DEF Onward
    <3>2. QED
      BY <2>1, <3>1, OnwardType, Measure
  <2>4. QED
    BY <2>1, <2>3 DEF Spent, Loops
<1>4. CASE Evaluate(r)
  <2>1. /\ x.pc = "evaluate" /\ x.caller = "check" /\ y.todo \in SUBSET Achievements
        /\ y.pc = (IF y.todo = {} THEN "done" ELSE "grant") /\ req' = [req EXCEPT ![r] = y]
    BY <1>1, <1>4 DEF Evaluate, At, Request, Loops
  <2>2. CallsLeft(x) >= loop + 1
    BY <1>1, <2>1, Measure DEF Onward
  <2>3. CallsLeft(y) \in Nat /\ CallsLeft(y) <= loop
    BY <1>1, <2>1, RoundsType, Measure DEF Ended
  <2>4. CallsLeft(x) \in Nat
    BY <2>1, Measure, OnwardType
  <2>5. QED
    BY <1>1, <2>1, <2>2, <2>3, <2>4 DEF Spent, Loops
<1>5. CASE Grant(r)
  <2>1. PICK a \in x.todo :
          \/ /\ y.todo = x.todo \ {a} /\ y.pc \in {"rereadStats", "delRewarded"}
             /\ req' = [req EXCEPT ![r] = y]
          \/ y.pc = "failed" /\ req' = [req EXCEPT ![r] = y]
    <3>1. PICK a \in x.todo :
            \/ req' = [req EXCEPT ![r] = [@ EXCEPT !.todo = x.todo \ {a}, !.granted = a,
                        !.pc = IF Reward[a] > 0 THEN "rereadStats" ELSE "delRewarded"]]
            \/ req' = [req EXCEPT ![r] = [@ EXCEPT !.todo = {}, !.pc = "failed"]]
      BY <1>5 DEF Grant
    <3>2. CASE req' = [req EXCEPT ![r] = [@ EXCEPT !.todo = x.todo \ {a}, !.granted = a,
                        !.pc = IF Reward[a] > 0 THEN "rereadStats" ELSE "delRewarded"]]
      <4>1. y = [x EXCEPT !.todo = x.todo \ {a}, !.granted = a,
                        !.pc = IF Reward[a] > 0 THEN "rereadStats" ELSE "delRewarded"]
        BY <1>1, <3>2
      <4>2. y.todo = x.todo \ {a} /\ y.pc \in {"rereadStats", "delRewarded"}
        BY <1>1, <4>1 DEF Request
      <4>3. req' = [req EXCEPT ![r] = y]
        BY <1>1, <3>2, <4>1
      <4>4. QED
        BY <4>2, <4>3
    <3>3. CASE req' = [req EXCEPT ![r] = [@ EXCEPT !.todo = {}, !.pc = "failed"]]
      BY <1>1, <3>3 DEF Request
    <3>4. QED
      BY <3>1, <3>2, <3>3
  <2>2. x.pc = "grant" /\ CallsLeft(x) = rounds(x)
    BY <1>5, Measure DEF Grant, At
  <2>3. Cardinality(x.todo \ {a}) = Cardinality(x.todo) - 1 /\ Cardinality(x.todo) \in Nat
    BY <1>2, <2>1, FS_RemoveElement, FS_CardinalityType
  <2>4. Cardinality(x.todo \ {a}) \in Nat
    BY <1>2, RoundsType
  <2>5. CASE y.todo = x.todo \ {a} /\ y.pc \in {"rereadStats", "delRewarded"}
    <3>1. rounds(y) \in Nat /\ rounds(y) + 4 = rounds(x)
      BY <2>3, <2>4, <2>5
    <3>2. CallsLeft(y) \in {rounds(y) + 3, rounds(y) + 1}
      BY <2>5, Measure
    <3>3. CallsLeft(y) < CallsLeft(x)
      BY <2>2, <3>1, <3>2
    <3>4. QED
      BY <2>1, <2>5, <3>3 DEF Spent, Loops
  <2>6. CASE y.pc = "failed"
    <3>1. CallsLeft(y) = 0
      BY <2>6, Measure DEF Ended
    <3>2. rounds(x) > 0
      BY <2>3, <2>4
    <3>3. QED
      BY <2>1, <2>2, <2>6, <3>1, <3>2 DEF Spent, Loops
  <2>7. QED
    BY <2>1, <2>5, <2>6
<1>6. CASE RereadStats(r)
  <2>1. /\ x.pc = "rereadStats" /\ y.pc \in {"delRewarded", "payReward"} /\ y.todo = x.todo
        /\ req' = [req EXCEPT ![r] = y]
    BY <1>1, <1>6 DEF RereadStats, At, Request
  <2>2. CallsLeft(x) = rounds(x) + 3 /\ CallsLeft(y) \in {rounds(x) + 1, rounds(x) + 2}
    BY <2>1, Measure
  <2>3. QED
    BY <1>2, <2>1, <2>2 DEF Spent, Loops
<1>7. CASE PayReward(r)
  <2>1. /\ x.pc = "payReward" /\ y.pc = "delRewarded" /\ y.todo = x.todo
        /\ req' = [req EXCEPT ![r] = y]
    BY <1>1, <1>7 DEF PayReward, At, Request
  <2>2. CallsLeft(x) = rounds(x) + 2 /\ CallsLeft(y) = rounds(x) + 1
    BY <2>1, Measure
  <2>3. QED
    BY <1>2, <2>1, <2>2 DEF Spent, Loops
<1>8. CASE DelRewarded(r)
  <2>1. /\ x.pc = "delRewarded" /\ y.pc = (IF x.todo = {} THEN "done" ELSE "grant")
        /\ y.todo = x.todo /\ req' = [req EXCEPT ![r] = y]
    BY <1>1, <1>8 DEF DelRewarded, At, Request
  <2>2. CallsLeft(x) = rounds(x) + 1 /\ CallsLeft(y) \in {0, rounds(x)}
    BY <2>1, Measure DEF Ended
  <2>3. QED
    BY <1>2, <2>1, <2>2 DEF Spent, Loops
<1>9. QED
  BY <1>3, <1>4, <1>5, <1>6, <1>7, <1>8

\* Every step of the pipeline keeps Looping and spends a call of the request it moves.
LEMMA NextSpends ==
  ASSUME IInv, Looping, [Next]_vars
  PROVE  /\ Looping'
         /\ \A r \in Reqs : InFlight(r) /\ req'[r] # req[r] => CallsLeft(req'[r]) < CallsLeft(req[r])
<1>1. req \in [Reqs -> Request]
  BY DEF IInv, TypeOK
<1>2. ASSUME NEW r \in Reqs, Spent(r)
      PROVE  /\ Looping'
             /\ \A q \in Reqs : req'[q] # req[q] => CallsLeft(req'[q]) < CallsLeft(req[q])
  BY <1>1, <1>2 DEF Spent, Looping
<1>3. ASSUME NEW r \in Reqs, Step(r) PROVE Spent(r)
  BY <1>3, SubmitSpends, StatsSpend, RoundsSpend DEF Step
<1>4. ASSUME NEW r \in Reqs, Start(r)
      PROVE  /\ Looping'
             /\ \A q \in Reqs : InFlight(q) => req'[q] = req[q]
  <2>1. req[r].pc = "new"
    <3>1. req[r] = Blank
      BY <1>4 DEF Start, Submit, GetMyStats, MayStart
    <3>2. QED
      BY <3>1 DEF Blank
  <2>2. req'[r].pc \in {"count", "getStats"} /\ \A q \in Reqs : q # r => req'[q] = req[q]
    <3>1. ASSUME NEW u \in Users, NEW p \in Problems, NEW v \in Verdicts, Submit(r, u, p, v)
          PROVE  req'[r].pc = "count" /\ \A q \in Reqs : q # r => req'[q] = req[q]
      BY <1>1, <3>1 DEF Submit, Request
    <3>2. ASSUME NEW u \in Users, GetMyStats(r, u)
          PROVE  req'[r].pc = "getStats" /\ \A q \in Reqs : q # r => req'[q] = req[q]
      BY <1>1, <3>2 DEF GetMyStats, Request
    <3>3. QED
      BY <1>4, <3>1, <3>2 DEF Start
  <2>3. Loops(req'[r]) /\ ~InFlight(r)
    BY <2>1, <2>2 DEF Loops, InFlight, Awaits
  <2>4. QED
    BY <2>2, <2>3 DEF Looping
<1>5. ASSUME NEW r \in Reqs, Die(r) PROVE Spent(r)
  <2>1. req'[r].pc = "dead" /\ req' = [req EXCEPT ![r] = req'[r]] /\ req[r].pc \in Awaits
    BY <1>1, <1>5 DEF Die, Blank, InFlight
  <2>2. CallsLeft(req'[r]) = 0
    BY <2>1, Measure DEF Ended
  <2>3. CallsLeft(req[r]) > 0
    <3> DEFINE x == req[r]
    <3>1. /\ x \in Request /\ Loops(x) /\ x.todo \in SUBSET Achievements
          /\ Cardinality(Achievements) \in Nat /\ Cardinality(x.todo) \in Nat
      BY <1>1, RoundsType DEF Looping, Request
    <3>2. CASE x.pc = "grant"
      <4>1. Cardinality(x.todo) # 0
        BY <3>1, <3>2, AchievementsFinite, FS_Subset, FS_EmptySet DEF Loops
      <4>2. QED
        BY <3>1, <3>2, <4>1, Measure
    <3>3. CASE x.pc \in {"getStats", "findStats", "zeroStats", "fillStats", "evaluate"}
      BY <3>1, <3>3, OnwardType, Measure DEF Loops, Onward
    <3>4. CASE x.pc \in Awaits \ {"grant", "getStats", "findStats", "zeroStats", "fillStats", "evaluate"}
      BY <3>1, <3>4, Measure DEF Awaits
    <3>5. QED
      BY <2>1, <3>2, <3>3, <3>4
  <2>4. QED
    BY <2>1, <2>2, <2>3 DEF Spent, Loops
<1>6. CASE UNCHANGED req
  BY <1>6 DEF Looping
<1>7. QED
  BY <1>2, <1>3, <1>4, <1>5, <1>6 DEF Next, NotFound, NextDay, StatsExpire, vars

\* A submission and a look at the stats make a bounded number of calls, whatever the
\* requests beside them do, however many achievements there are and wherever a
\* process dies (achievement.service.ts:209-253).
THEOREM CallsRunOutHolds == Spec => CallsRunOut
<1>1. Init => Looping
  BY DEF Init, Looping, Loops, Blank
<1>2. IInv /\ Looping /\ [Next]_vars => Looping'
  BY NextSpends
<1>3. IInv /\ Looping /\ [Next]_vars =>
        [\A r \in Reqs : InFlight(r) /\ req'[r] # req[r] =>
           CallsLeft(req'[r]) < CallsLeft(req[r])]_vars
  BY NextSpends
<1>4. QED
  BY <1>1, <1>2, <1>3, Invariance, PTL DEF Spec, CallsRunOut
=============================================================================
