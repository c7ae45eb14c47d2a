-------------------------- MODULE ReadThroughProofs --------------------------
(***************************************************************************)
(* Proofs about ReadThrough, for any number of rows, processes and         *)
(* requests: no key serves another entry, every cached value was once its  *)
(* row's, and a stale copy has one of the causes StaleHasCause lists.      *)
(*                                                                         *)
(* The delicate case is the creation of a problem, which deletes no copy:  *)
(* it is sound because a fresh row has none, and that holds because        *)
(* nothing but its one creation writes the row before it is there.         *)
(***************************************************************************)
EXTENDS ReadThrough, TLAPS

Creating(r) == req[r].kind = "create" /\ req[r].pc = "write"

\* A row that can be found has been written.
LiveWritten == \A e \in Entries : e \in live /\ e.kind # "achievements" => row[e] > 0

\* What a request in flight has read, and what it writes.
ReqsOK ==
  \A r \in Reqs : LET e == req[r].entry IN
    /\ At(r, "set") => req[r].v <= row[e] /\ (e.kind # "achievements" => req[r].v > 0)
    /\ req[r].kind = "progress" => e.kind = "progress"
    /\ req[r].kind = "grant" => e.kind = "achievements"
    /\ Creating(r) => e.kind = "problem" /\ row[e] = 0
    /\ At(r, "findExisting") => req[r].kind # "create"

OneCreator ==
  \A q, r \in Reqs : Creating(q) /\ Creating(r) /\ req[q].entry = req[r].entry => q = r

\* The inductive invariant.
CInv == TypeOK /\ AnswersWereTrue /\ StaleHasCause /\ LiveWritten /\ ReqsOK /\ OneCreator

-----------------------------------------------------------------------------
(* Keys *)

\* No two entries share a key of CACHE_KEYS.
LEMMA KeyInjective ==
  ASSUME NEW e \in Entries, NEW f \in Entries, Key(e) = Key(f)
  PROVE  e = f
<1>1. e.kind = f.kind
  BY EntryKinds DEF Key
<1>2. e.kind # "achievements" => e.id = f.id
  BY <1>1, EntryKinds DEF Key
<1>3. e.kind # "problem" => e.user = f.user
  BY <1>1, EntryKinds DEF Key
<1>4. QED
  BY <1>1, <1>2, <1>3, EntryIdentity

LEMMA KeyIsKey == ASSUME NEW e \in Entries PROVE Key(e) \in Keys
BY DEF Keys

\* A cached copy is a typed record.
LEMMA CopyTypes ==
  ASSUME TypeOK, NEW e \in Entries, copy[Key(e)] # None
  PROVE  copy[Key(e)] \in Copies /\ copy[Key(e)].v \in Nat
<1>1. copy[Key(e)] \in Copies
  BY KeyIsKey DEF TypeOK
<1>2. QED
  BY <1>1 DEF Copies

\* A request in flight is typed.
LEMMA ReqTypes ==
  ASSUME TypeOK, NEW r \in Reqs, req[r].pc # "idle"
  PROVE  req[r].entry \in Entries /\ req[r].proc \in Procs /\ req[r].v \in Nat
BY DEF TypeOK, Idle, Request

\* Redis and the request slots are empty at first.
LEMMA InitCInv == Init => CInv
<1> SUFFICES ASSUME Init PROVE CInv
  OBVIOUS
<1>1. connected \subseteq Procs
  BY DEF Init
<1>2. TypeOK
  BY <1>1 DEF Init, TypeOK, Idle, Request
<1>3. \A e \in Entries : copy[Key(e)] = None
  BY KeyIsKey DEF Init
<1>4. AnswersWereTrue /\ StaleHasCause
  BY <1>3 DEF AnswersWereTrue, StaleHasCause, Stale
<1>5. LiveWritten /\ ReqsOK /\ OneCreator
  BY DEF Init, LiveWritten, ReqsOK, OneCreator, Creating, At, Idle
<1>6. QED
  BY <1>2, <1>4, <1>5 DEF CInv

-----------------------------------------------------------------------------
(* Steps that change one request only *)

\* What a request may become without a step of another.
Harmless(r, new) ==
  /\ new \in Request
  /\ new # Idle => new.entry \in Entries /\ new.proc \in Procs
  /\ new.pc = "set" => new.v <= row[new.entry] /\ (new.entry.kind # "achievements" => new.v > 0)
  /\ new.kind = "progress" => new.entry.kind = "progress"
  /\ new.kind = "grant" => new.entry.kind = "achievements"
  /\ new.pc = "findExisting" => new.kind # "create"
  /\ (new.kind = "create" /\ new.pc = "write") =>
       /\ new.entry.kind = "problem" /\ row[new.entry] = 0
       /\ \A q \in Reqs : ~(req[q].kind = "create" /\ req[q].entry = new.entry)

\* Rows and copies do not move, and only a request at its delete is a cause.
LEMMA OnlyRequest ==
  ASSUME CInv, NEW r \in Reqs, NEW new, Harmless(r, new), req' = [req EXCEPT ![r] = new],
         UNCHANGED <<row, live, writes, copy, connected, spoilt>>, ~At(r, "del")
  PROVE  CInv'
<1>1. TypeOK'
  BY DEF Harmless, CInv, TypeOK
<1>2. /\ req'[r] = new /\ \A q \in Reqs : q # r => req'[q] = req[q]
  BY DEF CInv, TypeOK
<1>3. AnswersWereTrue' /\ LiveWritten'
  BY DEF CInv, AnswersWereTrue, LiveWritten
<1>4. StaleHasCause'
  <2> SUFFICES ASSUME NEW e \in Entries, Stale(e), e \notin spoilt
               PROVE  \E q \in Reqs : req'[q].entry = e /\ At(q, "del")'
    BY DEF StaleHasCause, Stale
  <2>1. PICK q \in Reqs : req[q].entry = e /\ At(q, "del")
    BY DEF CInv, StaleHasCause
  <2>2. req'[q] = req[q]
    BY <1>2, <2>1
  <2>3. QED
    BY <2>1, <2>2 DEF At
<1>5. ReqsOK'
  <2> SUFFICES ASSUME NEW q \in Reqs
               PROVE  LET e == req'[q].entry IN
                        /\ At(q, "set")' => req'[q].v <= row[e] /\ (e.kind # "achievements" => req'[q].v > 0)
                        /\ req'[q].kind = "progress" => e.kind = "progress"
                        /\ req'[q].kind = "grant" => e.kind = "achievements"
                        /\ Creating(q)' => e.kind = "problem" /\ row[e] = 0
                        /\ At(q, "findExisting")' => req'[q].kind # "create"
    BY DEF ReqsOK
  <2>1. CASE q = r
    BY <1>2, <2>1 DEF Harmless, At, Creating
  <2>2. CASE q # r
    BY <1>2, <2>2 DEF CInv, ReqsOK, At, Creating
  <2>3. QED
    BY <2>1, <2>2
<1>6. OneCreator'
  <2> SUFFICES ASSUME NEW q \in Reqs, NEW s \in Reqs, Creating(q)', Creating(s)',
                      req'[q].entry = req'[s].entry, q # s
               PROVE  FALSE
    BY DEF OneCreator
  <2>1. CASE q = r \/ s = r
    BY <1>2, <2>1 DEF Harmless, Creating
  <2>2. CASE q # r /\ s # r
    BY <1>2, <2>2 DEF CInv, OneCreator, Creating
  <2>3. QED
    BY <2>1, <2>2
<1>7. QED
  BY <1>1, <1>3, <1>4, <1>5, <1>6 DEF CInv

\* An ended request is harmless.
LEMMA IdleHarmless == ASSUME NEW r PROVE Harmless(r, Idle)
BY DEF Harmless, Idle, Request

\* Arriving requests have read nothing, and two creations have different ids.
LEMMA ArriveKeeps ==
  ASSUME CInv, NEW r \in Reqs, NEW p \in Procs, NEW e \in Entries, Arrive(r, p, e)
  PROVE  CInv'
<1>1. ASSUME NEW k \in ReqKinds, NEW l \in {"get", "write", "findExisting"}, Begin(r, p, k, e, l),
             k = "progress" => e.kind = "progress", k = "grant" => e.kind = "achievements",
             k = "create" => /\ l = "write" /\ e.kind = "problem" /\ row[e] = 0
                             /\ \A q \in Reqs : ~(req[q].kind = "create" /\ req[q].entry = e)
      PROVE  CInv'
  <2> DEFINE new == [pc |-> l, kind |-> k, proc |-> p, entry |-> e, v |-> 0]
  <2>1. Harmless(r, new)
    BY <1>1 DEF Harmless, Request
  <2>2. /\ req' = [req EXCEPT ![r] = new] /\ req[r].pc = "idle"
        /\ UNCHANGED <<row, live, writes, copy, connected, spoilt>>
    BY <1>1 DEF Begin, Idle
  <2> HIDE DEF new
  <2>3. QED
    BY <2>1, <2>2, OnlyRequest DEF At
<1>2. CASE FindProblem(r, p, e) \/ FindMyTopicProgress(r, p, e) \/ FindMyAchievements(r, p, e)
  BY <1>1, <1>2 DEF FindProblem, FindMyTopicProgress, FindMyAchievements, ReqKinds
<1>3. CASE CreateProblem(r, p, e)
  BY <1>1, <1>3 DEF CreateProblem, BeginWrite, ReqKinds
<1>4. CASE UpdateProblem(r, p, e) \/ DeleteProblem(r, p, e) \/ UpdateStats(r, p, e)
  BY <1>1, <1>4 DEF UpdateProblem, DeleteProblem, UpdateStats, BeginWrite, ReqKinds
<1>5. CASE UpdateProgress(r, p, e) \/ GrantAchievement(r, p, e)
  BY <1>1, <1>5 DEF UpdateProgress, GrantAchievement, BeginWrite, ReqKinds
<1>6. QED
  BY <1>2, <1>3, <1>4, <1>5 DEF Arrive

\* A request that only moves on, away from its writes.
LEMMA MovesOn ==
  ASSUME CInv, NEW r \in Reqs, req[r].pc \notin {"idle", "del"}, NEW l \in {"find", "delList", "write"},
         req' = [req EXCEPT ![r].pc = l], l = "write" => req[r].kind # "create",
         UNCHANGED <<row, live, writes, copy, connected, spoilt>>
  PROVE  CInv'
<1> DEFINE new == [req[r] EXCEPT !.pc = l]
<1>1. req[r] \in Request
  BY DEF CInv, TypeOK
<1>2. /\ new.pc = l /\ new.kind = req[r].kind /\ new.entry = req[r].entry /\ new.proc = req[r].proc
      /\ new \in Request
  BY <1>1 DEF Request
<1>3. req[r].entry \in Entries /\ req[r].proc \in Procs
  BY ReqTypes DEF CInv
<1>4. req' = [req EXCEPT ![r] = new]
  OBVIOUS
<1> HIDE DEF new
<1>5. Harmless(r, new)
  BY <1>2, <1>3 DEF Harmless, CInv, ReqsOK
<1>6. QED
  BY <1>4, <1>5, OnlyRequest DEF At

\* A hit ends the request, a miss sends it to the database.
LEMMA GetCopyKeeps ==
  ASSUME CInv, NEW r \in Reqs, GetCopy(r)
  PROVE  CInv'
<1>1. CASE Finish(r)
  BY <1>1, IdleHarmless, OnlyRequest DEF GetCopy, Finish, At
<1>2. CASE Goto(r, "find")
  BY <1>2, MovesOn DEF GetCopy, Goto, At
<1>3. QED
  BY <1>1, <1>2 DEF GetCopy, Get

\* What is read is the row's present value, and a row found has been written.
LEMMA FindKeeps ==
  ASSUME CInv, NEW r \in Reqs, Find(r)
  PROVE  CInv'
<1> DEFINE e == req[r].entry
           new == [req[r] EXCEPT !.pc = "set", !.v = row[e]]
<1>1. CASE e \notin live
  BY <1>1, IdleHarmless, OnlyRequest DEF Find, Finish, At
<1>2. CASE e \in live
  <2>1. req' = [req EXCEPT ![r] = new]
        /\ UNCHANGED <<row, live, writes, copy, connected, spoilt>> /\ req[r].pc = "find"
    BY <1>2 DEF Find, At
  <2>2. req[r] \in Request /\ e \in Entries /\ req[r].proc \in Procs /\ row[e] \in Nat
    BY <2>1, ReqTypes DEF CInv, TypeOK
  <2>3. /\ new.pc = "set" /\ new.v = row[e] /\ new.kind = req[r].kind /\ new.entry = e
        /\ new.proc = req[r].proc /\ new \in Request
    BY <2>2 DEF Request
  <2>4. e.kind # "achievements" => row[e] > 0
    BY <1>2, <2>2 DEF CInv, LiveWritten
  <2> HIDE DEF new
  <2>5. Harmless(r, new)
    BY <2>2, <2>3, <2>4 DEF Harmless, CInv, ReqsOK
  <2>6. QED
    BY <2>1, <2>5, OnlyRequest DEF At
<1>3. QED
  BY <1>1, <1>2

\* Looking for the row to write changes nothing; a creation does not look.
LEMMA FindExistingKeeps ==
  ASSUME CInv, NEW r \in Reqs, FindExisting(r)
  PROVE  CInv'
<1>1. CASE Finish(r)
  BY <1>1, IdleHarmless, OnlyRequest DEF FindExisting, Finish, At
<1>2. CASE Goto(r, "write")
  <2>1. req[r].kind # "create"
    BY DEF FindExisting, CInv, ReqsOK
  <2>2. QED
    BY <1>2, <2>1, MovesOn DEF FindExisting, Goto, At
<1>3. QED
  BY <1>1, <1>2 DEF FindExisting

\* The list key is read by nobody.
LEMMA DelListKeeps ==
  ASSUME CInv, NEW r \in Reqs, InvalidateProblemListCache(r)
  PROVE  CInv'
BY IdleHarmless, OnlyRequest DEF InvalidateProblemListCache, Finish, At

-----------------------------------------------------------------------------
(* Steps that change a copy *)

\* One copy is replaced or removed, and one request at most ends or goes on to the
\* list key; what the entry's new copy owes is in the last two assumptions.
LEMMA OneCopy ==
  ASSUME CInv, NEW e \in Entries, NEW c \in Copies \cup {None},
         copy' = [copy EXCEPT ![Key(e)] = c],
         UNCHANGED <<row, live, writes>>, connected' \subseteq Procs, req' \in [Reqs -> Request],
         \A q \in Reqs : req'[q] # req[q] => req'[q] = Idle \/ req'[q] = [req[q] EXCEPT !.pc = "delList"],
         \A q \in Reqs : req'[q] # Idle => req'[q].entry \in Entries /\ req'[q].proc \in Procs,
         spoilt' \subseteq Entries, \A f \in Entries : f # e => (f \in spoilt => f \in spoilt'),
         \A q \in Reqs : At(q, "del") /\ req[q].entry # e => req'[q] = req[q],
         c # None => c.of = e /\ c.v <= row[e] /\ (e.kind # "achievements" => c.v > 0),
         c # None /\ (c.v # row[e] \/ e \notin live) => e \in spoilt'
  PROVE  CInv'
<1>1. copy'[Key(e)] = c /\ \A f \in Entries : f # e => copy'[Key(f)] = copy[Key(f)]
  BY KeyIsKey, KeyInjective DEF CInv, TypeOK
<1>2. TypeOK'
  BY DEF CInv, TypeOK
<1>3. AnswersWereTrue'
  BY <1>1 DEF CInv, AnswersWereTrue
<1>4. StaleHasCause'
  <2> SUFFICES ASSUME NEW f \in Entries, Stale(f)', f \notin spoilt'
               PROVE  \E q \in Reqs : req'[q].entry = f /\ At(q, "del")'
    BY DEF StaleHasCause
  <2>1. f # e
    BY <1>1 DEF Stale
  <2>2. Stale(f) /\ f \notin spoilt
    BY <1>1, <2>1 DEF Stale
  <2>3. PICK q \in Reqs : req[q].entry = f /\ At(q, "del")
    BY <2>2 DEF CInv, StaleHasCause
  <2>4. req'[q] = req[q]
    BY <2>1, <2>3
  <2>5. QED
    BY <2>3, <2>4 DEF At
<1>5. \A q \in Reqs : \/ req'[q] = req[q] \/ req'[q] = Idle
                      \/ /\ req'[q].pc = "delList" /\ req'[q].kind = req[q].kind
                         /\ req'[q].entry = req[q].entry
  BY DEF CInv, TypeOK, Request
<1>6. ReqsOK' /\ OneCreator'
  BY <1>5 DEF CInv, ReqsOK, OneCreator, Creating, At, Idle
<1>7. LiveWritten'
  BY DEF CInv, LiveWritten
<1>8. QED
  BY <1>2, <1>3, <1>4, <1>6, <1>7 DEF CInv

\* The step that ends a request, with its copies untouched, keeps the invariant when
\* a delete that is given up is entered in spoilt.
LEMMA Dropped ==
  ASSUME CInv, NEW S \in SUBSET Reqs,
         UNCHANGED <<row, live, writes, copy>>, connected' \subseteq Procs, req' \in [Reqs -> Request],
         \A q \in Reqs : q \notin S => req'[q] = req[q],
         \A q \in S : req'[q] = Idle \/ req'[q] = [req[q] EXCEPT !.pc = "delList"],
         \A q \in Reqs : req'[q] # Idle => req'[q].entry \in Entries /\ req'[q].proc \in Procs,
         spoilt \subseteq spoilt', spoilt' \subseteq Entries,
         \A q \in S : At(q, "del") => req[q].entry \in spoilt'
  PROVE  CInv'
<1>1. TypeOK'
  BY DEF CInv, TypeOK
<1>2. AnswersWereTrue' /\ LiveWritten'
  BY DEF CInv, AnswersWereTrue, LiveWritten
<1>3. StaleHasCause'
  <2> SUFFICES ASSUME NEW f \in Entries, Stale(f), f \notin spoilt'
               PROVE  \E q \in Reqs : req'[q].entry = f /\ At(q, "del")'
    BY DEF StaleHasCause, Stale
  <2>1. PICK q \in Reqs : req[q].entry = f /\ At(q, "del")
    BY DEF CInv, StaleHasCause
  <2>2. req'[q] = req[q]
    BY <2>1
  <2>3. QED
    BY <2>1, <2>2 DEF At
<1>4. ASSUME NEW q \in Reqs
      PROVE  \/ req'[q] = req[q] \/ req'[q] = Idle
             \/ /\ req'[q].pc = "delList" /\ req'[q].kind = req[q].kind
                /\ req'[q].entry = req[q].entry
  <2>1. req[q] \in Request
    BY DEF CInv, TypeOK
  <2>2. CASE req'[q] = [req[q] EXCEPT !.pc = "delList"]
    BY <2>1, <2>2 DEF Request
  <2>3. QED
    BY <2>2
<1>5. ReqsOK' /\ OneCreator'
  BY <1>4 DEF CInv, ReqsOK, OneCreator, Creating, At, Idle
<1>6. QED
  BY <1>1, <1>2, <1>3, <1>5 DEF CInv

\* A request whose record becomes Idle or moves to the list key stays typed.
LEMMA EndsTyped ==
  ASSUME CInv, NEW r \in Reqs, req[r].pc # "idle",
         req' = [req EXCEPT ![r] = Idle] \/ req' = [req EXCEPT ![r].pc = "delList"]
  PROVE  /\ req' \in [Reqs -> Request]
         /\ \A q \in Reqs : q # r => req'[q] = req[q]
         /\ req'[r] = Idle \/ req'[r] = [req[r] EXCEPT !.pc = "delList"]
         /\ \A q \in Reqs : req'[q] # Idle => req'[q].entry \in Entries /\ req'[q].proc \in Procs
<1>1. req \in [Reqs -> Request] /\ req[r] \in Request
  BY DEF CInv, TypeOK
<1>2. req[r].entry \in Entries /\ req[r].proc \in Procs
  BY ReqTypes DEF CInv
<1> DEFINE new == [req[r] EXCEPT !.pc = "delList"]
<1>3. Idle \in Request /\ new \in Request /\ new.entry = req[r].entry /\ new.proc = req[r].proc
  BY <1>1 DEF Idle, Request
<1>4. req' = [req EXCEPT ![r] = Idle] \/ req' = [req EXCEPT ![r] = new]
  OBVIOUS
<1> HIDE DEF new
<1>5. req' \in [Reqs -> Request] /\ (\A q \in Reqs : q # r => req'[q] = req[q])
      /\ (req'[r] = Idle \/ req'[r] = new)
  BY <1>1, <1>3, <1>4
<1>6. \A q \in Reqs : req'[q] # Idle => req'[q].entry \in Entries /\ req'[q].proc \in Procs
  BY <1>2, <1>3, <1>5 DEF CInv, TypeOK
<1>7. QED
  BY <1>5, <1>6 DEF new

\* A fill stores what was read; if that is the past, the entry is spoilt.
LEMMA SetCopyKeeps ==
  ASSUME CInv, NEW r \in Reqs, SetCopy(r)
  PROVE  CInv'
<1> DEFINE e == req[r].entry
           v == req[r].v
           c == [of |-> e, v |-> v, timed |-> TRUE]
<1>1. req[r].pc = "set" /\ req' = [req EXCEPT ![r] = Idle] /\ UNCHANGED <<row, live, writes, connected>>
  BY DEF SetCopy, At, Finish
<1>2. e \in Entries /\ v \in Nat
  BY <1>1, ReqTypes DEF CInv
<1>3. v <= row[e] /\ (e.kind # "achievements" => v > 0)
  BY <1>1 DEF CInv, ReqsOK, At
<1>4. /\ req' \in [Reqs -> Request] /\ \A q \in Reqs : q # r => req'[q] = req[q]
      /\ req'[r] = Idle
      /\ \A q \in Reqs : req'[q] # Idle => req'[q].entry \in Entries /\ req'[q].proc \in Procs
  BY <1>1, EndsTyped DEF CInv, TypeOK
<1>5. connected' \subseteq Procs /\ spoilt \subseteq Entries
  BY <1>1 DEF CInv, TypeOK
<1>6. CASE UNCHANGED <<copy, spoilt>>
  <2>1. /\ {r} \in SUBSET Reqs /\ \A q \in Reqs : q \notin {r} => req'[q] = req[q]
        /\ \A q \in {r} : req'[q] = Idle \/ req'[q] = [req[q] EXCEPT !.pc = "delList"]
        /\ \A q \in {r} : At(q, "del") => req[q].entry \in spoilt'
        /\ spoilt \subseteq spoilt' /\ spoilt' \subseteq Entries
    BY <1>1, <1>4, <1>5, <1>6 DEF At
  <2> HIDE DEF c, e, v
  <2>2. QED
    BY <1>1, <1>4, <1>5, <1>6, <2>1, Dropped
<1>7. CASE /\ copy' = Put(e, v)
           /\ spoilt' = IF v = row[e] /\ e \in live THEN spoilt \ {e} ELSE spoilt \cup {e}
  <2>1. c \in Copies /\ c.of = e /\ c.v = v
    BY <1>2 DEF Copies
  <2>2. copy' = [copy EXCEPT ![Key(e)] = c]
    BY <1>7 DEF Put
  <2>3. spoilt' \subseteq Entries /\ \A f \in Entries : f # e => (f \in spoilt => f \in spoilt')
    BY <1>2, <1>5, <1>7
  <2>4. c.v # row[e] \/ e \notin live => e \in spoilt'
    BY <1>7, <2>1
  <2>5. \A q \in Reqs : At(q, "del") => req'[q] = req[q]
    BY <1>1, <1>4 DEF At
  <2> HIDE DEF c, e
  <2>6. e \in Entries /\ c.of = e /\ c.v <= row[e] /\ (e.kind # "achievements" => c.v > 0)
    BY <1>2, <1>3, <2>1
  <2>7. QED
    BY <1>1, <1>4, <1>5, <2>1, <2>2, <2>3, <2>4, <2>5, <2>6, OneCopy
<1>8. QED
  BY <1>6, <1>7 DEF SetCopy, Set

\* A delete removes the copy, or leaves the entry spoilt.
LEMMA DelCopyKeeps ==
  ASSUME CInv, NEW r \in Reqs, DelCopy(r)
  PROVE  CInv'
<1> DEFINE e == req[r].entry
<1>1. req[r].pc = "del" /\ UNCHANGED <<row, live, writes, connected>>
      /\ (req' = [req EXCEPT ![r] = Idle] \/ req' = [req EXCEPT ![r].pc = "delList"])
  BY DEF DelCopy, At, Finish, Goto
<1>2. e \in Entries
  BY <1>1, ReqTypes DEF CInv
<1>3. /\ req' \in [Reqs -> Request] /\ \A q \in Reqs : q # r => req'[q] = req[q]
      /\ req'[r] = Idle \/ req'[r] = [req[r] EXCEPT !.pc = "delList"]
      /\ \A q \in Reqs : req'[q] # Idle => req'[q].entry \in Entries /\ req'[q].proc \in Procs
  BY <1>1, EndsTyped
<1>4. connected' \subseteq Procs /\ spoilt \subseteq Entries
  BY <1>1 DEF CInv, TypeOK
<1>5. CASE copy' = [copy EXCEPT ![Key(e)] = None] /\ spoilt' = spoilt \ {e}
  <2>1. spoilt' \subseteq Entries /\ \A f \in Entries : f # e => (f \in spoilt => f \in spoilt')
    BY <1>4, <1>5
  <2>2. \A q \in Reqs : At(q, "del") /\ req[q].entry # e => req'[q] = req[q]
    BY <1>3
  <2>3. \A q \in Reqs : req'[q] # req[q] => req'[q] = Idle \/ req'[q] = [req[q] EXCEPT !.pc = "delList"]
    BY <1>3
  <2> HIDE DEF e
  <2>4. QED
    BY <1>1, <1>2, <1>3, <1>4, <1>5, <2>1, <2>2, <2>3, OneCopy
<1>6. CASE UNCHANGED copy /\ spoilt' = spoilt \cup {e}
  <2>1. /\ {r} \in SUBSET Reqs /\ \A q \in Reqs : q \notin {r} => req'[q] = req[q]
        /\ \A q \in {r} : req'[q] = Idle \/ req'[q] = [req[q] EXCEPT !.pc = "delList"]
        /\ \A q \in {r} : At(q, "del") => req[q].entry \in spoilt'
        /\ spoilt \subseteq spoilt' /\ spoilt' \subseteq Entries
    BY <1>2, <1>3, <1>4, <1>6
  <2> HIDE DEF e
  <2>2. QED
    BY <1>1, <1>3, <1>4, <1>6, <2>1, Dropped
<1>7. QED
  BY <1>5, <1>6 DEF DelCopy, Del

\* A TTL that runs out removes a copy.
LEMMA FadeKeeps ==
  ASSUME CInv, NEW e \in Entries, Fade(e)
  PROVE  CInv'
<1>1. /\ copy' = [copy EXCEPT ![Key(e)] = None] /\ spoilt' = spoilt \ {e}
      /\ UNCHANGED <<row, live, writes, connected, req>>
  BY DEF Fade
<1>2. connected' \subseteq Procs /\ spoilt' \subseteq Entries /\ req' \in [Reqs -> Request]
      /\ \A q \in Reqs : req'[q] # Idle => req'[q].entry \in Entries /\ req'[q].proc \in Procs
  BY <1>1 DEF CInv, TypeOK
<1>3. QED
  BY <1>1, <1>2, OneCopy

\* The deletes a process takes with it leave their entries spoilt.
LEMMA RestartKeeps ==
  ASSUME CInv, NEW p \in Procs, Restart(p)
  PROVE  CInv'
<1> DEFINE lost == {r \in Reqs : req[r].proc = p}
<1>1. /\ req' = [r \in Reqs |-> IF r \in lost THEN Idle ELSE req[r]]
      /\ spoilt' = spoilt \cup {req[r].entry : r \in {q \in lost : At(q, "del")}}
      /\ UNCHANGED <<row, live, writes, copy>> /\ connected' \subseteq Procs
  BY DEF Restart, OnModuleInit, CInv, TypeOK
<1>2. req' \in [Reqs -> Request]
  BY <1>1 DEF CInv, TypeOK, Idle, Request
<1>3. \A q \in Reqs : req'[q] # Idle => req'[q].entry \in Entries /\ req'[q].proc \in Procs
  BY <1>1 DEF CInv, TypeOK
<1>4. spoilt' \subseteq Entries
  BY <1>1, ReqTypes DEF CInv, TypeOK, At
<1>5. \A q \in lost : At(q, "del") => req[q].entry \in spoilt'
  BY <1>1
<1>6. \A q \in lost : req'[q] = Idle
  BY <1>1
<1>7. \A q \in Reqs : q \notin lost => req'[q] = req[q]
  BY <1>1
<1>8. lost \in SUBSET Reqs /\ spoilt \subseteq spoilt'
  BY <1>1
<1> HIDE DEF lost
<1>9. QED
  BY <1>1, <1>2, <1>3, <1>4, <1>5, <1>6, <1>7, <1>8, Dropped

-----------------------------------------------------------------------------
(* Write *)

\* A write makes its entry's copy stale at most, and goes on to delete it; a creation,
\* which does not, finds no copy.
LEMMA WriteKeeps ==
  ASSUME CInv, NEW r \in Reqs, Write(r)
  PROVE  CInv'
<1> DEFINE e == req[r].entry
           k == req[r].kind
           l == IF k = "create" THEN "delList" ELSE "del"
           new == [req[r] EXCEPT !.pc = l]
<1>1. req[r].pc = "write" /\ req' = [req EXCEPT ![r] = new] /\ writes' = writes + 1
      /\ UNCHANGED <<copy, connected, spoilt>>
  BY DEF Write, At, Goto
<1>2. req[r] \in Request /\ e \in Entries /\ req[r].proc \in Procs
  BY <1>1, ReqTypes DEF CInv, TypeOK
<1>3. row[e] \in Nat /\ row \in [Entries -> Nat] /\ live \subseteq Entries /\ writes \in Nat
  BY <1>2 DEF CInv, TypeOK
<1>4. /\ new.pc = l /\ new.kind = k /\ new.entry = e /\ new.proc = req[r].proc /\ new.v = req[r].v
      /\ new \in Request
  BY <1>2 DEF Request
<1>5. \/ k \in {"create", "progress", "grant"} /\ live' = live \cup {e}
         /\ row' = [row EXCEPT ![e] = row[e] + 1]
      \/ k \in {"update", "stats"} /\ live' = live
         /\ row' = IF e \in live THEN [row EXCEPT ![e] = row[e] + 1] ELSE row
      \/ k = "delete" /\ live' = live \ {e} /\ row' = row
  BY DEF Write
<1> HIDE DEF new, e, k
<1>6. \A f \in Entries : f # e => row'[f] = row[f] /\ (f \in live' <=> f \in live)
  BY <1>3, <1>5
<1>7. row' \in [Entries -> Nat] /\ live' \subseteq Entries /\ row'[e] \in {row[e], row[e] + 1}
  BY <1>2, <1>3, <1>5
<1>8. req'[r] = new /\ \A q \in Reqs : q # r => req'[q] = req[q]
  BY <1>1 DEF CInv, TypeOK
<1>9. TypeOK'
  <2>1. req' \in [Reqs -> Request]
    BY <1>1, <1>4 DEF CInv, TypeOK
  <2>2. \A q \in Reqs : req'[q] # Idle => req'[q].entry \in Entries /\ req'[q].proc \in Procs
    BY <1>2, <1>4, <1>8 DEF CInv, TypeOK
  <2>3. writes' \in Nat
    BY <1>1, <1>3
  <2>4. QED
    BY <1>1, <1>7, <2>1, <2>2, <2>3 DEF CInv, TypeOK
<1>10. AnswersWereTrue'
  <2> SUFFICES ASSUME NEW f \in Entries, copy[Key(f)] # None
               PROVE  /\ copy[Key(f)].of = f /\ copy[Key(f)].v <= row'[f]
                      /\ f.kind # "achievements" => copy[Key(f)].v > 0
    BY <1>1 DEF AnswersWereTrue
  <2>1. /\ copy[Key(f)].of = f /\ copy[Key(f)].v <= row[f]
        /\ f.kind # "achievements" => copy[Key(f)].v > 0
    BY DEF CInv, AnswersWereTrue
  <2>2. copy[Key(f)].v \in Nat
    BY CopyTypes DEF CInv
  <2>3. QED
    BY <1>3, <1>6, <1>7, <2>1, <2>2
<1>11. LiveWritten'
  BY <1>2, <1>3, <1>5, <1>6 DEF CInv, LiveWritten
<1>12. Creating(r) <=> k = "create"
  BY <1>1 DEF Creating, k
<1>13. k = "create" => copy[Key(e)] = None
  <2> SUFFICES ASSUME k = "create", copy[Key(e)] # None PROVE FALSE
    OBVIOUS
  <2>1. e.kind = "problem" /\ row[e] = 0
    BY <1>12 DEF CInv, ReqsOK, e
  <2>2. copy[Key(e)].v <= 0 /\ copy[Key(e)].v > 0 /\ copy[Key(e)].v \in Nat
    BY <1>2, <2>1, CopyTypes DEF CInv, AnswersWereTrue
  <2>3. QED
    BY <2>2
<1>14. StaleHasCause'
  <2> SUFFICES ASSUME NEW f \in Entries, Stale(f)', f \notin spoilt
               PROVE  \E q \in Reqs : req'[q].entry = f /\ req'[q].pc = "del"
    BY <1>1 DEF StaleHasCause, At
  <2>1. CASE f = e
    <3>1. copy[Key(e)] # None
      BY <1>1, <2>1 DEF Stale
    <3>2. new.pc = "del"
      BY <1>4, <1>13, <3>1
    <3>3. QED
      BY <1>4, <1>8, <2>1, <3>2
  <2>2. CASE f # e
    <3>1. Stale(f)
      BY <1>1, <1>6, <2>2 DEF Stale
    <3>2. PICK q \in Reqs : req[q].entry = f /\ req[q].pc = "del"
      BY <3>1 DEF CInv, StaleHasCause, At
    <3>3. q # r
      BY <1>1, <3>2
    <3>4. QED
      BY <1>8, <3>2, <3>3
  <2>3. QED
    BY <2>1, <2>2
<1>15. ReqsOK'
  <2> SUFFICES ASSUME NEW q \in Reqs
               PROVE  LET f == req'[q].entry IN
                        /\ req'[q].pc = "set" => /\ req'[q].v <= row'[f]
                                                 /\ f.kind # "achievements" => req'[q].v > 0
                        /\ req'[q].kind = "progress" => f.kind = "progress"
                        /\ req'[q].kind = "grant" => f.kind = "achievements"
                        /\ req'[q].kind = "create" /\ req'[q].pc = "write" =>
                             f.kind = "problem" /\ row'[f] = 0
                        /\ req'[q].pc = "findExisting" => req'[q].kind # "create"
    BY DEF ReqsOK, At, Creating
  <2>1. CASE q = r
    BY <1>4, <1>8, <2>1 DEF CInv, ReqsOK, e, k
  <2>2. CASE q # r
    <3> DEFINE f == req[q].entry
    <3>1. req'[q] = req[q]
      BY <1>8, <2>2
    <3>2. /\ req[q].pc = "set" => req[q].v <= row[f] /\ (f.kind # "achievements" => req[q].v > 0)
          /\ req[q].kind = "progress" => f.kind = "progress"
          /\ req[q].kind = "grant" => f.kind = "achievements"
          /\ Creating(q) => f.kind = "problem" /\ row[f] = 0
          /\ req[q].pc = "findExisting" => req[q].kind # "create"
      BY DEF CInv, ReqsOK, At
    <3>3. req[q].pc = "set" => req[q].v <= row'[f]
      <4> SUFFICES ASSUME req[q].pc = "set" PROVE req[q].v <= row'[f]
        OBVIOUS
      <4>1. f \in Entries /\ req[q].v \in Nat /\ row[f] \in Nat
        BY <1>3, ReqTypes DEF CInv
      <4>2. QED
        BY <1>3, <1>6, <1>7, <3>2, <4>1
    <3>4. Creating(q) => row'[f] = 0
      <4> SUFFICES ASSUME Creating(q) PROVE row'[f] = 0
        OBVIOUS
      <4>1. f \in Entries /\ f.kind = "problem" /\ row[f] = 0
        BY <3>2, ReqTypes DEF CInv, Creating
      <4>2. CASE f # e
        BY <1>6, <4>1, <4>2
      <4>3. CASE f = e
        <5>1. k # "create"
          BY <1>12, <2>2, <4>3 DEF CInv, OneCreator, e
        <5>2. k \notin {"progress", "grant"}
          BY <4>1, <4>3 DEF CInv, ReqsOK, e, k
        <5>3. e \notin live
          BY <4>1, <4>3 DEF CInv, LiveWritten
        <5>4. row' = row
          BY <1>5, <5>1, <5>2, <5>3
        <5>5. QED
          BY <4>1, <5>4
      <4>4. QED
        BY <4>2, <4>3
    <3>5. QED
      BY <3>1, <3>2, <3>3, <3>4 DEF Creating
  <2>3. QED
    BY <2>1, <2>2
<1>16. OneCreator'
  <2>1. \A q \in Reqs : Creating(q)' => q # r
    BY <1>4, <1>8 DEF Creating
  <2>2. QED
    BY <1>8, <2>1 DEF CInv, OneCreator, Creating
<1>17. QED
  BY <1>9, <1>10, <1>11, <1>14, <1>15, <1>16 DEF CInv

-----------------------------------------------------------------------------
\* Every step keeps the invariant.
LEMMA NextKeeps == CInv /\ [Next]_vars => CInv'
<1> SUFFICES ASSUME CInv, [Next]_vars PROVE CInv'
  OBVIOUS
<1>1. CASE UNCHANGED vars
  BY <1>1 DEF vars, CInv, TypeOK, AnswersWereTrue, StaleHasCause, Stale, LiveWritten, ReqsOK,
     OneCreator, Creating, At
<1>2. CASE \E r \in Reqs, p \in Procs, e \in Entries : Arrive(r, p, e)
  BY <1>2, ArriveKeeps
<1>3. CASE \E r \in Reqs : Step(r)
  BY <1>3, GetCopyKeeps, FindKeeps, SetCopyKeeps, FindExistingKeeps, WriteKeeps, DelCopyKeeps,
     DelListKeeps DEF Step
<1>4. CASE \E r \in Reqs : ListRows(r)
  BY <1>1, <1>4 DEF ListRows
<1>5. CASE \E e \in Entries : Fade(e)
  BY <1>5, FadeKeeps
<1>6. CASE \E p \in Procs : Restart(p)
  BY <1>6, RestartKeeps
<1>7. QED
  BY <1>1, <1>2, <1>3, <1>4, <1>5, <1>6 DEF Next

\* The invariant holds throughout.
THEOREM CacheInvariance == Spec => []CInv
BY InitCInv, NextKeeps, PTL DEF Spec

\* Rows, copies and requests keep their types.
THEOREM CacheTypeCorrect == Spec => []TypeOK
<1>1. CInv => TypeOK
  BY DEF CInv
<1>2. QED
  BY CacheInvariance, <1>1, PTL

\* Whatever Redis holds under a key is a value the row of that very key has had: no other
\* user's progress, no row that was never written, nothing ahead of the database
\* (cache.constants.ts, problem.service.ts, progress.service.ts, achievement.service.ts).
THEOREM CachedAnswersWereTrue == Spec => []AnswersWereTrue
<1>1. CInv => AnswersWereTrue
  BY DEF CInv
<1>2. QED
  BY CacheInvariance, <1>1, PTL

\* A stale copy is one a writer is about to delete, one filled after a write its reader
\* had not seen, or one whose delete was lost: no handler forgets a key it has to delete.
THEOREM StaleCopiesHaveCause == Spec => []StaleHasCause
<1>1. CInv => StaleHasCause
  BY DEF CInv
<1>2. QED
  BY CacheInvariance, <1>1, PTL
=============================================================================
