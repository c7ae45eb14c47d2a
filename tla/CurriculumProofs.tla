--------------------------- MODULE CurriculumProofs ---------------------------
(***************************************************************************)
(* Proofs about Curriculum and DeleteMigration, for any tree of rows, any  *)
(* number of requests and any number of nightly jobs.                      *)
(*                                                                         *)
(* Lists: only a write to a curriculum makes a cached list stale, and such *)
(* a write climbs nowhere, so no deleted ancestor can stop it before it    *)
(* has dropped the lists.                                                  *)
(*                                                                         *)
(* Trees: a write that climbs may be stopped by a deleted ancestor, but    *)
(* whoever deleted it climbs the rest of the same way, so of the writes    *)
(* that made a tree stale one always has a clear way to the root.          *)
(*                                                                         *)
(* Nights: a row that is due keeps its children due, because a new child   *)
(* needs a live parent and a row that was live when a request looked has   *)
(* not expired when that request writes.                                   *)
(***************************************************************************)
EXTENDS DeleteMigration, SequenceTheorems, TLAPS

WriteAwaits == {"find", "write", "climb", "delTree", "keys", "delList"}

\* What the record of a request in flight promises, with the rows as they are.
RecordOK(q) ==
  /\ q.pc \in WriteAwaits => q.op \in WriteOps
  /\ q.pc \in {"getTree", "level", "setTree"} => q.op = "tree"
  /\ q.pc \in {"getList", "readList", "setList"} => q.op = "list"
  /\ q.pc = "climb" => q.climb # <<>>
  /\ q.pc = "find" => /\ q.find \in Nodes
                      /\ q.op # "create" => q.find = q.node
                      /\ q.op = "create" => q.find = Parent[q.node]
  /\ q.op \in WriteOps /\ Table[q.node] = "curriculum" => q.climb = <<>>
  /\ q.op = "create" /\ q.pc \in {"find", "write"} => row[q.node] = "absent"
  /\ q.op \in {"update", "delete"} /\ q.pc = "write" => row[q.node] \in {"live", "deleted"}
  /\ q.op = "create" /\ q.pc = "write" /\ Table[q.node] # "curriculum" =>
       row[Parent[q.node]] \in {"live", "deleted"}

ReqsOK == \A r \in Reqs : RecordOK(req[r])

OneCreator ==
  \A q, r \in Reqs :
    req[q].op = "create" /\ req[r].op = "create" /\ req[q].node = req[r].node => q = r

\* A write to a curriculum that will still drop the list k.
Dropping(q, k) ==
  /\ q.op \in WriteOps /\ Table[q.node] = "curriculum"
  /\ q.pc \in {"delTree", "keys"} \/ (q.pc = "delList" /\ k \in q.keys)

StaleList(k) == list[k] # None /\ list[k].rows # ListOf(list[k].of)

ListCause ==
  \A k \in ListKeys : StaleList(k) => k \in lateLists \/ \E r \in Reqs : Dropping(req[r], k)

\* The inductive invariant of the requests.
TInv == TypeOK /\ ReqsOK /\ OneCreator /\ ListCause

-----------------------------------------------------------------------------
(* The shape of the tree *)

\* Each row but a curriculum has its parent one table up.
LEMMA ParentTable ==
  ASSUME NEW n \in Nodes
  PROVE  /\ Table[n] = "curriculum" => Parent[n] = None
         /\ Table[n] = "chapter" => Parent[n] \in Nodes /\ Table[Parent[n]] = "curriculum"
         /\ Table[n] = "section" => Parent[n] \in Nodes /\ Table[Parent[n]] = "chapter"
         /\ Table[n] = "topic" => Parent[n] \in Nodes /\ Table[Parent[n]] = "section"
         /\ Table[n] = "objective" => Parent[n] \in Nodes /\ Table[Parent[n]] = "topic"
         /\ Table[n] \in {"curriculum", "chapter", "section", "topic", "objective"}
<1>1. CASE Table[n] = "curriculum" /\ Parent[n] = None
  BY <1>1
<1>2. CASE /\ Parent[n] \in Nodes
           /\ \E i \in 1..4 : Table[Parent[n]] = Tables[i] /\ Table[n] = Tables[i + 1]
  <2>1. PICK i \in 1..4 : Table[Parent[n]] = Tables[i] /\ Table[n] = Tables[i + 1]
    BY <1>2
  <2>2. i = 1 \/ i = 2 \/ i = 3 \/ i = 4
    OBVIOUS
  <2>3. CASE i = 1
    BY <1>2, <2>1, <2>3 DEF Tables
  <2>4. CASE i = 2
    BY <1>2, <2>1, <2>4 DEF Tables
  <2>5. CASE i = 3
    BY <1>2, <2>1, <2>5 DEF Tables
  <2>6. CASE i = 4
    BY <1>2, <2>1, <2>6 DEF Tables
  <2>7. QED
    BY <2>2, <2>3, <2>4, <2>5, <2>6
<1>3. QED
  BY <1>1, <1>2, TreeShape

LEMMA ListKeyIsKey == ASSUME NEW f \in Filters PROVE ListKey(f) \in ListKeys
BY DEF ListKeys

\* A list is typed, and depends on the curricula alone.
LEMMA ListTypes == ASSUME TypeOK, NEW f PROVE ListOf(f) \in Snapshots
<1>1. \A c \in Curricula : c \in Nodes /\ ver[c] \in Nat
  BY DEF TypeOK, Curricula
<1>2. QED
  BY <1>1 DEF ListOf, Snapshots

LEMMA ListDepends ==
  ASSUME NEW f, \A c \in Curricula : (Live(c)' <=> Live(c)) /\ (Live(c) => ver'[c] = ver[c])
  PROVE  ListOf(f)' = ListOf(f)
BY DEF ListOf, Curricula

\* The tables hold the seed, and nothing is cached.
LEMMA InitTInv == Init => TInv
<1> SUFFICES ASSUME Init PROVE TInv
  OBVIOUS
<1>1. Idle \in Request
  BY DEF Idle, Request, Snapshots
<1>2. \A r \in Reqs : req[r] = Idle
  BY DEF Init
<1>3. TypeOK
  BY <1>1, <1>2 DEF Init, TypeOK, Idle, WriteOps
<1>4. ReqsOK /\ OneCreator
  BY <1>2 DEF ReqsOK, RecordOK, OneCreator, Idle, WriteAwaits, WriteOps
<1>5. ListCause
  BY DEF Init, ListCause, StaleList
<1>6. QED
  BY <1>3, <1>4, <1>5 DEF TInv

-----------------------------------------------------------------------------
(* Steps of one request *)

Typed(q) ==
  /\ q \in Request
  /\ q.op \in WriteOps \cup {"tree"} => q.node \in Nodes
  /\ q.op = "tree" => Table[q.node] = "curriculum"
  /\ q.op = "list" => q.filter \in Filters

LEMMA IdleOK == Typed(Idle) /\ RecordOK(Idle)
BY DEF Typed, RecordOK, Idle, Request, Snapshots, WriteOps, WriteAwaits

LEMMA TypedRequests == ASSUME TypeOK, NEW r \in Reqs PROVE Typed(req[r])
BY DEF TypeOK, Typed

\* One record changes, the rows do not.
LEMMA OneRequest ==
  ASSUME TInv, NEW r \in Reqs, NEW new, req' = [req EXCEPT ![r] = new], Typed(new), RecordOK(new),
         new.op = "create" => \/ req[r].op = "create" /\ req[r].node = new.node
                              \/ \A q \in Reqs : ~(req[q].op = "create" /\ req[q].node = new.node),
         UNCHANGED row
  PROVE  /\ req' \in [Reqs -> Request] /\ \A q \in Reqs : Typed(req'[q])
         /\ ReqsOK' /\ OneCreator'
         /\ req'[r] = new /\ \A q \in Reqs : q # r => req'[q] = req[q]
<1>1. req'[r] = new /\ \A q \in Reqs : q # r => req'[q] = req[q]
  BY DEF TInv, TypeOK
<1>2. req' \in [Reqs -> Request] /\ \A q \in Reqs : Typed(req'[q])
  BY <1>1, TypedRequests DEF TInv, TypeOK, Typed
<1>3. ReqsOK'
  <2> SUFFICES ASSUME NEW q \in Reqs PROVE RecordOK(req[q])'
    BY DEF ReqsOK
  <2>1. CASE q = r
    BY <1>1, <2>1 DEF RecordOK
  <2>2. CASE q # r
    BY <1>1, <2>2 DEF TInv, ReqsOK, RecordOK
  <2>3. QED
    BY <2>1, <2>2
<1>4. OneCreator'
  BY <1>1 DEF TInv, OneCreator
<1>5. QED
  BY <1>1, <1>2, <1>3, <1>4

\* A step that changes no row and no list, and gives up no list it had to drop.
LEMMA Moves ==
  ASSUME TInv, NEW r \in Reqs, NEW new, req' = [req EXCEPT ![r] = new], Typed(new), RecordOK(new),
         new.op = "create" => \/ req[r].op = "create" /\ req[r].node = new.node
                              \/ \A q \in Reqs : ~(req[q].op = "create" /\ req[q].node = new.node),
         UNCHANGED <<row, ver, list>>, writes' \in Nat,
         tree' \in [Curricula -> Snapshots \cup {None}], lateTrees' \subseteq Curricula,
         lateLists' \subseteq ListKeys,
         \A k \in ListKeys : k \in lateLists => k \in lateLists',
         \A k \in ListKeys : list[k] # None /\ Dropping(req[r], k) => Dropping(new, k)
  PROVE  TInv'
<1>1. /\ req' \in [Reqs -> Request] /\ \A q \in Reqs : Typed(req'[q])
      /\ ReqsOK' /\ OneCreator'
      /\ req'[r] = new /\ \A q \in Reqs : q # r => req'[q] = req[q]
  BY OneRequest
<1>2. TypeOK'
  BY <1>1 DEF TInv, TypeOK, Typed
<1>3. ListCause'
  <2> SUFFICES ASSUME NEW k \in ListKeys, StaleList(k), k \notin lateLists'
               PROVE  \E q \in Reqs : Dropping(req'[q], k)
    BY DEF ListCause, StaleList, ListOf, Live, Dropping
  <2>1. PICK q \in Reqs : Dropping(req[q], k)
    BY DEF TInv, ListCause
  <2>2. CASE q = r
    BY <1>1, <2>1, <2>2 DEF StaleList
  <2>3. CASE q # r
    BY <1>1, <2>1, <2>3
  <2>4. QED
    BY <2>2, <2>3
<1>4. QED
  BY <1>1, <1>2, <1>3 DEF TInv

\* A request that ends owes no list.
LEMMA Ends ==
  ASSUME TInv, NEW r \in Reqs, Finish(r), UNCHANGED <<rows, caches>>,
         \A k \in ListKeys : list[k] # None => ~Dropping(req[r], k)
  PROVE  TInv'
<1>1. Idle.op = "none"
  BY DEF Idle
<1>2. /\ writes' \in Nat /\ UNCHANGED <<row, ver, list, lateLists>>
      /\ tree' \in [Curricula -> Snapshots \cup {None}] /\ lateTrees' \subseteq Curricula /\ lateLists' \subseteq ListKeys
  BY DEF rows, caches, trees, lists, TInv, TypeOK
<1>3. req' = [req EXCEPT ![r] = Idle]
  BY DEF Finish
<1>4. \A k \in ListKeys : list[k] # None /\ Dropping(req[r], k) => Dropping(Idle, k)
  OBVIOUS
<1>5. QED
  BY <1>1, <1>2, <1>3, <1>4, IdleOK, Moves

\* A write that arrives has its row, the row it looks for, and the ancestors to climb.
LEMMA HandleKeeps ==
  ASSUME TInv, NEW r \in Reqs, req[r] = Idle, NEW n \in Nodes, NEW op \in WriteOps,
         NEW find \in Nodes \cup {None}, NEW climb \in Seq(Nodes), Handle(r, find, op, n, climb),
         Table[n] = "curriculum" => climb = <<>>,
         find = None => op = "create" /\ Table[n] = "curriculum",
         op # "create" => find = n,
         op = "create" /\ find # None => find = Parent[n],
         op = "create" => /\ row[n] = "absent"
                          /\ \A q \in Reqs : ~(req[q].op = "create" /\ req[q].node = n)
  PROVE  TInv'
<1> DEFINE l == IF find = None THEN "write" ELSE "find"
           new == [Idle EXCEPT !.pc = l, !.op = op, !.node = n, !.find = find, !.climb = climb]
<1>1. req' = [req EXCEPT ![r] = new]
  BY Zenon DEF Handle
<1>2. /\ UNCHANGED <<row, ver, list, lateLists>> /\ writes' \in Nat
      /\ tree' \in [Curricula -> Snapshots \cup {None}] /\ lateTrees' \subseteq Curricula /\ lateLists' \subseteq ListKeys
  BY DEF Handle, caches, trees, lists, TInv, TypeOK
<1>3. l \in {"find", "write"} /\ (l = "write" <=> find = None)
  OBVIOUS
<1> HIDE DEF l
<1>4. Idle \in Request
  BY IdleOK DEF Typed
<1>5. new \in Request
  BY <1>3, <1>4 DEF Request
<1>6. /\ new.pc = l /\ new.op = op /\ new.node = n /\ new.find = find /\ new.climb = climb
  BY <1>4 DEF Request
<1> HIDE DEF new
<1>7. Typed(new)
  BY <1>5, <1>6 DEF Typed, WriteOps
<1>8. RecordOK(new)
  BY <1>3, <1>6 DEF RecordOK, WriteAwaits, WriteOps
<1>9. \A k \in ListKeys : ~Dropping(req[r], k)
  BY DEF Dropping, Idle, WriteOps
<1>10. QED
  BY <1>1, <1>2, <1>6, <1>7, <1>8, <1>9, Moves

\* The routes of each table hand over a row that exists or a fresh one, and its ancestors.
LEMMA RoutesKeep ==
  ASSUME TInv, NEW r \in Reqs, req[r] = Idle, NEW n \in Nodes,
         \/ CurriculumRoutes(r, n) \/ ChapterRoutes(r, n) \/ SectionRoutes(r, n)
         \/ TopicRoutes(r, n) \/ ObjectiveRoutes(r, n)
  PROVE  TInv'
<1>1. ASSUME NEW climb \in Seq(Nodes), NEW op \in {"update", "delete"}, Handle(r, n, op, n, climb),
             Table[n] = "curriculum" => climb = <<>>
      PROVE  TInv'
  BY <1>1, NoneIsFresh, HandleKeeps DEF WriteOps
<1>2. ASSUME NEW climb \in Seq(Nodes), NEW t, Fresh(n, t), Handle(r, Parent[n], "create", n, climb),
             Parent[n] \in Nodes, Table[n] # "curriculum"
      PROVE  TInv'
  BY <1>2, NoneIsFresh, HandleKeeps DEF WriteOps, Fresh
<1>3. CASE CurriculumRoutes(r, n)
  <2>1. <<>> \in Seq(Nodes)
    OBVIOUS
  <2>2. CASE CreateCurriculum(r, n)
    BY <2>1, <2>2, HandleKeeps DEF CreateCurriculum, Fresh, WriteOps
  <2>3. CASE UpdateCurriculum(r, n) \/ DeleteCurriculum(r, n)
    BY <1>1, <2>1, <2>3 DEF UpdateCurriculum, DeleteCurriculum
  <2>4. QED
    BY <1>3, <2>2, <2>3 DEF CurriculumRoutes
<1>4. CASE ChapterRoutes(r, n)
  <2>1. Table[n] = "chapter"
    BY <1>4 DEF ChapterRoutes, CreateChapter, UpdateChapter, DeleteChapter, Fresh, Known
  <2>2. Parent[n] \in Nodes /\ <<>> \in Seq(Nodes)
    BY <2>1, ParentTable
  <2>3. CASE CreateChapter(r, n)
    BY <1>2, <2>1, <2>2, <2>3 DEF CreateChapter, Up
  <2>4. CASE UpdateChapter(r, n) \/ DeleteChapter(r, n)
    BY <1>1, <2>2, <2>4 DEF UpdateChapter, DeleteChapter
  <2>5. QED
    BY <1>4, <2>3, <2>4 DEF ChapterRoutes
<1>5. CASE SectionRoutes(r, n)
  <2>1. Table[n] = "section"
    BY <1>5 DEF SectionRoutes, CreateSection, UpdateSection, DeleteSection, Fresh, Known
  <2>2. Parent[n] \in Nodes /\ <<>> \in Seq(Nodes)
    BY <2>1, ParentTable
  <2>3. <<Up(n)>> \in Seq(Nodes)
    BY <2>2 DEF Up
  <2>4. CASE CreateSection(r, n)
    BY <1>2, <2>1, <2>2, <2>4 DEF CreateSection, Up
  <2>5. CASE UpdateSection(r, n) \/ DeleteSection(r, n)
    BY <1>1, <2>1, <2>3, <2>5 DEF UpdateSection, DeleteSection
  <2>6. QED
    BY <1>5, <2>4, <2>5 DEF SectionRoutes
<1>6. CASE TopicRoutes(r, n)
  <2>1. Table[n] = "topic"
    BY <1>6 DEF TopicRoutes, CreateTopic, UpdateTopic, DeleteTopic, Fresh, Known
  <2>2. Parent[n] \in Nodes /\ Parent[Parent[n]] \in Nodes
    BY <2>1, ParentTable
  <2>3. <<Up(Up(n))>> \in Seq(Nodes) /\ TopicParents(Up(n)) \in Seq(Nodes)
    BY <2>2 DEF Up, TopicParents
  <2>4. CASE CreateTopic(r, n)
    BY <1>2, <2>1, <2>2, <2>3, <2>4 DEF CreateTopic, Up
  <2>5. CASE UpdateTopic(r, n) \/ DeleteTopic(r, n)
    BY <1>1, <2>1, <2>3, <2>5 DEF UpdateTopic, DeleteTopic
  <2>6. QED
    BY <1>6, <2>4, <2>5 DEF TopicRoutes
<1>7. CASE ObjectiveRoutes(r, n)
  <2>1. Table[n] = "objective"
    BY <1>7 DEF ObjectiveRoutes, CreateObjective, UpdateObjective, DeleteObjective, Fresh, Known
  <2>2. Parent[n] \in Nodes /\ Parent[Parent[n]] \in Nodes /\ Parent[Parent[Parent[n]]] \in Nodes
    BY <2>1, ParentTable
  <2>3. <<Up(n)>> \in Seq(Nodes) /\ TopicParents(Up(Up(n))) \in Seq(Nodes)
    BY <2>2 DEF Up, TopicParents
  <2>4. <<Up(n)>> \o TopicParents(Up(Up(n))) \in Seq(Nodes)
    BY <2>3, ConcatProperties
  <2>5. CASE CreateObjective(r, n)
    BY <1>2, <2>1, <2>2, <2>3, <2>5 DEF CreateObjective, Up
  <2>6. CASE UpdateObjective(r, n) \/ DeleteObjective(r, n)
    BY <1>1, <2>1, <2>4, <2>6 DEF UpdateObjective, DeleteObjective
  <2>7. QED
    BY <1>7, <2>5, <2>6 DEF ObjectiveRoutes
<1>8. QED
  BY <1>3, <1>4, <1>5, <1>6, <1>7

\* Reads arrive with their curriculum or filter and nothing else.
LEMMA ReadsArrive ==
  ASSUME TInv, NEW r \in Reqs, req[r] = Idle,
         \/ \E c \in Curricula : FindCurriculumById(r, c)
         \/ \E f \in Filters : FindCurriculumList(r, f)
  PROVE  TInv'
<1>1. /\ writes' \in Nat /\ UNCHANGED <<row, ver, list, lateLists>>
      /\ tree' \in [Curricula -> Snapshots \cup {None}] /\ lateTrees' \subseteq Curricula /\ lateLists' \subseteq ListKeys
  BY DEF FindCurriculumById, FindCurriculumList, rows, caches, trees, lists, TInv, TypeOK
<1>2. \A k \in ListKeys : ~Dropping(req[r], k)
  BY DEF Dropping, Idle, WriteOps
<1>3. Idle \in Request
  BY IdleOK DEF Typed
<1>4. ASSUME NEW c \in Curricula, FindCurriculumById(r, c) PROVE TInv'
  <2> DEFINE new == [Idle EXCEPT !.pc = "getTree", !.op = "tree", !.node = c]
  <2>1. req' = [req EXCEPT ![r] = new]
    BY <1>4 DEF FindCurriculumById
  <2>2. c \in Nodes /\ Table[c] = "curriculum"
    BY DEF Curricula
  <2>3. new \in Request /\ new.pc = "getTree" /\ new.op = "tree" /\ new.node = c
    BY <1>3, <2>2 DEF Request
  <2> HIDE DEF new
  <2>4. Typed(new) /\ RecordOK(new)
    BY <2>2, <2>3 DEF Typed, RecordOK, WriteOps, WriteAwaits
  <2>5. QED
    BY <1>1, <1>2, <2>1, <2>3, <2>4, Moves
<1>5. ASSUME NEW f \in Filters, FindCurriculumList(r, f) PROVE TInv'
  <2> DEFINE new == [Idle EXCEPT !.pc = "getList", !.op = "list", !.filter = f]
  <2>1. req' = [req EXCEPT ![r] = new]
    BY <1>5 DEF FindCurriculumList
  <2>2. new \in Request /\ new.pc = "getList" /\ new.op = "list" /\ new.filter = f
    BY <1>3 DEF Request
  <2> HIDE DEF new
  <2>3. Typed(new) /\ RecordOK(new)
    BY <2>2 DEF Typed, RecordOK, WriteOps, WriteAwaits
  <2>4. QED
    BY <1>1, <1>2, <2>1, <2>2, <2>3, Moves
<1>6. QED
  BY <1>4, <1>5

-----------------------------------------------------------------------------
(* Awaits that leave the rows alone *)

\* What is shared by the steps below.
LEMMA RestTyped ==
  ASSUME TInv, UNCHANGED <<rows, caches>>
  PROVE  /\ writes' \in Nat /\ UNCHANGED <<row, ver, list, lateLists>>
         /\ tree' \in [Curricula -> Snapshots \cup {None}] /\ lateTrees' \subseteq Curricula /\ lateLists' \subseteq ListKeys
BY DEF rows, caches, trees, lists, TInv, TypeOK

\* A row that was live when it was looked for is written.
LEMMA FindKeeps ==
  ASSUME TInv, NEW r \in Reqs, Find(r)
  PROVE  TInv'
<1> DEFINE q == req[r]
           new == [q EXCEPT !.pc = "write"]
<1>1. Typed(q) /\ RecordOK(q) /\ q.pc = "find" /\ UNCHANGED <<rows, caches>>
  BY TypedRequests DEF TInv, ReqsOK, Find, At
<1>2. \A k \in ListKeys : ~Dropping(q, k)
  BY <1>1 DEF Dropping
<1>3. CASE Finish(r)
  BY <1>1, <1>2, <1>3, Ends
<1>4. CASE Live(q.find) /\ req' = [req EXCEPT ![r] = new]
  <2>1. /\ new \in Request /\ new.pc = "write" /\ new.op = q.op /\ new.node = q.node
        /\ new.climb = q.climb /\ new.filter = q.filter
    BY <1>1 DEF Typed, Request
  <2>2. row[q.find] = "live" /\ q.op \in WriteOps
    BY <1>1, <1>4 DEF Live, RecordOK, WriteAwaits
  <2>3. Typed(new)
    BY <1>1, <2>1 DEF Typed
  <2>4. RecordOK(new)
    BY <1>1, <2>1, <2>2 DEF RecordOK, WriteAwaits, WriteOps
  <2> HIDE DEF new
  <2>5. QED
    BY <1>1, <1>2, <1>4, <2>1, <2>3, <2>4, RestTyped, Moves
<1>5. QED
  BY <1>3, <1>4 DEF Find

\* A climb reads ancestors only, and no curriculum climbs.
LEMMA ClimbKeeps ==
  ASSUME TInv, NEW r \in Reqs, Climb(r)
  PROVE  TInv'
<1> DEFINE q == req[r]
           rest == Tail(q.climb)
           l == IF rest = <<>> THEN "delTree" ELSE "climb"
           new == [q EXCEPT !.climb = rest, !.pc = l]
<1>1. Typed(q) /\ RecordOK(q) /\ q.pc = "climb" /\ UNCHANGED <<rows, caches>>
  BY TypedRequests DEF TInv, ReqsOK, Climb, At
<1>2. \A k \in ListKeys : ~Dropping(q, k)
  BY <1>1 DEF Dropping
<1>3. CASE Finish(r)
  BY <1>1, <1>2, <1>3, Ends
<1>4. CASE req' = [req EXCEPT ![r] = new]
  <2>1. rest \in Seq(Nodes)
    BY <1>1 DEF Typed, Request, RecordOK
  <2>2. l \in {"delTree", "climb"} /\ (l = "climb" => rest # <<>>)
    OBVIOUS
  <2> HIDE DEF l, rest
  <2>3. /\ new \in Request /\ new.pc = l /\ new.op = q.op /\ new.node = q.node /\ new.climb = rest
        /\ new.filter = q.filter
    BY <1>1, <2>1, <2>2 DEF Typed, Request
  <2>4. q.op \in WriteOps /\ Table[q.node] # "curriculum"
    BY <1>1 DEF RecordOK, WriteAwaits
  <2>5. Typed(new)
    BY <1>1, <2>3 DEF Typed
  <2>6. RecordOK(new)
    BY <2>2, <2>3, <2>4 DEF RecordOK, WriteAwaits
  <2> HIDE DEF new
  <2>7. QED
    BY <1>1, <1>2, <1>4, <2>3, <2>5, <2>6, RestTyped, Moves
<1>5. QED
  BY <1>3, <1>4 DEF Climb

\* Dropping the tree comes before dropping the lists.
LEMMA DelTreeKeeps ==
  ASSUME TInv, NEW r \in Reqs, DelTree(r)
  PROVE  TInv'
<1> DEFINE q == req[r]
           c == Root(q.node)
           new == [q EXCEPT !.pc = "keys"]
<1>1. Typed(q) /\ RecordOK(q) /\ q.pc = "delTree" /\ req' = [req EXCEPT ![r] = new]
  BY TypedRequests DEF TInv, ReqsOK, DelTree, At
<1>2. /\ new \in Request /\ new.pc = "keys" /\ new.op = q.op /\ new.node = q.node
      /\ new.climb = q.climb /\ new.filter = q.filter
  BY <1>1 DEF Typed, Request
<1>3. Typed(new) /\ RecordOK(new)
  BY <1>1, <1>2 DEF Typed, RecordOK, WriteAwaits
<1>4. \A k \in ListKeys : Dropping(q, k) => Dropping(new, k)
  BY <1>2 DEF Dropping
<1>5. /\ writes' \in Nat /\ UNCHANGED <<row, ver, list, lateLists>> /\ lateLists \subseteq ListKeys
      /\ tree' = [tree EXCEPT ![c] = None] /\ lateTrees' = lateTrees \ {c}
  BY DEF DelTree, rows, lists, TInv, TypeOK
<1> HIDE DEF c
<1>6. tree' \in [Curricula -> Snapshots \cup {None}] /\ lateTrees' \subseteq Curricula
  BY <1>5 DEF TInv, TypeOK
<1> HIDE DEF new
<1>7. QED
  BY <1>1, <1>2, <1>3, <1>4, <1>5, <1>6, Moves

\* A scan that does not find a key leaves no list under it.
LEMMA ScanKeysKeeps ==
  ASSUME TInv, NEW r \in Reqs, ScanKeys(r)
  PROVE  TInv'
<1> DEFINE q == req[r]
           found == {k \in ListKeys : list[k] # None}
           new == [q EXCEPT !.pc = "delList", !.keys = found]
<1>1. Typed(q) /\ RecordOK(q) /\ q.pc = "keys" /\ UNCHANGED <<rows, caches>>
  BY TypedRequests DEF TInv, ReqsOK, ScanKeys, At
<1>2. CASE found = {} /\ Finish(r)
  BY <1>1, <1>2, Ends
<1>3. CASE req' = [req EXCEPT ![r] = new]
  <2>1. found \in SUBSET ListKeys /\ \A k \in ListKeys : list[k] # None => k \in found
    OBVIOUS
  <2> HIDE DEF found
  <2>2. /\ new \in Request /\ new.pc = "delList" /\ new.op = q.op /\ new.node = q.node
        /\ new.climb = q.climb /\ new.filter = q.filter /\ new.keys = found
    BY <1>1, <2>1 DEF Typed, Request
  <2>3. Typed(new) /\ RecordOK(new)
    BY <1>1, <2>2 DEF Typed, RecordOK, WriteAwaits
  <2>4. \A k \in ListKeys : list[k] # None /\ Dropping(q, k) => Dropping(new, k)
    BY <2>1, <2>2 DEF Dropping
  <2> HIDE DEF new
  <2>5. QED
    BY <1>1, <1>3, <2>2, <2>3, <2>4, RestTyped, Moves
<1>4. QED
  BY <1>2, <1>3 DEF ScanKeys

\* A tree is read without touching lists: level after level, or a hit.
LEMMA TreeReadKeeps ==
  ASSUME TInv, NEW r \in Reqs, GetTree(r) \/ ReadLevel(r)
  PROVE  TInv'
<1> DEFINE q == req[r]
<1>1. Typed(q) /\ RecordOK(q) /\ q.pc \in {"getTree", "level"} /\ UNCHANGED <<rows, caches>>
  BY TypedRequests DEF TInv, ReqsOK, GetTree, ReadLevel, At
<1>2. \A k \in ListKeys : ~Dropping(q, k)
  BY <1>1 DEF Dropping
<1>3. q.op = "tree"
  BY <1>1 DEF RecordOK
<1>4. CASE Finish(r)
  BY <1>1, <1>2, <1>4, Ends
<1>5. ASSUME NEW l \in {"level", "setTree"}, NEW d \in 0..5, NEW S \in Snapshots,
             req' = [req EXCEPT ![r] = [q EXCEPT !.seen = S, !.depth = d, !.pc = l]]
      PROVE  TInv'
  <2> DEFINE new == [q EXCEPT !.seen = S, !.depth = d, !.pc = l]
  <2>1. /\ new \in Request /\ new.pc = l /\ new.op = q.op /\ new.node = q.node
        /\ new.climb = q.climb /\ new.filter = q.filter
    BY <1>1 DEF Typed, Request
  <2>2. Typed(new) /\ RecordOK(new)
    BY <1>1, <1>3, <2>1 DEF Typed, RecordOK, WriteAwaits, WriteOps
  <2>3. req' = [req EXCEPT ![r] = new]
    BY <1>5
  <2> HIDE DEF new
  <2>4. QED
    BY <1>1, <1>2, <1>3, <2>1, <2>2, <2>3, RestTyped, Moves
<1>6. q.seen \in Snapshots /\ q.depth \in 0..5 /\ q \in Request
  BY <1>1 DEF Typed, Request
<1>7. CASE GetTree(r) /\ ~Finish(r)
  <2>1. req' = [req EXCEPT ![r] = [q EXCEPT !.pc = "level", !.depth = 1]]
    BY <1>7 DEF GetTree
  <2>2. [q EXCEPT !.pc = "level", !.depth = 1] = [q EXCEPT !.seen = q.seen, !.depth = 1, !.pc = "level"]
    BY <1>6 DEF Request
  <2>3. req' = [req EXCEPT ![r] = [q EXCEPT !.seen = q.seen, !.depth = 1, !.pc = "level"]]
    BY <2>1, <2>2, Zenon
  <2>4. 1 \in 0..5 /\ "level" \in {"level", "setTree"}
    OBVIOUS
  <2>5. QED
    BY <1>5, <1>6, <2>3, <2>4, Zenon
<1>8. CASE ReadLevel(r) /\ ~Finish(r)
  <2> DEFINE found == LevelOf(q.node, q.depth, q.seen)
             d == IF q.depth < 5 THEN q.depth + 1 ELSE 0
             l == IF q.depth < 5 THEN "level" ELSE "setTree"
  <2>1. req' = [req EXCEPT ![r] = [q EXCEPT !.seen = q.seen \cup found, !.depth = d, !.pc = l]]
    BY <1>8 DEF ReadLevel
  <2>2. found \in Snapshots
    BY DEF LevelOf, Snapshots, TInv, TypeOK
  <2>3. q.seen \cup found \in Snapshots /\ d \in 0..5 /\ l \in {"level", "setTree"}
    BY <1>6, <2>2 DEF Snapshots
  <2> HIDE DEF found, d, l
  <2>4. QED
    BY <1>5, <2>1, <2>3
<1>9. QED
  BY <1>4, <1>7, <1>8

\* A tree that is stored changes no list.
LEMMA SetTreeKeeps ==
  ASSUME TInv, NEW r \in Reqs, SetTree(r)
  PROVE  TInv'
<1> DEFINE q == req[r]
<1>1. Typed(q) /\ RecordOK(q) /\ q.pc = "setTree" /\ UNCHANGED <<rows, lists>> /\ Finish(r)
      /\ tree' = [tree EXCEPT ![q.node] = q.seen] /\ lateTrees' \subseteq lateTrees \cup {q.node}
  BY TypedRequests DEF TInv, ReqsOK, SetTree, At
<1>2. q.op = "tree" /\ q.node \in Curricula /\ q.seen \in Snapshots
  BY <1>1 DEF RecordOK, Typed, Request, Curricula
<1>3. /\ writes' \in Nat /\ UNCHANGED <<row, ver, list, lateLists>> /\ lateLists \subseteq ListKeys
      /\ tree' \in [Curricula -> Snapshots \cup {None}] /\ lateTrees' \subseteq Curricula
  BY <1>1, <1>2 DEF rows, lists, TInv, TypeOK
<1>4. req' = [req EXCEPT ![r] = Idle] /\ Idle.op = "none" /\ \A k \in ListKeys : ~Dropping(q, k)
  BY <1>1 DEF Finish, Idle, Dropping
<1>5. QED
  BY <1>3, <1>4, IdleOK, Moves

\* A list is read in one statement.
LEMMA ListReadKeeps ==
  ASSUME TInv, NEW r \in Reqs, GetList(r) \/ ReadList(r)
  PROVE  TInv'
<1> DEFINE q == req[r]
<1>1. Typed(q) /\ RecordOK(q) /\ q.pc \in {"getList", "readList"} /\ UNCHANGED <<rows, caches>>
  BY TypedRequests DEF TInv, ReqsOK, GetList, ReadList, At
<1>2. (\A k \in ListKeys : ~Dropping(q, k)) /\ q.op = "list" /\ q.seen \in Snapshots
  BY <1>1 DEF Dropping, RecordOK, Typed, Request
<1>3. CASE Finish(r)
  BY <1>1, <1>2, <1>3, Ends
<1>4. ASSUME NEW l \in {"readList", "setList"}, NEW S \in Snapshots,
             req' = [req EXCEPT ![r] = [q EXCEPT !.pc = l, !.seen = S]]
      PROVE  TInv'
  <2> DEFINE new == [q EXCEPT !.pc = l, !.seen = S]
  <2>1. /\ new \in Request /\ new.pc = l /\ new.op = q.op /\ new.node = q.node
        /\ new.climb = q.climb /\ new.filter = q.filter
    BY <1>1 DEF Typed, Request
  <2>2. Typed(new) /\ RecordOK(new)
    BY <1>1, <1>2, <2>1 DEF Typed, RecordOK, WriteAwaits, WriteOps
  <2>3. req' = [req EXCEPT ![r] = new]
    BY <1>4
  <2> HIDE DEF new
  <2>4. QED
    BY <1>1, <1>2, <2>1, <2>2, <2>3, RestTyped, Moves
<1>5. CASE GetList(r) /\ ~Finish(r)
  <2>1. req' = [req EXCEPT ![r] = [q EXCEPT !.pc = "readList"]]
    BY <1>5 DEF GetList
  <2>2. [q EXCEPT !.pc = "readList"] = [q EXCEPT !.pc = "readList", !.seen = q.seen]
    BY <1>1 DEF Typed, Request
  <2>3. QED
    BY <1>2, <1>4, <2>1, <2>2
<1>6. CASE ReadList(r)
  <2>1. ListOf(q.filter) \in Snapshots
    BY ListTypes DEF TInv
  <2>2. req' = [req EXCEPT ![r] = [q EXCEPT !.pc = "setList", !.seen = ListOf(q.filter)]]
    BY <1>6 DEF ReadList
  <2>3. QED
    BY <1>4, <2>1, <2>2
<1>7. QED
  BY <1>3, <1>5, <1>6

-----------------------------------------------------------------------------
(* Steps that change a list *)

\* Lists change, rows do not: every list left is one there was, or has an excuse.
LEMMA ListsChange ==
  ASSUME TInv, NEW r, (r \in Reqs /\ req' = [req EXCEPT ![r] = Idle]) \/ req' = req,
         UNCHANGED <<row, ver, writes, tree, lateTrees>>, lateLists' \subseteq ListKeys,
         list' \in [ListKeys -> [of : Filters, rows : Snapshots] \cup {None}],
         \A k \in ListKeys : StaleList(k)' =>
            \/ k \in lateLists'
            \/ /\ list'[k] = list[k] /\ (k \in lateLists => k \in lateLists')
               /\ req' = req \/ ~Dropping(req[r], k)
  PROVE  TInv'
<1>1. Idle.op = "none"
  BY DEF Idle
<1>2. /\ req' \in [Reqs -> Request] /\ (\A q \in Reqs : Typed(req'[q])) /\ ReqsOK' /\ OneCreator'
      /\ \A q \in Reqs : q # r => req'[q] = req[q]
  <2>1. CASE r \in Reqs /\ req' = [req EXCEPT ![r] = Idle]
    BY <1>1, <2>1, IdleOK, OneRequest
  <2>2. CASE req' = req
    BY <2>2, TypedRequests DEF TInv, TypeOK, ReqsOK, RecordOK, OneCreator
  <2>3. QED
    BY <2>1, <2>2
<1>3. TypeOK'
  BY <1>2 DEF TInv, TypeOK, Typed
<1>4. ListCause'
  <2> SUFFICES ASSUME NEW k \in ListKeys, StaleList(k)', k \notin lateLists'
               PROVE  \E q \in Reqs : Dropping(req'[q], k)
    BY DEF ListCause, Dropping
  <2>1. /\ list'[k] = list[k] /\ k \notin lateLists /\ (req' = req \/ ~Dropping(req[r], k))
    OBVIOUS
  <2>2. \A f : ListOf(f)' = ListOf(f)
    BY ListDepends DEF Live
  <2>3. StaleList(k)
    BY <2>1, <2>2 DEF StaleList
  <2>4. PICK q \in Reqs : Dropping(req[q], k)
    BY <2>1, <2>3 DEF TInv, ListCause
  <2>5. req'[q] = req[q]
    BY <1>2, <2>1, <2>4
  <2>6. QED
    BY <2>4, <2>5
<1>5. QED
  BY <1>2, <1>3, <1>4 DEF TInv

\* The lists a write has found are gone; the others were not its to drop.
LEMMA DelListKeeps ==
  ASSUME TInv, NEW r \in Reqs, DelList(r)
  PROVE  TInv'
<1> DEFINE q == req[r]
<1>1. /\ q.pc = "delList" /\ req' = [req EXCEPT ![r] = Idle]
      /\ list' = [k \in ListKeys |-> IF k \in q.keys THEN None ELSE list[k]]
      /\ lateLists' = lateLists \ q.keys
      /\ UNCHANGED <<row, ver, writes, tree, lateTrees>>
  BY DEF DelList, At, Finish, rows, trees
<1>2. list' \in [ListKeys -> [of : Filters, rows : Snapshots] \cup {None}] /\ lateLists' \subseteq ListKeys
  BY <1>1 DEF TInv, TypeOK
<1>3. ASSUME NEW k \in ListKeys, StaleList(k)'
      PROVE  list'[k] = list[k] /\ (k \in lateLists => k \in lateLists') /\ ~Dropping(q, k)
  <2>1. k \notin q.keys
    BY <1>1, <1>3 DEF StaleList
  <2>2. QED
    BY <1>1, <2>1 DEF Dropping
<1>4. QED
  BY <1>1, <1>2, <1>3, ListsChange

\* A list that is stored is current, or entered as late.
LEMMA SetListKeeps ==
  ASSUME TInv, NEW r \in Reqs, SetList(r)
  PROVE  TInv'
<1> DEFINE q == req[r]
           f == q.filter
           k == ListKey(f)
           c == [of |-> f, rows |-> q.seen]
<1>1. /\ q.pc = "setList" /\ req' = [req EXCEPT ![r] = Idle]
      /\ list' = [list EXCEPT ![k] = c]
      /\ lateLists' = IF q.seen = ListOf(f) THEN lateLists \ {k} ELSE lateLists \cup {k}
      /\ UNCHANGED <<row, ver, writes, tree, lateTrees>>
  BY DEF SetList, At, Finish, rows, trees
<1>2. Typed(q) /\ RecordOK(q)
  BY TypedRequests DEF TInv, ReqsOK
<1>3. q.op = "list" /\ f \in Filters /\ q.seen \in Snapshots
  BY <1>1, <1>2 DEF RecordOK, Typed, Request
<1>4. k \in ListKeys
  BY <1>3, ListKeyIsKey
<1>5. c \in [of : Filters, rows : Snapshots] /\ c.of = f /\ c.rows = q.seen
  BY <1>3
<1> HIDE DEF c, k
<1>6. list' \in [ListKeys -> [of : Filters, rows : Snapshots] \cup {None}] /\ lateLists' \subseteq ListKeys
  BY <1>1, <1>4, <1>5 DEF TInv, TypeOK
<1>7. list'[k] = c /\ \A j \in ListKeys : j # k => list'[j] = list[j]
  BY <1>1, <1>4 DEF TInv, TypeOK
<1>8. \A g : ListOf(g)' = ListOf(g)
  BY <1>1, ListDepends DEF Live
<1>9. ASSUME NEW j \in ListKeys, StaleList(j)'
      PROVE  \/ j \in lateLists'
             \/ list'[j] = list[j] /\ (j \in lateLists => j \in lateLists') /\ ~Dropping(q, j)
  <2>1. ~Dropping(q, j)
    BY <1>1 DEF Dropping
  <2>2. CASE j = k
    <3>1. (list[j].rows # ListOf(list[j].of))'
      BY <1>9 DEF StaleList
    <3>2. list'[j].rows = q.seen /\ list'[j].of = f
      BY <1>5, <1>7, <2>2
    <3>3. ListOf(list[j].of)' = ListOf(f)
      BY <1>1, <3>2 DEF ListOf, Live
    <3>4. q.seen # ListOf(f)
      BY <3>1, <3>2, <3>3
    <3>5. QED
      BY <1>1, <2>2, <3>4
  <2>3. CASE j # k
    BY <1>1, <1>7, <2>1, <2>3
  <2>4. QED
    BY <2>2, <2>3
<1>10. QED
  BY <1>1, <1>6, <1>9, ListsChange

\* TTLs only remove copies.
LEMMA FadeListKeeps ==
  ASSUME TInv, NEW k \in ListKeys, FadeList(k)
  PROVE  TInv'
<1>1. /\ req' = req /\ list' = [list EXCEPT ![k] = None] /\ lateLists' = lateLists \ {k}
      /\ UNCHANGED <<row, ver, writes, tree, lateTrees>>
  BY DEF FadeList, rows, trees
<1>2. list' \in [ListKeys -> [of : Filters, rows : Snapshots] \cup {None}] /\ lateLists' \subseteq ListKeys
  BY <1>1 DEF TInv, TypeOK
<1>3. ASSUME NEW j \in ListKeys, StaleList(j)'
      PROVE  list'[j] = list[j] /\ (j \in lateLists => j \in lateLists')
  <2>1. j # k
    BY <1>1, <1>3 DEF StaleList, TInv, TypeOK
  <2>2. QED
    BY <1>1, <2>1 DEF TInv, TypeOK
<1>4. QED
  BY <1>1, <1>2, <1>3, ListsChange

LEMMA FadeTreeKeeps ==
  ASSUME TInv, NEW c \in Curricula, FadeTree(c)
  PROVE  TInv'
<1>1. /\ req' = req /\ UNCHANGED <<row, ver, writes, list, lateLists>>
      /\ tree' = [tree EXCEPT ![c] = None] /\ lateTrees' = lateTrees \ {c}
  BY DEF FadeTree, rows, lists
<1>2. TypeOK'
  BY <1>1 DEF TInv, TypeOK
<1>3. ReqsOK' /\ OneCreator'
  BY <1>1 DEF TInv, ReqsOK, RecordOK, OneCreator
<1>4. \A f : ListOf(f)' = ListOf(f)
  BY <1>1, ListDepends DEF Live
<1>5. ListCause'
  BY <1>1, <1>4 DEF TInv, ListCause, StaleList, Dropping
<1>6. QED
  BY <1>2, <1>3, <1>5 DEF TInv

-----------------------------------------------------------------------------
(* The step that changes a row *)

\* What a write finds and leaves in its row.
LEMMA WriteRow ==
  ASSUME TInv, NEW r \in Reqs, Write(r)
  PROVE  LET q == req[r] IN
         /\ Typed(q) /\ RecordOK(q) /\ q.pc = "write" /\ q.op \in WriteOps /\ q.node \in Nodes
         /\ q.op = "create" => row[q.node] = "absent"
         /\ q.op # "create" => row[q.node] \in {"live", "deleted"}
         /\ row' \in [Nodes -> {"absent", "live", "deleted", "expired", "purged"}]
         /\ ver' \in [Nodes -> Nat]
         /\ row'[q.node] \in {"live", "deleted"}
         /\ row[q.node] # "absent" => row'[q.node] = row[q.node] \/ row'[q.node] = "deleted"
         /\ \A m \in Nodes : m # q.node => row'[m] = row[m] /\ ver'[m] = ver[m]
<1> DEFINE q == req[r]
<1>1. Typed(q) /\ RecordOK(q) /\ q.pc = "write"
  BY TypedRequests DEF TInv, ReqsOK, Write, At
<1>2. q.op \in WriteOps /\ q.node \in Nodes
  BY <1>1 DEF RecordOK, WriteAwaits, Typed
<1>3. /\ q.op = "create" => row[q.node] = "absent"
      /\ q.op # "create" => row[q.node] \in {"live", "deleted"}
  BY <1>1, <1>2 DEF RecordOK, WriteOps
<1>4. row \in [Nodes -> {"absent", "live", "deleted", "expired", "purged"}] /\ ver \in [Nodes -> Nat]
  BY DEF TInv, TypeOK
<1>5. CASE q.op = "create" /\ Insert(q.node)
  BY <1>1, <1>2, <1>3, <1>4, <1>5 DEF Insert
<1>6. CASE q.op = "update" /\ Overwrite(q.node)
  BY <1>1, <1>2, <1>3, <1>4, <1>6 DEF Overwrite
<1>7. CASE q.op = "delete" /\ SoftDelete(q.node)
  BY <1>1, <1>2, <1>3, <1>4, <1>7 DEF SoftDelete
<1>8. QED
  BY <1>5, <1>6, <1>7 DEF Write

LEMMA WriteKeeps ==
  ASSUME TInv, NEW r \in Reqs, Write(r)
  PROVE  TInv'
<1> DEFINE q == req[r]
           new == [q EXCEPT !.pc = AfterWrite(q)]
<1>1. /\ Typed(q) /\ RecordOK(q) /\ q.pc = "write" /\ q.op \in WriteOps /\ q.node \in Nodes
      /\ q.op = "create" => row[q.node] = "absent"
      /\ q.op # "create" => row[q.node] \in {"live", "deleted"}
      /\ row' \in [Nodes -> {"absent", "live", "deleted", "expired", "purged"}]
      /\ ver' \in [Nodes -> Nat]
      /\ row'[q.node] \in {"live", "deleted"}
      /\ \A m \in Nodes : m # q.node => row'[m] = row[m] /\ ver'[m] = ver[m]
  BY WriteRow
<1>2. req' = [req EXCEPT ![r] = new] /\ UNCHANGED <<writes, tree, lateTrees, list, lateLists>>
  BY DEF Write, caches, trees, lists
<1>3. /\ AfterWrite(q) \in {"climb", "keys", "delTree"}
      /\ AfterWrite(q) = "climb" <=> q.climb # <<>>
  BY DEF AfterWrite
<1>4. /\ new \in Request /\ new.pc = AfterWrite(q) /\ new.op = q.op /\ new.node = q.node
      /\ new.climb = q.climb /\ new.filter = q.filter
  BY <1>1, <1>3 DEF Typed, Request
<1> HIDE DEF new
<1>5. req'[r] = new /\ \A p \in Reqs : p # r => req'[p] = req[p]
  BY <1>2 DEF TInv, TypeOK
<1>6. TypeOK'
  <2>1. Typed(new)
    BY <1>1, <1>4 DEF Typed
  <2>2. req' \in [Reqs -> Request] /\ \A p \in Reqs : Typed(req'[p])
    BY <1>2, <1>5, <2>1, TypedRequests DEF TInv, TypeOK, Typed
  <2>3. QED
    BY <1>1, <1>2, <2>2 DEF TInv, TypeOK, Typed
<1>7. ReqsOK'
  <2> SUFFICES ASSUME NEW p \in Reqs PROVE RecordOK(req[p])'
    BY DEF ReqsOK
  <2>1. CASE p = r
    BY <1>1, <1>3, <1>4, <1>5, <2>1 DEF RecordOK, WriteAwaits
  <2>2. CASE p # r
    <3>1. RecordOK(req[p]) /\ Typed(req[p]) /\ req'[p] = req[p]
      BY <1>5, <2>2, TypedRequests DEF TInv, ReqsOK
    <3>2. req[p].op = "create" /\ req[p].pc \in {"find", "write"} => req[p].node # q.node
      BY <1>1, <2>2, <3>1 DEF TInv, OneCreator, RecordOK
    <3>3. req[p].op \in WriteOps => req[p].node \in Nodes
      BY <3>1 DEF Typed
    <3>4. req[p].op = "create" /\ req[p].pc = "write" /\ Table[req[p].node] # "curriculum" =>
            Parent[req[p].node] \in Nodes
      BY <3>3, ParentTable DEF WriteOps
    <3>5. QED
      BY <1>1, <3>1, <3>2, <3>3, <3>4 DEF RecordOK, WriteOps
  <2>3. QED
    BY <2>1, <2>2
<1>8. OneCreator'
  BY <1>4, <1>5 DEF TInv, OneCreator
<1>9. ListCause'
  <2> SUFFICES ASSUME NEW k \in ListKeys, StaleList(k)', k \notin lateLists
               PROVE  \E p \in Reqs : Dropping(req'[p], k)
    BY <1>2 DEF ListCause, Dropping
  <2>1. CASE Table[q.node] = "curriculum"
    <3>1. q.climb = <<>>
      BY <1>1, <2>1 DEF RecordOK
    <3>2. QED
      BY <1>1, <1>3, <1>4, <1>5, <2>1, <3>1 DEF Dropping
  <2>2. CASE Table[q.node] # "curriculum"
    <3>1. \A c \in Curricula : c \in Nodes /\ c # q.node
      BY <2>2 DEF Curricula
    <3>2. \A f : ListOf(f)' = ListOf(f)
      BY <1>1, <3>1, ListDepends DEF Live
    <3>3. StaleList(k)
      BY <1>2, <3>2 DEF StaleList
    <3>4. PICK p \in Reqs : Dropping(req[p], k)
      BY <3>3 DEF TInv, ListCause
    <3>5. p # r
      BY <1>1, <3>4 DEF Dropping
    <3>6. QED
      BY <1>5, <3>4, <3>5
  <2>3. QED
    BY <2>1, <2>2
<1>10. QED
  BY <1>6, <1>7, <1>8, <1>9 DEF TInv

\* Each step of a request or of a TTL keeps the invariant.
LEMMA NextKeeps == ASSUME TInv, [Next]_vars PROVE TInv'
<1>1. CASE UNCHANGED vars
  <2>1. UNCHANGED <<row, ver, writes, tree, list, req, lateTrees, lateLists>>
    BY <1>1 DEF vars
  <2>2. \A f : ListOf(f)' = ListOf(f)
    BY <2>1, ListDepends DEF Live
  <2>3. TypeOK' /\ ReqsOK' /\ OneCreator'
    BY <2>1 DEF TInv, TypeOK, ReqsOK, RecordOK, OneCreator
  <2>4. ListCause'
    BY <2>1, <2>2 DEF TInv, ListCause, StaleList, Dropping
  <2>5. QED
    BY <2>3, <2>4 DEF TInv
<1>2. ASSUME NEW r \in Reqs, Arrive(r) PROVE TInv'
  BY <1>2, RoutesKeep, ReadsArrive DEF Arrive
<1>3. ASSUME NEW r \in Reqs, WriteStep(r) PROVE TInv'
  BY <1>3, FindKeeps, WriteKeeps, ClimbKeeps, DelTreeKeeps, ScanKeysKeeps, DelListKeeps DEF WriteStep
<1>4. ASSUME NEW r \in Reqs, ReadStep(r) PROVE TInv'
  BY <1>4, TreeReadKeeps, SetTreeKeeps, ListReadKeeps, SetListKeeps DEF ReadStep
<1>5. QED
  BY <1>1, <1>2, <1>3, <1>4, FadeTreeKeeps, FadeListKeeps DEF Next

-----------------------------------------------------------------------------
(* Nights *)

\* What a night under way has promised and done.
NightOK(j) ==
  /\ done[j] \in (0..5) \cup {None} /\ due[j] \subseteq Nodes /\ (done[j] = None => due[j] = {})
  /\ \A n \in due[j] : row[n] \in {"expired", "purged"}
  /\ \A n \in due[j] : done[j] # None =>
       \A i \in 1..5 : Table[n] = Targets[i] /\ i <= done[j] => row[n] = "purged"
  /\ \A n \in due[j], m \in Nodes :
       Parent[m] = n /\ row[m] \notin {"absent", "purged"} => m \in due[j]
  /\ due[j] = {} \/ Expired \subseteq due[j]

\* The inductive invariant of requests and nights together.
MInv == /\ TInv
        /\ done \in [Jobs -> (0..5) \cup {None}] /\ due \in [Jobs -> SUBSET Nodes]
        /\ \A j \in Jobs : NightOK(j)

\* A child is cleaned one statement before its parent.
LEMMA ChildIndex ==
  ASSUME NEW n \in Nodes, NEW m \in Nodes, Parent[m] = n, NEW i \in 1..5, Table[n] = Targets[i]
  PROVE  i - 1 \in 1..5 /\ Table[m] = Targets[i - 1]
<1>1. /\ Targets[1] = "objective" /\ Targets[2] = "topic" /\ Targets[3] = "section"
      /\ Targets[4] = "chapter" /\ Targets[5] = "curriculum"
  BY DEF Targets
<1>2. Parent[m] # None
  BY NoneIsFresh
<1>3. Table[m] # "curriculum"
  BY <1>2, ParentTable
<1>4. i = 1 \/ i = 2 \/ i = 3 \/ i = 4 \/ i = 5
  OBVIOUS
<1>5. /\ Table[m] = "chapter" => Table[n] = "curriculum"
      /\ Table[m] = "section" => Table[n] = "chapter"
      /\ Table[m] = "topic" => Table[n] = "section"
      /\ Table[m] = "objective" => Table[n] = "topic"
      /\ Table[m] \in {"chapter", "section", "topic", "objective"}
  BY <1>3, ParentTable
<1>6. CASE i = 1
  BY <1>1, <1>5, <1>6
<1>7. CASE i = 2
  BY <1>1, <1>5, <1>7
<1>8. CASE i = 3
  BY <1>1, <1>5, <1>8
<1>9. CASE i = 4
  BY <1>1, <1>5, <1>9
<1>10. CASE i = 5
  BY <1>1, <1>5, <1>10
<1>11. QED
  BY <1>4, <1>6, <1>7, <1>8, <1>9, <1>10

\* Rows that age or go change nothing a request relies on.
LEMMA RowsSettle ==
  ASSUME TInv, UNCHANGED <<ver, writes, caches, req>>,
         row' \in [Nodes -> {"absent", "live", "deleted", "expired", "purged"}],
         \A n \in Nodes : /\ row'[n] = "absent" <=> row[n] = "absent"
                          /\ row'[n] = "live" <=> row[n] = "live",
         \/ \A r \in Reqs : req[r] = Idle
         \/ \A n \in Nodes : row[n] = "deleted" => row'[n] = "deleted"
  PROVE  TInv'
<1>1. UNCHANGED <<ver, writes, tree, list, req, lateTrees, lateLists>>
  BY DEF caches, trees, lists
<1>2. \A f : ListOf(f)' = ListOf(f)
  BY <1>1, ListDepends DEF Live, Curricula
<1>3. TypeOK'
  BY <1>1 DEF TInv, TypeOK
<1>4. ReqsOK'
  <2> SUFFICES ASSUME NEW r \in Reqs PROVE RecordOK(req[r])'
    BY DEF ReqsOK
  <2>1. RecordOK(req[r]) /\ Typed(req[r])
    BY TypedRequests DEF TInv, ReqsOK
  <2>2. CASE req[r] = Idle
    BY <1>1, <2>2 DEF RecordOK, Idle, WriteAwaits, WriteOps
  <2>3. CASE \A n \in Nodes : row[n] = "deleted" => row'[n] = "deleted"
    <3>1. req[r].op \in WriteOps => req[r].node \in Nodes
      BY <2>1 DEF Typed
    <3>2. req[r].op = "create" /\ req[r].pc = "write" /\ Table[req[r].node] # "curriculum" =>
            Parent[req[r].node] \in Nodes
      BY <3>1, ParentTable DEF WriteOps
    <3>3. QED
      BY <1>1, <2>1, <2>3, <3>1, <3>2 DEF RecordOK, WriteOps
  <2>4. QED
    BY <2>2, <2>3
<1>5. OneCreator'
  BY <1>1 DEF TInv, OneCreator
<1>6. ListCause'
  BY <1>1, <1>2 DEF TInv, ListCause, StaleList, Dropping
<1>7. QED
  BY <1>3, <1>4, <1>5, <1>6 DEF TInv

\* While a night is under way rows are made, written and purged, none expires.
LEMMA NightGoesOn ==
  ASSUME NEW j \in Jobs, NightOK(j), UNCHANGED <<done, due>>,
         \A n \in Nodes : \/ row'[n] = row[n]
                          \/ row[n] = "expired" /\ row'[n] = "purged"
                          \/ /\ row[n] \in {"absent", "live", "deleted"}
                             /\ row'[n] \in {"live", "deleted"}
                             /\ row[n] = "absent" => \A m \in due[j] : Parent[n] # m
  PROVE  NightOK(j)'
<1>1. due'[j] = due[j] /\ done'[j] = done[j]
  OBVIOUS
<1>2. \A n \in due[j] : n \in Nodes /\ row'[n] \in {"expired", "purged"} /\ (row[n] = "purged" => row'[n] = "purged")
  BY DEF NightOK
<1>3. ASSUME NEW n \in due[j], NEW m \in Nodes, Parent[m] = n, row'[m] \notin {"absent", "purged"}
      PROVE  m \in due[j]
  BY <1>3 DEF NightOK
<1>4. Expired' \subseteq Expired
  BY DEF Expired
<1>5. QED
  BY <1>1, <1>2, <1>3, <1>4 DEF NightOK

LEMMA TInvRows == ASSUME TInv PROVE row \in [Nodes -> {"absent", "live", "deleted", "expired", "purged"}]
BY DEF TInv, TypeOK

LEMMA InitMInv == MigrationInit => MInv
<1> SUFFICES ASSUME MigrationInit PROVE MInv
  OBVIOUS
<1>1. TInv
  BY InitTInv DEF MigrationInit
<1>2. \A j \in Jobs : NightOK(j)
  BY DEF MigrationInit, NightOK
<1>3. QED
  BY <1>1, <1>2 DEF MigrationInit, MInv

\* A request leaves the nights alone: the parent of a row it makes was live when it looked.
LEMMA RequestsKeepNights ==
  ASSUME MInv, Next, UNCHANGED <<done, due>>
  PROVE  MInv'
<1>1. TInv'
  BY NextKeeps DEF MInv
<1>2. ASSUME NEW j \in Jobs PROVE NightOK(j)'
  <2>1. NightOK(j) /\ TInv
    BY DEF MInv
  <2>2. CASE row' = row
    BY <2>1, <2>2, NightGoesOn
  <2>3. CASE \E r \in Reqs : Write(r)
    <3>1. PICK r \in Reqs : Write(r)
      BY <2>3
    <3> DEFINE q == req[r]
    <3>2. /\ Typed(q) /\ RecordOK(q) /\ q.pc = "write" /\ q.op \in WriteOps /\ q.node \in Nodes
          /\ q.op = "create" => row[q.node] = "absent"
          /\ q.op # "create" => row[q.node] \in {"live", "deleted"}
          /\ row'[q.node] \in {"live", "deleted"}
          /\ \A m \in Nodes : m # q.node => row'[m] = row[m]
      BY <2>1, <3>1, WriteRow
    <3>3. ASSUME row[q.node] = "absent", NEW m \in due[j], Parent[q.node] = m PROVE FALSE
      <4>1. row[m] \in {"expired", "purged"} /\ m \in Nodes
        BY <2>1 DEF NightOK
      <4>2. q.op = "create"
        BY <3>2, <3>3
      <4>3. Table[q.node] # "curriculum"
        BY <3>2, <3>3, <4>1, ParentTable, NoneIsFresh
      <4>4. row[Parent[q.node]] \in {"live", "deleted"}
        BY <3>2, <4>2, <4>3 DEF RecordOK
      <4>5. QED
        BY <3>3, <4>1, <4>4
    <3> HIDE DEF q
    <3>4. \A n \in Nodes : \/ row'[n] = row[n]
                           \/ /\ row[n] \in {"absent", "live", "deleted"}
                              /\ row'[n] \in {"live", "deleted"}
                              /\ row[n] = "absent" => \A m \in due[j] : Parent[n] # m
      BY <3>2, <3>3
    <3>5. QED
      BY <2>1, <3>4, NightGoesOn
  <2>4. row' = row \/ \E r \in Reqs : Write(r)
    <3>1. ASSUME NEW r \in Reqs, Arrive(r) PROVE row' = row
      BY <3>1 DEF Arrive, CurriculumRoutes, ChapterRoutes, SectionRoutes, TopicRoutes, ObjectiveRoutes,
            CreateCurriculum, UpdateCurriculum, DeleteCurriculum, CreateChapter, UpdateChapter, DeleteChapter,
            CreateSection, UpdateSection, DeleteSection, CreateTopic, UpdateTopic, DeleteTopic,
            CreateObjective, UpdateObjective, DeleteObjective, Handle,
            FindCurriculumById, FindCurriculumList, rows
    <3>2. ASSUME NEW r \in Reqs, WriteStep(r), ~Write(r) PROVE row' = row
      BY <3>2 DEF WriteStep, Find, Climb, DelTree, ScanKeys, DelList, rows
    <3>3. ASSUME NEW r \in Reqs, ReadStep(r) PROVE row' = row
      BY <3>3 DEF ReadStep, GetTree, ReadLevel, SetTree, GetList, ReadList, SetList, rows
    <3>4. QED
      BY <3>1, <3>2, <3>3 DEF Next, FadeTree, FadeList, rows
  <2>5. QED
    BY <2>2, <2>3, <2>4
<1>3. QED
  BY <1>1, <1>2 DEF MInv

\* No row expires while a night is under way.
LEMMA ExpireKeeps ==
  ASSUME MInv, NEW n \in Nodes, Expire(n)
  PROVE  MInv'
<1>1. /\ row[n] = "deleted" /\ row' = [row EXCEPT ![n] = "expired"]
      /\ UNCHANGED <<ver, writes, caches, req>> /\ UNCHANGED <<done, due>>
      /\ (\A r \in Reqs : req[r] = Idle) /\ \A j \in Jobs : done[j] = None
  BY DEF Expire
<1>2. TInv'
  BY <1>1, TInvRows, RowsSettle DEF MInv
<1>3. \A j \in Jobs : NightOK(j)'
  BY <1>1 DEF MInv, NightOK
<1>4. QED
  BY <1>1, <1>2, <1>3 DEF MInv

\* A night starts with a promise it can keep, or with none.
LEMMA StartNightKeeps ==
  ASSUME MInv, NEW j \in Jobs, StartNight(j)
  PROVE  MInv'
<1>1. /\ UNCHANGED vars /\ done' = [done EXCEPT ![j] = 0]
      /\ due' = [due EXCEPT ![j] = IF Unblocked THEN Expired ELSE {}]
  BY DEF StartNight
<1>2. TInv' /\ row' = row
  BY <1>1, NextKeeps DEF MInv, vars
<1>3. Expired \subseteq Nodes /\ Expired' = Expired
  BY <1>2 DEF Expired
<1>4. done' \in [Jobs -> (0..5) \cup {None}] /\ due' \in [Jobs -> SUBSET Nodes]
  BY <1>1, <1>3 DEF MInv
<1>5. ASSUME NEW k \in Jobs PROVE NightOK(k)'
  <2>1. CASE k # j
    BY <1>1, <1>2, <1>3, <2>1 DEF MInv, NightOK
  <2>2. CASE k = j
    <3>1. done'[k] = 0 /\ due'[k] = IF Unblocked THEN Expired ELSE {}
      BY <1>1, <2>2 DEF MInv
    <3>2. ~ \E i \in 1..5 : i <= 0
      OBVIOUS
    <3>3. CASE Unblocked
      <4>1. \A m \in Expired : row[m] = "expired"
        BY DEF Expired
      <4>2. \A a \in Expired, m \in Nodes :
              Parent[m] = a /\ row[m] \notin {"absent", "purged"} => m \in Expired
        BY <3>3 DEF Unblocked, Children
      <4>3. QED
        BY <1>2, <1>3, <3>1, <3>2, <3>3, <4>1, <4>2, NoneIsNoNumber DEF NightOK
    <3>4. CASE ~Unblocked
      BY <1>2, <1>3, <3>1, <3>4, NoneIsNoNumber DEF NightOK
    <3>5. QED
      BY <3>3, <3>4
  <2>3. QED
    BY <2>1, <2>2
<1>6. QED
  BY <1>2, <1>4, <1>5 DEF MInv

\* A statement of a night that has promised its rows finds no child in its way.
LEMMA MigrateModelKeeps ==
  ASSUME MInv, NEW j \in Jobs, MigrateModel(j)
  PROVE  MInv'
<1> DEFINE table == {n \in Expired : Table[n] = Targets[done[j] + 1]}
<1>1. /\ done[j] \in 0..4 /\ done' = [done EXCEPT ![j] = @ + 1] /\ UNCHANGED <<ver, writes, caches, req>>
      /\ due' = due
  <2>1. Len(Targets) = 5
    BY DEF Targets
  <2>2. QED
    BY <2>1 DEF MigrateModel, MInv
<1>2. row' = IF \A n \in table : Children(n) = {}
             THEN [n \in Nodes |-> IF n \in table THEN "purged" ELSE row[n]]
             ELSE row
  BY DEF MigrateModel
<1>3. /\ row' \in [Nodes -> {"absent", "live", "deleted", "expired", "purged"}]
      /\ \A n \in Nodes : row'[n] = row[n] \/ (row[n] = "expired" /\ row'[n] = "purged")
  BY <1>2, TInvRows DEF MInv, Expired
<1>4. TInv'
  BY <1>1, <1>3, RowsSettle DEF MInv
<1>5. due[j] # {} => \A n \in table : Children(n) = {}
  <2> SUFFICES ASSUME due[j] # {}, NEW n \in table, NEW m \in Children(n) PROVE FALSE
    OBVIOUS
  <2>1. NightOK(j) /\ n \in Expired /\ n \in Nodes /\ Table[n] = Targets[done[j] + 1] /\ m \in Nodes
        /\ Parent[m] = n /\ row[m] \notin {"absent", "purged"}
    BY DEF MInv, Expired, Children
  <2>2. n \in due[j]
    BY <2>1 DEF NightOK
  <2>3. m \in due[j]
    BY <2>1, <2>2 DEF NightOK
  <2>4. done[j] + 1 \in 1..5 /\ done[j] # None
    BY <1>1, NoneIsNoNumber
  <2>5. (done[j] + 1) - 1 \in 1..5 /\ Table[m] = Targets[(done[j] + 1) - 1]
    BY <2>1, <2>4, ChildIndex
  <2>6. (done[j] + 1) - 1 = done[j]
    BY <1>1
  <2>7. row[m] = "purged"
    BY <1>1, <2>1, <2>3, <2>4, <2>5, <2>6 DEF NightOK
  <2>8. QED
    BY <2>1, <2>7
<1>6. ASSUME NEW n \in due[j], Table[n] = Targets[done[j] + 1] PROVE row'[n] = "purged"
  <2>1. NightOK(j) /\ n \in Nodes /\ row[n] \in {"expired", "purged"}
    BY DEF MInv, NightOK
  <2>2. row' = [m \in Nodes |-> IF m \in table THEN "purged" ELSE row[m]]
    BY <1>2, <1>5, <1>6
  <2>3. row[n] = "expired" => n \in table
    BY <1>6, <2>1 DEF Expired
  <2>4. QED
    BY <2>1, <2>2, <2>3
<1> HIDE DEF table
<1>7. done' \in [Jobs -> (0..5) \cup {None}]
  BY <1>1 DEF MInv
<1>8. ASSUME NEW k \in Jobs PROVE NightOK(k)'
  <2>1. NightOK(k) /\ due'[k] = due[k]
    BY <1>1 DEF MInv
  <2>2. \A n \in due[k] : row'[n] \in {"expired", "purged"} /\ (row[n] = "purged" => row'[n] = "purged")
    BY <1>3, <2>1 DEF NightOK
  <2>3. \A n \in due[k], m \in Nodes :
          Parent[m] = n /\ row'[m] \notin {"absent", "purged"} => m \in due[k]
    BY <1>3, <2>1 DEF NightOK
  <2>4. Expired' \subseteq Expired
    BY <1>3 DEF Expired
  <2>5. CASE k # j
    <3>1. done'[k] = done[k]
      BY <1>1, <2>5 DEF MInv
    <3>2. QED
      BY <2>1, <2>2, <2>3, <2>4, <3>1 DEF NightOK
  <2>6. CASE k = j
    <3>1. done'[k] = done[j] + 1 /\ done[j] # None /\ done'[k] \in 0..5 /\ done'[k] # None
      BY <1>1, <2>6, NoneIsNoNumber DEF MInv
    <3>2. ASSUME NEW n \in due[k], NEW i \in 1..5, Table[n] = Targets[i], i <= done'[k]
          PROVE  row'[n] = "purged"
      <4>1. i <= done[j] \/ i = done[j] + 1
        BY <1>1, <3>1, <3>2
      <4>2. CASE i <= done[j]
        BY <1>1, <2>1, <2>2, <2>6, <3>1, <3>2, <4>2 DEF NightOK
      <4>3. CASE i = done[j] + 1
        BY <1>6, <2>6, <3>2, <4>3
      <4>4. QED
        BY <4>1, <4>2, <4>3
    <3>3. QED
      BY <2>1, <2>2, <2>3, <2>4, <3>1, <3>2 DEF NightOK
  <2>7. QED
    BY <2>5, <2>6
<1>9. QED
  BY <1>1, <1>4, <1>7, <1>8 DEF MInv

LEMMA EndNightKeeps ==
  ASSUME MInv, NEW j \in Jobs, EndNight(j)
  PROVE  MInv'
<1>1. UNCHANGED vars /\ done' = [done EXCEPT ![j] = None] /\ due' = [due EXCEPT ![j] = {}]
  BY DEF EndNight
<1>2. TInv' /\ row' = row
  BY <1>1, NextKeeps DEF MInv, vars
<1>3. ASSUME NEW k \in Jobs PROVE NightOK(k)'
  BY <1>1, <1>2 DEF MInv, NightOK, Expired
<1>4. QED
  BY <1>1, <1>2, <1>3 DEF MInv

LEMMA MigrationKeeps == ASSUME MInv, [MigrationNext]_allVars PROVE MInv'
<1>1. CASE UNCHANGED allVars
  <2>1. UNCHANGED <<vars, done, due>>
    BY <1>1 DEF allVars
  <2>2. TInv' /\ row' = row
    BY <2>1, NextKeeps DEF MInv, vars
  <2>3. QED
    BY <2>1, <2>2 DEF MInv, NightOK, Expired
<1>2. CASE MigrationNext
  BY <1>2, RequestsKeepNights, ExpireKeeps, StartNightKeeps, MigrateModelKeeps, EndNightKeeps
  DEF MigrationNext
<1>3. QED
  BY <1>1, <1>2

-----------------------------------------------------------------------------
(* The way up.  No row is more than four steps below its curriculum, so the *)
(* recursive function behind Line exists and its values can be written out. *)

Whole(n) ==
  CASE Table[n] = "curriculum" -> {n}
    [] Table[n] = "chapter" -> {n, Parent[n]}
    [] Table[n] = "section" -> {n, Parent[n], Parent[Parent[n]]}
    [] Table[n] = "topic" -> {n, Parent[n], Parent[Parent[n]], Parent[Parent[Parent[n]]]}
    [] Table[n] = "objective" ->
         {n, Parent[n], Parent[Parent[n]], Parent[Parent[Parent[n]]], Parent[Parent[Parent[Parent[n]]]]}

LEMMA WholeStep ==
  ASSUME NEW n \in Nodes
  PROVE  Whole(n) = IF Parent[n] = None THEN {n} ELSE {n} \cup Whole(Parent[n])
<1>1. CASE Table[n] = "curriculum"
  BY <1>1, ParentTable DEF Whole
<1>2. CASE Table[n] = "chapter"
  <2>1. Parent[n] # None /\ Table[Parent[n]] = "curriculum"
    BY <1>2, ParentTable, NoneIsFresh
  <2>2. QED
    BY <1>2, <2>1 DEF Whole
<1>3. CASE Table[n] = "section"
  <2>1. Parent[n] # None /\ Table[Parent[n]] = "chapter"
    BY <1>3, ParentTable, NoneIsFresh
  <2>2. QED
    BY <1>3, <2>1 DEF Whole
<1>4. CASE Table[n] = "topic"
  <2>1. Parent[n] # None /\ Table[Parent[n]] = "section"
    BY <1>4, ParentTable, NoneIsFresh
  <2>2. QED
    BY <1>4, <2>1 DEF Whole
<1>5. CASE Table[n] = "objective"
  <2>1. Parent[n] # None /\ Table[Parent[n]] = "topic"
    BY <1>5, ParentTable, NoneIsFresh
  <2>2. QED
    BY <1>5, <2>1 DEF Whole
<1>6. QED
  BY <1>1, <1>2, <1>3, <1>4, <1>5, ParentTable

\* Line answers what its definition says.
LEMMA LineStep ==
  ASSUME NEW n \in Nodes
  PROVE  Line[n] = IF Parent[n] = None THEN {n} ELSE {n} \cup Line[Parent[n]]
<1> DEFINE Ups(g) == g = [m \in Nodes |-> IF Parent[m] = None THEN {m} ELSE {m} \cup g[Parent[m]]]
           w == [m \in Nodes |-> Whole(m)]
<1>1. \A m \in Nodes : Parent[m] # None => Parent[m] \in Nodes
  BY TreeShape
<1>2. \A m \in Nodes : Whole(m) = IF Parent[m] = None THEN {m} ELSE {m} \cup w[Parent[m]]
  BY <1>1, WholeStep
<1>3. Ups(w)
  BY <1>2
<1>4. Line = CHOOSE g : Ups(g)
  BY DEF Line
<1>5. Ups(Line)
  BY <1>3, <1>4
<1>6. QED
  BY <1>5

\* Each line ends in one curriculum, and contains the line of each of its rows.
LEMMA LineShape ==
  ASSUME NEW n \in Nodes
  PROVE  /\ n \in Line[n] /\ Line[n] \subseteq Nodes
         /\ \A m \in Line[n] : Line[m] \subseteq Line[n]
         /\ \E c \in Line[n] : /\ Parent[c] = None /\ Table[c] = "curriculum"
                               /\ \A m \in Line[n] : m # c => Parent[m] # None /\ Table[m] # "curriculum"
<1> DEFINE P(k) == /\ k \in Line[k] /\ Line[k] \subseteq Nodes
                   /\ \A m \in Line[k] : Line[m] \subseteq Line[k]
                   /\ \E c \in Line[k] : /\ Parent[c] = None /\ Table[c] = "curriculum"
                                         /\ \A m \in Line[k] : m # c => Parent[m] # None /\ Table[m] # "curriculum"
<1>1. ASSUME NEW k \in Nodes, Table[k] = "curriculum" PROVE P(k)
  <2>1. Line[k] = {k} /\ Parent[k] = None
    BY <1>1, LineStep, ParentTable
  <2>2. QED
    BY <1>1, <2>1
<1>2. ASSUME NEW k \in Nodes, Table[k] # "curriculum", P(Parent[k]) PROVE P(k)
  <2>1. Parent[k] \in Nodes /\ Parent[k] # None
    BY <1>2, ParentTable, NoneIsFresh
  <2>2. Line[k] = {k} \cup Line[Parent[k]]
    BY <2>1, LineStep
  <2>3. PICK c \in Line[Parent[k]] :
          /\ Parent[c] = None /\ Table[c] = "curriculum"
          /\ \A m \in Line[Parent[k]] : m # c => Parent[m] # None /\ Table[m] # "curriculum"
    BY <1>2
  <2>4. \A m \in Line[k] : m # c => Parent[m] # None /\ Table[m] # "curriculum"
    BY <1>2, <2>1, <2>2, <2>3
  <2>5. k \in Line[k] /\ Line[k] \subseteq Nodes /\ \A m \in Line[k] : Line[m] \subseteq Line[k]
    BY <1>2, <2>2
  <2>6. QED
    BY <2>2, <2>3, <2>4, <2>5
<1> HIDE DEF P
<1>3. \A k \in Nodes : Table[k] = "chapter" => P(k)
  BY <1>1, <1>2, ParentTable
<1>4. \A k \in Nodes : Table[k] = "section" => P(k)
  BY <1>2, <1>3, ParentTable
<1>5. \A k \in Nodes : Table[k] = "topic" => P(k)
  BY <1>2, <1>4, ParentTable
<1>6. \A k \in Nodes : Table[k] = "objective" => P(k)
  BY <1>2, <1>5, ParentTable
<1>7. P(n)
  BY <1>1, <1>3, <1>4, <1>5, <1>6, ParentTable
<1>8. QED
  BY <1>7 DEF P

\* Rows of one line have one root.
LEMMA RootOf ==
  ASSUME NEW n \in Nodes
  PROVE  /\ Root(n) \in Line[n] /\ Root(n) \in Curricula
         /\ \A c \in Line[n] : Table[c] = "curriculum" => c = Root(n)
         /\ \A m \in Line[n] : Root(m) = Root(n)
<1> DEFINE P(k) == /\ Root(k) \in Line[k] /\ Root(k) \in Curricula
                   /\ \A c \in Line[k] : Table[c] = "curriculum" => c = Root(k)
<1>1. ASSUME NEW k \in Nodes PROVE P(k)
  <2>1. PICK c \in Line[k] : /\ Parent[c] = None /\ Table[c] = "curriculum"
                             /\ \A m \in Line[k] : m # c => Parent[m] # None /\ Table[m] # "curriculum"
    BY LineShape
  <2>2. Root(k) \in Line[k] /\ Parent[Root(k)] = None
    BY <2>1 DEF Root
  <2>3. Root(k) = c
    BY <2>1, <2>2
  <2>4. QED
    BY <2>1, <2>2, <2>3, LineShape DEF Curricula
<1>2. ASSUME NEW m \in Line[n] PROVE Root(m) = Root(n)
  <2>1. m \in Nodes /\ Line[m] \subseteq Line[n]
    BY LineShape
  <2>2. P(m) /\ P(n)
    BY <1>1, <2>1
  <2>3. QED
    BY <2>1, <2>2 DEF Curricula
<1>3. QED
  BY <1>1, <1>2

\* The rows strictly between a row and its curriculum: the ancestors a climb reads.
Between(n) == {m \in Line[n] : m # n /\ Table[m] # "curriculum"}

LEMMA BetweenLevels ==
  ASSUME NEW n \in Nodes
  PROVE  /\ Table[n] = "curriculum" => Between(n) = {}
         /\ Table[n] = "chapter" => Between(n) = {}
         /\ Table[n] = "section" => Between(n) = {Parent[n]}
         /\ Table[n] = "topic" => Between(n) = {Parent[n], Parent[Parent[n]]}
         /\ Table[n] = "objective" => Between(n) = {Parent[n], Parent[Parent[n]], Parent[Parent[Parent[n]]]}
<1>0. ASSUME NEW k \in Nodes, Table[k] # "curriculum"
      PROVE  Parent[k] \in Nodes /\ Line[k] = {k} \cup Line[Parent[k]]
  <2>1. Parent[k] \in Nodes /\ Parent[k] # None
    BY <1>0, ParentTable, NoneIsFresh
  <2>2. QED
    BY <2>1, LineStep
<1>1. \A k \in Nodes : Table[k] = "curriculum" => Line[k] = {k}
  BY LineStep, ParentTable
<1>2. ASSUME NEW k \in Nodes, Table[k] = "chapter" PROVE Line[k] = {k, Parent[k]}
  BY <1>0, <1>1, <1>2, ParentTable
<1>3. ASSUME NEW k \in Nodes, Table[k] = "section"
      PROVE  Line[k] = {k, Parent[k], Parent[Parent[k]]}
  BY <1>0, <1>2, <1>3, ParentTable
<1>4. ASSUME NEW k \in Nodes, Table[k] = "topic"
      PROVE  Line[k] = {k, Parent[k], Parent[Parent[k]], Parent[Parent[Parent[k]]]}
  BY <1>0, <1>3, <1>4, ParentTable
<1>5. CASE Table[n] = "curriculum"
  BY <1>1, <1>5 DEF Between
<1>6. CASE Table[n] = "chapter"
  BY <1>2, <1>6, ParentTable DEF Between
<1>7. CASE Table[n] = "section"
  <2>1. /\ Parent[n] \in Nodes /\ Table[Parent[n]] = "chapter"
        /\ Parent[Parent[n]] \in Nodes /\ Table[Parent[Parent[n]]] = "curriculum"
    BY <1>7, ParentTable
  <2>2. QED
    BY <1>3, <1>7, <2>1 DEF Between
<1>8. CASE Table[n] = "topic"
  <2>1. /\ Parent[n] \in Nodes /\ Table[Parent[n]] = "section"
        /\ Parent[Parent[n]] \in Nodes /\ Table[Parent[Parent[n]]] = "chapter"
        /\ Table[Parent[Parent[Parent[n]]]] = "curriculum"
    BY <1>8, ParentTable
  <2>2. QED
    BY <1>4, <1>8, <2>1 DEF Between
<1>9. CASE Table[n] = "objective"
  <2>1. /\ Parent[n] \in Nodes /\ Parent[n] # None /\ Table[Parent[n]] = "topic"
        /\ Parent[Parent[n]] \in Nodes /\ Table[Parent[Parent[n]]] = "section"
        /\ Parent[Parent[Parent[n]]] \in Nodes /\ Table[Parent[Parent[Parent[n]]]] = "chapter"
        /\ Table[Parent[Parent[Parent[Parent[n]]]]] = "curriculum"
    BY <1>9, ParentTable, NoneIsFresh
  <2>2. Line[n] = {n} \cup Line[Parent[n]]
    BY <2>1, LineStep
  <2>3. QED
    BY <1>4, <1>9, <2>1, <2>2 DEF Between
<1>10. QED
  BY <1>5, <1>6, <1>7, <1>8, <1>9, ParentTable

-----------------------------------------------------------------------------
(* Climbs *)

Steps(s) == {s[i] : i \in 1..Len(s)}

\* A climb from n: rows above n, and after each of them all that are above it.
Path(s, n) ==
  /\ Steps(s) \subseteq Between(n)
  /\ \A i \in 1..Len(s) : Between(s[i]) \subseteq {s[j] : j \in (i + 1)..Len(s)}

LEMMA NoPath == ASSUME NEW n PROVE Path(<<>>, n)
BY DEF Path, Steps

LEMMA ShortPath ==
  ASSUME NEW n, NEW a \in Between(n), Between(a) = {}
  PROVE  Path(<<a>>, n)
<1>1. Len(<<a>>) = 1 /\ <<a>>[1] = a
  OBVIOUS
<1>2. QED
  BY <1>1 DEF Path, Steps

LEMMA LongPath ==
  ASSUME NEW n, NEW a \in Between(n), NEW b \in Between(n), Between(a) \subseteq {b}, Between(b) = {}
  PROVE  Path(<<a, b>>, n)
<1> DEFINE s == <<a, b>>
<1>1. Len(s) = 2 /\ s[1] = a /\ s[2] = b
  OBVIOUS
<1> HIDE DEF s
<1>2. \A i \in 1..Len(s) : i = 1 \/ i = 2
  BY <1>1
<1>3. Steps(s) \subseteq Between(n)
  BY <1>1, <1>2 DEF Steps
<1>4. b \in {s[j] : j \in (1 + 1)..Len(s)}
  BY <1>1
<1>5. QED
  BY <1>1, <1>2, <1>3, <1>4 DEF Path, s

LEMMA LongestPath ==
  ASSUME NEW n, NEW a \in Between(n), NEW b \in Between(n), NEW c \in Between(n),
         Between(a) \subseteq {b, c}, Between(b) \subseteq {c}, Between(c) = {}
  PROVE  Path(<<a>> \o <<b, c>>, n)
<1> DEFINE s == <<a>> \o <<b, c>>
<1>1. Len(s) = 3 /\ s[1] = a /\ s[2] = b /\ s[3] = c
  OBVIOUS
<1> HIDE DEF s
<1>2. \A i \in 1..Len(s) : i = 1 \/ i = 2 \/ i = 3
  BY <1>1
<1>3. Steps(s) \subseteq Between(n)
  BY <1>1, <1>2 DEF Steps
<1>4. b \in {s[j] : j \in (1 + 1)..Len(s)} /\ c \in {s[j] : j \in (1 + 1)..Len(s)}
      /\ c \in {s[j] : j \in (2 + 1)..Len(s)}
  BY <1>1
<1>5. \A i \in 1..Len(s) : Between(s[i]) \subseteq {s[j] : j \in (i + 1)..Len(s)}
  BY <1>1, <1>2, <1>4
<1>6. QED
  BY <1>3, <1>5 DEF Path, s

\* What is left of a climb is a climb.
LEMMA PathTail ==
  ASSUME NEW n, NEW s \in Seq(Nodes), s # <<>>, Path(s, n)
  PROVE  Path(Tail(s), n) /\ Steps(Tail(s)) \subseteq Steps(s) /\ Head(s) \in Steps(s)
<1> DEFINE t == Tail(s)
<1>1. /\ t \in Seq(Nodes) /\ Len(s) \in Nat /\ Len(s) >= 1 /\ Len(t) = Len(s) - 1
      /\ \A i \in 1..Len(t) : t[i] = s[i + 1]
      /\ Head(s) = s[1]
  OBVIOUS
<1> HIDE DEF t
<1>2. \A i \in 1..Len(t) : i + 1 \in 1..Len(s)
  BY <1>1
<1>3. Steps(t) \subseteq Steps(s) /\ Head(s) \in Steps(s)
  BY <1>1, <1>2 DEF Steps
<1>4. ASSUME NEW i \in 1..Len(t) PROVE Between(t[i]) \subseteq {t[j] : j \in (i + 1)..Len(t)}
  <2> SUFFICES ASSUME NEW m \in Between(t[i]) PROVE m \in {t[j] : j \in (i + 1)..Len(t)}
    OBVIOUS
  <2>1. m \in {s[j] : j \in ((i + 1) + 1)..Len(s)}
    BY <1>1, <1>2 DEF Path
  <2>2. PICK j \in ((i + 1) + 1)..Len(s) : m = s[j]
    BY <2>1
  <2>3. j - 1 \in (i + 1)..Len(t) /\ j - 1 \in 1..Len(t) /\ (j - 1) + 1 = j
    BY <1>1
  <2>4. t[j - 1] = s[j]
    BY <1>1, <2>3
  <2>5. QED
    BY <2>2, <2>3, <2>4
<1>5. QED
  BY <1>3, <1>4 DEF Path, t

\* The rows above a row of a climb are rows of the climb, and another row.
LEMMA PathAbove ==
  ASSUME NEW n, NEW s \in Seq(Nodes), Path(s, n), NEW a \in Steps(s)
  PROVE  Between(a) \subseteq Steps(s) /\ a \notin Between(a)
<1>1. PICK i \in 1..Len(s) : a = s[i]
  BY DEF Steps
<1>2. Len(s) \in Nat
  OBVIOUS
<1>3. \A j \in (i + 1)..Len(s) : j \in 1..Len(s)
  BY <1>2
<1>4. QED
  BY <1>1, <1>3 DEF Path, Steps, Between

-----------------------------------------------------------------------------
(* Trees *)

\* What a request in flight promises about its way up.
PathOK(q) ==
  /\ q.op \in WriteOps => Path(q.climb, q.node)
  /\ q.pc = "write" /\ q.find = None => q.op = "create" /\ Table[q.node] = "curriculum"
  /\ q.op = "tree" => row[q.node] # "absent"

\* A write that will drop the tree of c if nothing above its row is deleted meanwhile.
WillDrop(q, c) ==
  q.pc \in {"climb", "delTree"} /\ Root(q.node) = c /\ \A a \in Steps(q.climb) : Live(a)

StaleTree(c) == tree[c] # None /\ tree[c] # TreeNow(c)

\* On top of TInv: a stale tree has a write that will drop it, not merely a pending one.
ClimbInv ==
  /\ \A r \in Reqs : PathOK(req[r])
  /\ \A c \in Curricula : tree[c] # None => row[c] # "absent"
  /\ \A c \in Curricula : StaleTree(c) => c \in lateTrees \/ \E r \in Reqs : WillDrop(req[r], c)

LEMMA InitClimbInv == Init => ClimbInv
<1> SUFFICES ASSUME Init PROVE ClimbInv
  OBVIOUS
<1>1. \A r \in Reqs : PathOK(req[r])
  BY DEF Init, Idle, PathOK, WriteOps
<1>2. QED
  BY <1>1 DEF Init, ClimbInv, StaleTree

\* A tree depends on which rows are live, and on their contents.
LEMMA TreeDepends ==
  ASSUME \A m \in Nodes : (Live(m)' <=> Live(m)) /\ ver'[m] = ver[m], NEW c
  PROVE  TreeNow(c)' = TreeNow(c)
<1>1. \A m \in Nodes : (\A a \in Line[m] : Live(a)') <=> (\A a \in Line[m] : Live(a))
  BY LineShape
<1>2. QED
  BY <1>1 DEF TreeNow

\* A write changes the tree of its own root alone, and not even that below a deleted row.
LEMMA WriteElsewhere ==
  ASSUME NEW n \in Nodes, \A m \in Nodes : m # n => row'[m] = row[m] /\ ver'[m] = ver[m],
         NEW c \in Curricula, c # Root(n) \/ \E a \in Between(n) : ~Live(a)
  PROVE  TreeNow(c)' = TreeNow(c)
<1>1. ASSUME NEW m \in Nodes, c \in Line[m]
      PROVE  /\ (\A a \in Line[m] : Live(a)') <=> (\A a \in Line[m] : Live(a))
             /\ (\A a \in Line[m] : Live(a)) => ver'[m] = ver[m]
  <2>1. m \in Line[m] /\ Line[m] \subseteq Nodes /\ (n \in Line[m] => Line[n] \subseteq Line[m])
    BY LineShape
  <2>2. CASE n \notin Line[m]
    BY <2>1, <2>2 DEF Live
  <2>3. CASE n \in Line[m]
    <3>1. c = Root(m) /\ Root(n) = Root(m)
      BY <1>1, <2>3, RootOf DEF Curricula
    <3>2. PICK a \in Between(n) : ~Live(a)
      BY <3>1
    <3>3. a \in Line[m] /\ a # n /\ a \in Nodes
      BY <2>1, <2>3 DEF Between
    <3>4. ~Live(a)'
      BY <3>2, <3>3 DEF Live
    <3>5. QED
      BY <3>2, <3>3, <3>4
  <2>4. QED
    BY <2>2, <2>3
<1>2. QED
  BY <1>1 DEF TreeNow

\* Trees and one request change, rows do not: every tree left is one there was, or has an excuse.
LEMMA TreesChange ==
  ASSUME TInv, ClimbInv, NEW r, NEW new,
         req' = req \/ (r \in Reqs /\ req' = [req EXCEPT ![r] = new] /\ PathOK(new)),
         UNCHANGED <<row, ver>>,
         \A c \in Curricula : tree'[c] # None => tree[c] # None \/ row[c] # "absent",
         \A c \in Curricula : tree'[c] # None /\ tree'[c] # TreeNow(c) =>
            \/ c \in lateTrees'
            \/ /\ tree'[c] = tree[c] /\ (c \in lateTrees => c \in lateTrees')
               /\ req' = req \/ ~WillDrop(req[r], c) \/ WillDrop(new, c)
  PROVE  ClimbInv'
<1>1. \A q \in Reqs : req'[q] = req[q] \/ (q = r /\ req'[q] = new /\ PathOK(new))
  BY DEF TInv, TypeOK
<1>2. \A c : TreeNow(c)' = TreeNow(c)
  BY TreeDepends DEF Live
<1>3. \A q \in Reqs : PathOK(req[q])'
  BY <1>1 DEF ClimbInv, PathOK
<1>4. \A c \in Curricula : tree'[c] # None => row'[c] # "absent"
  BY DEF ClimbInv
<1>5. ASSUME NEW c \in Curricula, StaleTree(c)', c \notin lateTrees'
      PROVE  \E q \in Reqs : WillDrop(req[q], c)'
  <2>1. tree'[c] # None /\ tree'[c] # TreeNow(c)
    BY <1>2, <1>5 DEF StaleTree
  <2>2. /\ tree'[c] = tree[c] /\ c \notin lateTrees
        /\ req' = req \/ ~WillDrop(req[r], c) \/ WillDrop(new, c)
    BY <1>5, <2>1
  <2>3. PICK q \in Reqs : WillDrop(req[q], c)
    BY <2>1, <2>2 DEF ClimbInv, StaleTree
  <2>4. WillDrop(req'[q], c)
    <3>1. CASE req'[q] = req[q]
      BY <2>3, <3>1
    <3>2. CASE q = r /\ req'[q] = new
      <4>1. CASE req' = req
        BY <2>3, <4>1
      <4>2. CASE WillDrop(new, c)
        BY <3>2, <4>2
      <4>3. QED
        BY <2>2, <2>3, <3>2, <4>1, <4>2
    <3>3. QED
      BY <1>1, <3>1, <3>2
  <2>5. WillDrop(req[q], c)'
    BY <2>4 DEF WillDrop, Live
  <2>6. QED
    BY <2>5
<1>6. QED
  BY <1>3, <1>4, <1>5 DEF ClimbInv

\* Awaits that leave rows and trees alone.
LEMMA TreesStay ==
  ASSUME TInv, ClimbInv, NEW r \in Reqs, NEW new, req' = [req EXCEPT ![r] = new], PathOK(new),
         UNCHANGED <<row, ver, tree, lateTrees>>,
         \A c \in Curricula : WillDrop(req[r], c) => WillDrop(new, c)
  PROVE  ClimbInv'
<1>1. \A c \in Curricula : tree'[c] # None /\ tree'[c] # TreeNow(c) =>
        \/ c \in lateTrees'
        \/ /\ tree'[c] = tree[c] /\ (c \in lateTrees => c \in lateTrees')
           /\ req' = req \/ ~WillDrop(req[r], c) \/ WillDrop(new, c)
  OBVIOUS
<1>2. \A c \in Curricula : tree'[c] # None => tree[c] # None \/ row[c] # "absent"
  OBVIOUS
<1>3. QED
  BY <1>1, <1>2, TreesChange

LEMMA IdlePath == PathOK(Idle)
BY DEF PathOK, Idle, WriteOps

\* The routes of each table climb all that is above the row, or, from a parent that has
\* just been found live, all that is above the parent.
LEMMA RoutesClimb ==
  ASSUME TInv, NEW r \in Reqs, NEW n \in Nodes,
         \/ CurriculumRoutes(r, n) \/ ChapterRoutes(r, n) \/ SectionRoutes(r, n)
         \/ TopicRoutes(r, n) \/ ObjectiveRoutes(r, n)
  PROVE  \E climb : \E find \in Nodes \cup {None}, op \in WriteOps :
           /\ Handle(r, find, op, n, climb) /\ Path(climb, n)
           /\ find = None => op = "create" /\ Table[n] = "curriculum"
<1>1. /\ Path(<<>>, n) /\ n \in Nodes \cup {None} /\ None \in Nodes \cup {None} /\ n # None
      /\ "create" \in WriteOps /\ "update" \in WriteOps /\ "delete" \in WriteOps
  BY NoPath, NoneIsFresh DEF WriteOps
<1>2. CASE CurriculumRoutes(r, n)
  BY <1>1, <1>2 DEF CurriculumRoutes, CreateCurriculum, UpdateCurriculum, DeleteCurriculum, Fresh
<1>3. CASE ChapterRoutes(r, n)
  <2>1. Table[n] = "chapter"
    BY <1>3 DEF ChapterRoutes, CreateChapter, UpdateChapter, DeleteChapter, Fresh, Known
  <2>2. Up(n) \in Nodes /\ Up(n) # None
    BY <2>1, ParentTable, NoneIsFresh DEF Up
  <2>3. QED
    BY <1>1, <1>3, <2>2 DEF ChapterRoutes, CreateChapter, UpdateChapter, DeleteChapter
<1>4. CASE SectionRoutes(r, n)
  <2>1. Table[n] = "section"
    BY <1>4 DEF SectionRoutes, CreateSection, UpdateSection, DeleteSection, Fresh, Known
  <2>2. /\ Up(n) \in Nodes /\ Up(n) # None /\ Table[Up(n)] = "chapter" /\ Between(n) = {Up(n)}
        /\ Between(Up(n)) = {}
    BY <2>1, ParentTable, BetweenLevels, NoneIsFresh DEF Up
  <2>3. Path(<<Up(n)>>, n)
    BY <2>2, ShortPath
  <2>4. QED
    BY <1>1, <1>4, <2>2, <2>3 DEF SectionRoutes, CreateSection, UpdateSection, DeleteSection
<1>5. CASE TopicRoutes(r, n)
  <2>1. Table[n] = "topic"
    BY <1>5 DEF TopicRoutes, CreateTopic, UpdateTopic, DeleteTopic, Fresh, Known
  <2>2. /\ Up(n) \in Nodes /\ Up(n) # None /\ Table[Up(n)] = "section"
        /\ Up(Up(n)) \in Nodes /\ Table[Up(Up(n))] = "chapter"
    BY <2>1, ParentTable, NoneIsFresh DEF Up
  <2>3. Between(n) = {Up(n), Up(Up(n))} /\ Between(Up(n)) = {Up(Up(n))} /\ Between(Up(Up(n))) = {}
    BY <2>1, <2>2, BetweenLevels DEF Up
  <2>4. Path(<<Up(Up(n))>>, n) /\ Path(TopicParents(Up(n)), n)
    BY <2>3, ShortPath, LongPath DEF TopicParents
  <2>5. QED
    BY <1>1, <1>5, <2>2, <2>4 DEF TopicRoutes, CreateTopic, UpdateTopic, DeleteTopic
<1>6. CASE ObjectiveRoutes(r, n)
  <2>1. Table[n] = "objective"
    BY <1>6 DEF ObjectiveRoutes, CreateObjective, UpdateObjective, DeleteObjective, Fresh, Known
  <2>2. /\ Up(n) \in Nodes /\ Up(n) # None /\ Table[Up(n)] = "topic"
        /\ Up(Up(n)) \in Nodes /\ Table[Up(Up(n))] = "section"
        /\ Up(Up(Up(n))) \in Nodes /\ Table[Up(Up(Up(n)))] = "chapter"
    BY <2>1, ParentTable, NoneIsFresh DEF Up
  <2>3. Between(n) = {Up(n), Up(Up(n)), Up(Up(Up(n)))}
    BY <2>1, BetweenLevels DEF Up
  <2>4. Between(Up(n)) = {Up(Up(n)), Up(Up(Up(n)))} /\ Between(Up(Up(n))) = {Up(Up(Up(n)))}
        /\ Between(Up(Up(Up(n)))) = {}
    BY <2>2, BetweenLevels DEF Up
  <2>5. Path(TopicParents(Up(Up(n))), n)
    BY <2>3, <2>4, LongPath DEF TopicParents
  <2>6. Path(<<Up(n)>> \o TopicParents(Up(Up(n))), n)
    BY <2>3, <2>4, LongestPath DEF TopicParents
  <2>7. QED
    BY <1>1, <1>6, <2>2, <2>5, <2>6 DEF ObjectiveRoutes, CreateObjective, UpdateObjective, DeleteObjective
<1>7. QED
  BY <1>2, <1>3, <1>4, <1>5, <1>6

\* A request arrives with its way up, or with a curriculum that has been written.
LEMMA ArriveClimb ==
  ASSUME TInv, ClimbInv, NEW r \in Reqs, Arrive(r)
  PROVE  ClimbInv'
<1>1. req[r] = Idle /\ \A c : ~WillDrop(req[r], c)
  BY DEF Arrive, Idle, WillDrop
<1>2. ASSUME NEW n \in Nodes,
             \/ CurriculumRoutes(r, n) \/ ChapterRoutes(r, n) \/ SectionRoutes(r, n)
             \/ TopicRoutes(r, n) \/ ObjectiveRoutes(r, n)
      PROVE  ClimbInv'
  <2>0. PICK climb : \E find \in Nodes \cup {None}, op \in WriteOps :
          /\ Handle(r, find, op, n, climb) /\ Path(climb, n)
          /\ find = None => op = "create" /\ Table[n] = "curriculum"
    BY <1>2, RoutesClimb
  <2>1. PICK find \in Nodes \cup {None}, op \in WriteOps :
          /\ Handle(r, find, op, n, climb) /\ Path(climb, n)
          /\ find = None => op = "create" /\ Table[n] = "curriculum"
    BY <2>0
  <2> DEFINE l == IF find = None THEN "write" ELSE "find"
             new == [Idle EXCEPT !.pc = l, !.op = op, !.node = n, !.find = find, !.climb = climb]
  <2>2. req' = [req EXCEPT ![r] = new]
    BY <2>1, Zenon DEF Handle
  <2>3. UNCHANGED <<row, ver, tree, lateTrees>>
    BY <2>1 DEF Handle, caches, trees
  <2> HIDE DEF l
  <2>4. new.op = op /\ new.node = n /\ new.find = find /\ new.climb = climb
    BY DEF Idle
  <2> HIDE DEF new
  <2>5. PathOK(new)
    BY <2>1, <2>4 DEF PathOK, WriteOps
  <2>6. QED
    BY <1>1, <2>2, <2>3, <2>5, TreesStay
<1>3. ASSUME NEW c \in Curricula, FindCurriculumById(r, c) PROVE ClimbInv'
  <2> DEFINE new == [Idle EXCEPT !.pc = "getTree", !.op = "tree", !.node = c]
  <2>1. req' = [req EXCEPT ![r] = new] /\ UNCHANGED <<row, ver, tree, lateTrees>> /\ row[c] # "absent"
    BY <1>3 DEF FindCurriculumById, rows, caches, trees, Known
  <2>2. new.pc = "getTree" /\ new.op = "tree" /\ new.node = c
    BY DEF Idle
  <2> HIDE DEF new
  <2>3. PathOK(new)
    BY <2>1, <2>2 DEF PathOK, WriteOps
  <2>4. QED
    BY <1>1, <2>1, <2>3, TreesStay
<1>4. ASSUME NEW f \in Filters, FindCurriculumList(r, f) PROVE ClimbInv'
  <2> DEFINE new == [Idle EXCEPT !.pc = "getList", !.op = "list", !.filter = f]
  <2>1. req' = [req EXCEPT ![r] = new] /\ UNCHANGED <<row, ver, tree, lateTrees>>
    BY <1>4 DEF FindCurriculumList, rows, caches, trees
  <2>2. new.pc = "getList" /\ new.op = "list"
    BY DEF Idle
  <2> HIDE DEF new
  <2>3. PathOK(new)
    BY <2>2 DEF PathOK, WriteOps
  <2>4. QED
    BY <1>1, <2>1, <2>3, TreesStay
<1>5. QED
  BY <1>2, <1>3, <1>4 DEF Arrive

\* A request that ends owes no tree.
LEMMA EndsClimb ==
  ASSUME TInv, ClimbInv, NEW r \in Reqs, Finish(r), UNCHANGED <<row, ver, tree, lateTrees>>,
         \A c \in Curricula : ~WillDrop(req[r], c)
  PROVE  ClimbInv'
BY IdlePath, TreesStay DEF Finish

LEMMA FindClimb ==
  ASSUME TInv, ClimbInv, NEW r \in Reqs, Find(r)
  PROVE  ClimbInv'
<1> DEFINE q == req[r]
           new == [q EXCEPT !.pc = "write"]
<1>1. /\ Typed(q) /\ RecordOK(q) /\ PathOK(q) /\ q.pc = "find"
      /\ UNCHANGED <<row, ver, tree, lateTrees>>
  BY TypedRequests DEF TInv, ReqsOK, ClimbInv, Find, At, rows, caches, trees
<1>2. \A c \in Curricula : ~WillDrop(q, c)
  BY <1>1 DEF WillDrop
<1>3. CASE Finish(r)
  BY <1>1, <1>2, <1>3, EndsClimb
<1>4. CASE req' = [req EXCEPT ![r] = new]
  <2>1. new.op = q.op /\ new.node = q.node /\ new.find = q.find /\ new.climb = q.climb
    BY <1>1 DEF Typed, Request
  <2>2. q.find # None
    BY <1>1, NoneIsFresh DEF RecordOK
  <2> HIDE DEF new
  <2>3. PathOK(new)
    BY <1>1, <2>1, <2>2 DEF PathOK
  <2>4. QED
    BY <1>1, <1>2, <1>4, <2>3, TreesStay
<1>5. QED
  BY <1>3, <1>4 DEF Find

\* A write that will drop its tree finds the next ancestor live.
LEMMA ClimbClimb ==
  ASSUME TInv, ClimbInv, NEW r \in Reqs, Climb(r)
  PROVE  ClimbInv'
<1> DEFINE q == req[r]
           rest == Tail(q.climb)
           l == IF rest = <<>> THEN "delTree" ELSE "climb"
           new == [q EXCEPT !.climb = rest, !.pc = l]
<1>1. /\ Typed(q) /\ RecordOK(q) /\ PathOK(q) /\ q.pc = "climb"
      /\ UNCHANGED <<row, ver, tree, lateTrees>>
  BY TypedRequests DEF TInv, ReqsOK, ClimbInv, Climb, At, rows, caches, trees
<1>2. q.climb \in Seq(Nodes) /\ q.climb # <<>> /\ Path(q.climb, q.node) /\ q.op \in WriteOps
  BY <1>1 DEF Typed, Request, RecordOK, PathOK, WriteAwaits
<1>3. Path(rest, q.node) /\ Steps(rest) \subseteq Steps(q.climb) /\ Head(q.climb) \in Steps(q.climb)
  BY <1>2, PathTail
<1>4. CASE ~Live(Head(q.climb))
  <2>1. \A c \in Curricula : ~WillDrop(q, c)
    BY <1>3, <1>4 DEF WillDrop
  <2>2. Finish(r)
    BY <1>4 DEF Climb
  <2>3. QED
    BY <1>1, <2>1, <2>2, EndsClimb
<1>5. CASE Live(Head(q.climb))
  <2>1. req' = [req EXCEPT ![r] = new]
    BY <1>5 DEF Climb
  <2>2. l \in {"delTree", "climb"}
    OBVIOUS
  <2> HIDE DEF l, rest
  <2>3. new.op = q.op /\ new.node = q.node /\ new.climb = rest /\ new.pc = l
    BY <1>1 DEF Typed, Request
  <2> HIDE DEF new
  <2>4. PathOK(new)
    BY <1>2, <1>3, <2>2, <2>3 DEF PathOK, WriteOps
  <2>5. \A c \in Curricula : WillDrop(q, c) => WillDrop(new, c)
    BY <1>3, <2>2, <2>3 DEF WillDrop
  <2>6. QED
    BY <1>1, <2>1, <2>4, <2>5, TreesStay
<1>6. QED
  BY <1>4, <1>5

LEMMA DelTreeClimb ==
  ASSUME TInv, ClimbInv, NEW r \in Reqs, DelTree(r)
  PROVE  ClimbInv'
<1> DEFINE q == req[r]
           c == Root(q.node)
           new == [q EXCEPT !.pc = "keys"]
<1>1. /\ Typed(q) /\ RecordOK(q) /\ PathOK(q) /\ q.pc = "delTree" /\ req' = [req EXCEPT ![r] = new]
      /\ UNCHANGED <<row, ver>> /\ tree' = [tree EXCEPT ![c] = None] /\ lateTrees' = lateTrees \ {c}
  BY TypedRequests DEF TInv, ReqsOK, ClimbInv, DelTree, At, rows
<1>2. new.op = q.op /\ new.node = q.node /\ new.find = q.find /\ new.climb = q.climb /\ new.pc = "keys"
  BY <1>1 DEF Typed, Request
<1> HIDE DEF new
<1>3. PathOK(new)
  BY <1>1, <1>2 DEF PathOK
<1>4. \A d \in Curricula : tree'[d] = IF d = c THEN None ELSE tree[d]
  BY <1>1 DEF TInv, TypeOK
<1>5. \A d \in Curricula : d # c => ~WillDrop(q, d)
  BY DEF WillDrop
<1> HIDE DEF c
<1>6. \A d \in Curricula : tree'[d] # None => tree[d] # None \/ row[d] # "absent"
  BY <1>4
<1>7. \A d \in Curricula : tree'[d] # None /\ tree'[d] # TreeNow(d) =>
        tree'[d] = tree[d] /\ (d \in lateTrees => d \in lateTrees') /\ ~WillDrop(q, d)
  BY <1>1, <1>4, <1>5
<1>8. QED
  BY <1>1, <1>3, <1>6, <1>7, TreesChange

\* The lists are dropped, and read, without a way up.
LEMMA ListsClimb ==
  ASSUME TInv, ClimbInv, NEW r \in Reqs,
         ScanKeys(r) \/ DelList(r) \/ GetList(r) \/ ReadList(r) \/ SetList(r) \/ GetTree(r) \/ ReadLevel(r)
  PROVE  ClimbInv'
<1> DEFINE q == req[r]
<1>1. /\ Typed(q) /\ PathOK(q)
      /\ q.pc \in {"keys", "delList", "getList", "readList", "setList", "getTree", "level"}
      /\ UNCHANGED <<row, ver, tree, lateTrees>>
  BY TypedRequests DEF TInv, ClimbInv, ScanKeys, DelList, GetList, ReadList, SetList, GetTree, ReadLevel,
       At, rows, caches, trees
<1>2. \A c \in Curricula : ~WillDrop(q, c)
  BY <1>1 DEF WillDrop
<1>3. CASE Finish(r)
  BY <1>1, <1>2, <1>3, EndsClimb
<1>4. ASSUME NEW new, req' = [req EXCEPT ![r] = new], new.pc # "write",
             new.op = q.op, new.node = q.node, new.climb = q.climb
      PROVE  ClimbInv'
  <2>1. PathOK(new)
    BY <1>1, <1>4 DEF PathOK
  <2>2. QED
    BY <1>1, <1>2, <1>4, <2>1, TreesStay
<1>5. CASE ~Finish(r) /\ ScanKeys(r)
  <2> DEFINE found == {k \in ListKeys : list[k] # None}
             new == [q EXCEPT !.pc = "delList", !.keys = found]
  <2>1. req' = [req EXCEPT ![r] = new]
    BY <1>5 DEF ScanKeys
  <2>2. new.pc # "write" /\ new.op = q.op /\ new.node = q.node /\ new.climb = q.climb
    BY <1>1 DEF Typed, Request
  <2> HIDE DEF new
  <2>3. QED
    BY <1>4, <2>1, <2>2
<1>6. CASE ~Finish(r) /\ GetList(r)
  <2> DEFINE new == [q EXCEPT !.pc = "readList"]
  <2>1. req' = [req EXCEPT ![r] = new]
    BY <1>6 DEF GetList
  <2>2. new.pc # "write" /\ new.op = q.op /\ new.node = q.node /\ new.climb = q.climb
    BY <1>1 DEF Typed, Request
  <2> HIDE DEF new
  <2>3. QED
    BY <1>4, <2>1, <2>2
<1>7. CASE ReadList(r)
  <2> DEFINE new == [q EXCEPT !.pc = "setList", !.seen = ListOf(q.filter)]
  <2>1. req' = [req EXCEPT ![r] = new]
    BY <1>7 DEF ReadList
  <2>2. new.pc # "write" /\ new.op = q.op /\ new.node = q.node /\ new.climb = q.climb
    BY <1>1 DEF Typed, Request
  <2> HIDE DEF new
  <2>3. QED
    BY <1>4, <2>1, <2>2
<1>8. CASE ~Finish(r) /\ GetTree(r)
  <2> DEFINE new == [q EXCEPT !.pc = "level", !.depth = 1]
  <2>1. req' = [req EXCEPT ![r] = new]
    BY <1>8 DEF GetTree
  <2>2. new.pc # "write" /\ new.op = q.op /\ new.node = q.node /\ new.climb = q.climb
    BY <1>1 DEF Typed, Request
  <2> HIDE DEF new
  <2>3. QED
    BY <1>4, <2>1, <2>2
<1>9. CASE ~Finish(r) /\ ReadLevel(r)
  <2> DEFINE seen == q.seen \cup LevelOf(q.node, q.depth, q.seen)
             d == IF q.depth < 5 THEN q.depth + 1 ELSE 0
             l == IF q.depth < 5 THEN "level" ELSE "setTree"
             new == [q EXCEPT !.seen = seen, !.depth = d, !.pc = l]
  <2>1. req' = [req EXCEPT ![r] = new]
    BY <1>9 DEF ReadLevel
  <2>2. l # "write"
    OBVIOUS
  <2> HIDE DEF seen, d, l
  <2>3. new.pc # "write" /\ new.op = q.op /\ new.node = q.node /\ new.climb = q.climb
    BY <1>1, <2>2 DEF Typed, Request
  <2> HIDE DEF new
  <2>4. QED
    BY <1>4, <2>1, <2>3
<1>10. DelList(r) \/ SetList(r) => Finish(r)
  BY DEF DelList, SetList
<1>11. QED
  BY <1>3, <1>5, <1>6, <1>7, <1>8, <1>9, <1>10

\* A tree that is stored is current, or entered as late.
LEMMA SetTreeClimb ==
  ASSUME TInv, ClimbInv, NEW r \in Reqs, SetTree(r)
  PROVE  ClimbInv'
<1> DEFINE q == req[r]
           c == q.node
<1>1. /\ Typed(q) /\ RecordOK(q) /\ PathOK(q) /\ q.pc = "setTree" /\ req' = [req EXCEPT ![r] = Idle]
      /\ UNCHANGED <<row, ver>> /\ tree' = [tree EXCEPT ![c] = q.seen]
      /\ lateTrees' = IF q.seen = TreeNow(c) THEN lateTrees \ {c} ELSE lateTrees \cup {c}
  BY TypedRequests DEF TInv, ReqsOK, ClimbInv, SetTree, At, rows, Finish
<1>2. row[c] # "absent" /\ \A d : ~WillDrop(q, d)
  BY <1>1 DEF RecordOK, PathOK, WillDrop
<1>3. \A d \in Curricula : tree'[d] = IF d = c THEN q.seen ELSE tree[d]
  BY <1>1 DEF TInv, TypeOK
<1> HIDE DEF c
<1>4. \A d \in Curricula : tree'[d] # None => tree[d] # None \/ row[d] # "absent"
  BY <1>2, <1>3
<1>5. \A d \in Curricula : tree'[d] # None /\ tree'[d] # TreeNow(d) =>
        \/ d \in lateTrees'
        \/ tree'[d] = tree[d] /\ (d \in lateTrees => d \in lateTrees') /\ ~WillDrop(q, d)
  <2> TAKE d \in Curricula
  <2>1. CASE d = c
    BY <1>1, <1>3, <2>1
  <2>2. CASE d # c
    BY <1>1, <1>2, <1>3, <2>2
  <2>3. QED
    BY <2>1, <2>2
<1>6. QED
  BY <1>1, <1>4, <1>5, IdlePath, TreesChange

LEMMA FadesClimb ==
  ASSUME TInv, ClimbInv,
         (\E c \in Curricula : FadeTree(c)) \/ \E k \in ListKeys : FadeList(k)
  PROVE  ClimbInv'
<1>1. ASSUME NEW c \in Curricula, FadeTree(c) PROVE ClimbInv'
  <2>1. /\ req' = req /\ UNCHANGED <<row, ver>>
        /\ tree' = [tree EXCEPT ![c] = None] /\ lateTrees' = lateTrees \ {c}
    BY <1>1 DEF FadeTree, rows
  <2>2. \A d \in Curricula : tree'[d] = IF d = c THEN None ELSE tree[d]
    BY <2>1 DEF TInv, TypeOK
  <2>3. \A d \in Curricula : tree'[d] # None => tree[d] # None \/ row[d] # "absent"
    BY <2>2
  <2>4. \A d \in Curricula : tree'[d] # None /\ tree'[d] # TreeNow(d) =>
          tree'[d] = tree[d] /\ (d \in lateTrees => d \in lateTrees')
    BY <2>1, <2>2
  <2>5. QED
    BY <2>1, <2>3, <2>4, TreesChange
<1>2. ASSUME NEW k \in ListKeys, FadeList(k) PROVE ClimbInv'
  <2>1. req' = req /\ UNCHANGED <<row, ver, tree, lateTrees>>
    BY <1>2 DEF FadeList, rows, trees
  <2>2. \A d \in Curricula : tree'[d] # None => tree[d] # None \/ row[d] # "absent"
    BY <2>1
  <2>3. \A d \in Curricula : tree'[d] # None /\ tree'[d] # TreeNow(d) =>
          tree'[d] = tree[d] /\ (d \in lateTrees => d \in lateTrees')
    BY <2>1
  <2>4. QED
    BY <2>1, <2>2, <2>3, TreesChange
<1>3. QED
  BY <1>1, <1>2

\* The write itself.  Where a row above it is deleted it changes no tree; otherwise its own
\* climb is clear.  It may delete a row another write was about to read: then all that
\* write had left to read beyond is its own climb, and it takes over.
LEMMA WriteClimb ==
  ASSUME TInv, ClimbInv, NEW r \in Reqs, Write(r)
  PROVE  ClimbInv'
<1> DEFINE q == req[r]
           n == q.node
           new == [q EXCEPT !.pc = AfterWrite(q)]
<1>1. /\ Typed(q) /\ RecordOK(q) /\ PathOK(q) /\ q.pc = "write" /\ q.op \in WriteOps /\ n \in Nodes
      /\ q.op = "create" => row[n] = "absent"
      /\ row'[n] # "absent"
      /\ \A m \in Nodes : m # n => row'[m] = row[m] /\ ver'[m] = ver[m]
  BY WriteRow DEF ClimbInv
<1>2. req' = [req EXCEPT ![r] = new] /\ UNCHANGED <<tree, lateTrees>>
  BY DEF Write, caches, trees
<1>3. /\ AfterWrite(q) \in {"climb", "delTree", "keys"}
      /\ AfterWrite(q) = "keys" => q.find = None
  BY DEF AfterWrite
<1>4. new.pc = AfterWrite(q) /\ new.op = q.op /\ new.node = n /\ new.climb = q.climb
  BY <1>1 DEF Typed, Request
<1> HIDE DEF new
<1>5. req'[r] = new /\ \A p \in Reqs : p # r => req'[p] = req[p]
  BY <1>2 DEF TInv, TypeOK
<1>6. ASSUME NEW p \in Reqs PROVE PathOK(req[p])'
  <2>1. CASE p = r
    BY <1>1, <1>3, <1>4, <1>5, <2>1 DEF PathOK, WriteOps
  <2>2. CASE p # r
    <3>1. PathOK(req[p]) /\ Typed(req[p]) /\ req'[p] = req[p]
      BY <1>5, <2>2, TypedRequests DEF TInv, ClimbInv
    <3>2. req[p].op = "tree" => req[p].node \in Nodes
      BY <3>1 DEF Typed
    <3>3. QED
      BY <1>1, <3>1, <3>2 DEF PathOK
  <2>3. QED
    BY <2>1, <2>2
<1>7. ASSUME NEW c \in Curricula, tree'[c] # None PROVE row'[c] # "absent"
  <2>1. row[c] # "absent" /\ c \in Nodes
    BY <1>2, <1>7 DEF ClimbInv, Curricula
  <2>2. QED
    BY <1>1, <2>1
<1>8. Path(q.climb, n) /\ q.climb \in Seq(Nodes) /\ n \notin Steps(q.climb)
  BY <1>1 DEF PathOK, Path, Between, Typed, Request
<1>9. Between(n) \subseteq Nodes /\ Steps(q.climb) \subseteq Between(n)
  BY <1>1, <1>8, LineShape DEF Between, Path
<1>10. ASSUME NEW c, Root(n) = c, \A a \in Steps(q.climb) : Live(a), AfterWrite(q) # "keys"
       PROVE  WillDrop(req[r], c)'
  <2>1. \A a \in Steps(q.climb) : Live(a)'
    BY <1>1, <1>8, <1>9, <1>10 DEF Live
  <2>2. QED
    BY <1>3, <1>4, <1>5, <1>10, <2>1 DEF WillDrop
<1>11. ASSUME NEW c \in Curricula, StaleTree(c)', c \notin lateTrees
       PROVE  \E p \in Reqs : WillDrop(req[p], c)'
  <2>1. tree'[c] = tree[c] /\ tree[c] # None
    BY <1>2, <1>11 DEF StaleTree
  <2>2. CASE StaleTree(c)
    <3>1. PICK p \in Reqs : WillDrop(req[p], c)
      BY <1>11, <2>2 DEF ClimbInv
    <3>2. p # r /\ req'[p] = req[p]
      BY <1>1, <1>5, <3>1 DEF WillDrop
    <3>3. /\ req[p].op \in WriteOps /\ req[p].node \in Nodes /\ Path(req[p].climb, req[p].node)
          /\ req[p].climb \in Seq(Nodes)
      BY <3>1, TypedRequests DEF TInv, ReqsOK, RecordOK, WriteAwaits, WillDrop, ClimbInv, PathOK, Typed, Request
    <3>4. CASE n \notin Steps(req[p].climb)
      <4>1. Steps(req[p].climb) \subseteq Nodes
        BY <3>3, LineShape DEF Path, Between
      <4>2. \A a \in Steps(req[p].climb) : Live(a)'
        BY <1>1, <3>1, <3>4, <4>1 DEF WillDrop, Live
      <4>3. QED
        BY <3>1, <3>2, <4>2 DEF WillDrop
    <3>5. CASE n \in Steps(req[p].climb)
      <4>1. Between(n) \subseteq Steps(req[p].climb)
        BY <3>3, <3>5, PathAbove
      <4>2. \A a \in Steps(q.climb) : Live(a)
        BY <1>9, <3>1, <4>1 DEF WillDrop
      <4>3. n \in Line[req[p].node] /\ Table[n] # "curriculum"
        BY <3>3, <3>5 DEF Path, Between
      <4>4. Root(n) = c
        BY <3>1, <3>3, <4>3, RootOf DEF WillDrop
      <4>5. AfterWrite(q) # "keys"
        BY <1>1, <1>3, <4>3 DEF PathOK
      <4>6. QED
        BY <1>10, <4>2, <4>4, <4>5
    <3>6. QED
      BY <3>4, <3>5
  <2>3. CASE ~StaleTree(c)
    <3>1. TreeNow(c)' # TreeNow(c)
      BY <1>11, <2>1, <2>3 DEF StaleTree
    <3>2. c = Root(n) /\ \A a \in Between(n) : Live(a)
      BY <1>1, <3>1, WriteElsewhere
    <3>3. AfterWrite(q) # "keys"
      <4> SUFFICES ASSUME AfterWrite(q) = "keys" PROVE FALSE
        OBVIOUS
      <4>1. q.op = "create" /\ Table[n] = "curriculum"
        BY <1>1, <1>3 DEF PathOK
      <4>2. n = c
        BY <1>1, <3>2, <4>1, RootOf, LineShape
      <4>3. QED
        BY <1>1, <2>1, <4>1, <4>2 DEF ClimbInv
    <3>4. QED
      BY <1>9, <1>10, <3>2, <3>3
  <2>4. QED
    BY <2>2, <2>3
<1>12. QED
  BY <1>2, <1>6, <1>7, <1>11 DEF ClimbInv

\* Each step of a request or of a TTL keeps the invariant of the trees.
LEMMA NextClimb == ASSUME TInv, ClimbInv, [Next]_vars PROVE ClimbInv'
<1>1. CASE UNCHANGED vars
  <2>1. UNCHANGED <<row, ver, tree, req, lateTrees>>
    BY <1>1 DEF vars
  <2>2. \A c : TreeNow(c)' = TreeNow(c)
    BY <2>1, TreeDepends DEF Live
  <2>3. QED
    BY <2>1, <2>2 DEF ClimbInv, PathOK, StaleTree, WillDrop, Live
<1>2. ASSUME NEW r \in Reqs, WriteStep(r) PROVE ClimbInv'
  BY <1>2, FindClimb, WriteClimb, ClimbClimb, DelTreeClimb, ListsClimb DEF WriteStep
<1>3. ASSUME NEW r \in Reqs, ReadStep(r) PROVE ClimbInv'
  BY <1>3, ListsClimb, SetTreeClimb DEF ReadStep
<1>4. QED
  BY <1>1, <1>2, <1>3, ArriveClimb, FadesClimb DEF Next

\* Rows that age or go were not live, and were made.
LEMMA RowsSettleClimb ==
  ASSUME ClimbInv, UNCHANGED <<ver, caches, req>>,
         row' \in [Nodes -> {"absent", "live", "deleted", "expired", "purged"}], TInv,
         \A n \in Nodes : /\ row'[n] = "absent" <=> row[n] = "absent"
                          /\ row'[n] = "live" <=> row[n] = "live"
  PROVE  ClimbInv'
<1>1. UNCHANGED <<ver, tree, req, lateTrees>> /\ \A n \in Nodes : Live(n)' <=> Live(n)
  BY DEF caches, trees, Live
<1>2. \A c : TreeNow(c)' = TreeNow(c)
  BY <1>1, TreeDepends
<1>3. ASSUME NEW r \in Reqs PROVE PathOK(req[r])'
  <2>1. PathOK(req[r]) /\ Typed(req[r])
    BY TypedRequests DEF ClimbInv, TInv
  <2>2. QED
    BY <1>1, <2>1 DEF PathOK, Typed
<1>4. ASSUME NEW r \in Reqs, NEW c, WillDrop(req[r], c) PROVE WillDrop(req[r], c)'
  <2>1. /\ req[r].climb \in Seq(Nodes)
    BY TypedRequests DEF TInv, Typed, Request
  <2>2. Steps(req[r].climb) \subseteq Nodes
    BY <2>1 DEF Steps
  <2>3. QED
    BY <1>1, <1>4, <2>2 DEF WillDrop
<1>5. \A c \in Curricula : tree'[c] # None => row'[c] # "absent"
  BY <1>1 DEF ClimbInv, Curricula
<1>6. QED
  BY <1>1, <1>2, <1>3, <1>4, <1>5 DEF ClimbInv, StaleTree

\* The nights leave every tree and every climb as they were.
LEMMA MigrationClimb == ASSUME MInv, ClimbInv, [MigrationNext]_allVars PROVE ClimbInv'
<1>1. TInv
  BY DEF MInv
<1>2. CASE UNCHANGED vars
  BY <1>1, <1>2, NextClimb
<1>3. CASE Next
  BY <1>1, <1>3, NextClimb
<1>4. ASSUME NEW n \in Nodes, Expire(n) PROVE ClimbInv'
  <2>1. row[n] = "deleted" /\ row' = [row EXCEPT ![n] = "expired"] /\ UNCHANGED <<ver, caches, req>>
    BY <1>4 DEF Expire
  <2>2. QED
    BY <1>1, <2>1, TInvRows, RowsSettleClimb
<1>5. ASSUME NEW j \in Jobs, MigrateModel(j) PROVE ClimbInv'
  <2> DEFINE table == {n \in Expired : Table[n] = Targets[done[j] + 1]}
  <2>1. /\ row' = IF \A n \in table : Children(n) = {}
                  THEN [n \in Nodes |-> IF n \in table THEN "purged" ELSE row[n]]
                  ELSE row
        /\ UNCHANGED <<ver, caches, req>>
    BY <1>5 DEF MigrateModel
  <2>2. \A n \in table : row[n] = "expired"
    BY DEF Expired
  <2> HIDE DEF table
  <2>3. /\ row' \in [Nodes -> {"absent", "live", "deleted", "expired", "purged"}]
        /\ \A n \in Nodes : row'[n] = row[n] \/ (row[n] = "expired" /\ row'[n] = "purged")
    BY <1>1, <2>1, <2>2, TInvRows
  <2>4. QED
    BY <1>1, <2>1, <2>3, RowsSettleClimb
<1>6. QED
  BY <1>2, <1>3, <1>4, <1>5 DEF MigrationNext, allVars, StartNight, EndNight

-----------------------------------------------------------------------------
(* Theorems *)

\* The invariant of requests and nights holds in every reachable state.
THEOREM ContentInvariance == MigrationSpec => []MInv
<1>1. MigrationInit => MInv
  BY InitMInv
<1>2. MInv /\ [MigrationNext]_allVars => MInv'
  BY MigrationKeeps
<1>3. QED
  BY <1>1, <1>2, PTL DEF MigrationSpec

\* Rows, cached copies and requests keep their types, and each request its node and filter.
THEOREM ContentTypeCorrect == MigrationSpec => []TypeOK
<1>1. MInv => TypeOK
  BY DEF MInv, TInv
<1>2. QED
  BY <1>1, ContentInvariance, PTL

\* CurriculumService: a cached list that differs from the tables was stored late, or
\* a write to a curriculum has yet to drop it; no deleted ancestor keeps it from doing so.
THEOREM StaleListsHaveCause == MigrationSpec => []StaleListHasCause
<1>1. MInv => StaleListHasCause
  BY DEF MInv, TInv, ListCause, StaleList, StaleListHasCause, Dropping, At
<1>2. QED
  BY <1>1, ContentInvariance, PTL

\* CurriculumService: a cached tree that differs from the tables was stored late by a reader
\* that a write overtook, or a write below its root has yet to drop it, for any tree of rows:
\* a write that stops at a deleted ancestor leaves no stale tree behind.
THEOREM StaleTreesHaveCause == MigrationSpec => []StaleTreeHasCause
<1>1. MigrationInit => ClimbInv
  BY InitClimbInv DEF MigrationInit
<1>2. MInv /\ ClimbInv /\ [MigrationNext]_allVars => ClimbInv'
  BY MigrationClimb
<1>3. ClimbInv => StaleTreeHasCause
  BY DEF ClimbInv, StaleTree, StaleTreeHasCause, WillDrop, Pending
<1>4. QED
  BY <1>1, <1>2, <1>3, ContentInvariance, PTL DEF MigrationSpec

\* DeleteMigrationService: rows with nothing left under them but expired rows are all
\* gone when the night that found them ends, whatever runs beside it.
THEOREM OneNightSuffices == MigrationSpec => []OneNightIsEnough
<1>1. ASSUME MInv, NEW j \in Jobs, done[j] = Len(Targets), NEW n \in due[j] PROVE row[n] = "purged"
  <2>1. Len(Targets) = 5
    BY DEF Targets
  <2>2. NightOK(j) /\ done[j] = 5 /\ n \in Nodes
    BY <1>1, <2>1 DEF MInv, NightOK
  <2>3. done[j] # None
    BY <2>2, NoneIsNoNumber
  <2>4. \E i \in 1..5 : Table[n] = Targets[i]
    BY <2>2, ParentTable DEF Targets
  <2>5. PICK i \in 1..5 : Table[n] = Targets[i]
    BY <2>4
  <2>6. QED
    BY <2>2, <2>3, <2>5 DEF NightOK
<1>2. MInv => OneNightIsEnough
  BY <1>1 DEF OneNightIsEnough
<1>3. QED
  BY <1>2, ContentInvariance, PTL
=============================================================================
