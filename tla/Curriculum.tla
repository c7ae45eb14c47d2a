------------------------------ MODULE Curriculum ------------------------------
(***************************************************************************)
(* src/src/curriculum: the five tables curriculum, chapter, section, topic *)
(* and learning objective, read as a tree and as lists through Redis.      *)
(*                                                                         *)
(* A node is a row with a fixed table and parent.  Deleting a row sets     *)
(* deletedAt and nothing else: its children stay live, hidden only because *)
(* the tree is read from the root.  A write ends by finding the root of    *)
(* the row it wrote, ancestor by ancestor, to drop the cached tree.        *)
(*                                                                         *)
(* Contents of a row are the number of writes it has seen.  That Redis or  *)
(* a process may fail is in ReadThrough and left out here.                 *)
(***************************************************************************)
EXTENDS Naturals, Sequences, FiniteSets

CONSTANTS
  Nodes,
  Table,      \* Table[n]: which of Tables holds n
  Parent,     \* Parent[n]: the row n refers to, None for a curriculum
  Grade,      \* Grade[c]: grade of curriculum c
  Seeded,     \* rows prisma/seed.ts has made
  Filters,    \* values of ?grade=, None when it is left out
  Reqs,       \* requests in flight at one time
  MaxWrites,  \* bound: writes to all rows together
  None

Tables == <<"curriculum", "chapter", "section", "topic", "objective">>
Curricula == {n \in Nodes : Table[n] = "curriculum"}

ASSUME TreeShape ==
  \A n \in Nodes :
    \/ Table[n] = "curriculum" /\ Parent[n] = None
    \/ /\ Parent[n] \in Nodes
       /\ \E i \in 1..4 : Table[Parent[n]] = Tables[i] /\ Table[n] = Tables[i + 1]
ASSUME NoneIsFresh == None \notin Nodes
ASSUME SeedIsTree == \A n \in Seeded : Parent[n] \in Seeded \cup {None}

VARIABLES
  row,     \* row[n]: "absent", "live", "deleted", "expired" or "purged"
  ver,     \* ver[n]: writes the row has seen
  writes,  \* writes so far, or begun
  tree,    \* tree[c]: the cached tree of c, a set of <<node, version>>, or None
  list,    \* list[k]: what curriculum_list key k holds: [of, rows], or None
  req,
  lateTrees,  \* history: curricula whose cached tree was out of date when stored
  lateLists   \* history: keys whose cached list was

vars == <<row, ver, writes, tree, list, req, lateTrees, lateLists>>
rows == <<row, ver, writes>>
trees == <<tree, lateTrees>>
lists == <<list, lateLists>>
caches == <<trees, lists>>

Idle == [pc |-> "idle", op |-> "none", node |-> None, find |-> None, climb |-> <<>>,
         filter |-> None, seen |-> {}, depth |-> 0, keys |-> {}]

-----------------------------------------------------------------------------
(* CurriculumRepository: findFirst, create, update and soft delete are the  *)
(* same for each table; update and soft delete name the row by id alone.    *)

Live(n) == row[n] = "live"

Insert(n) ==
  row' = [row EXCEPT ![n] = "live"] /\ ver' = [ver EXCEPT ![n] = 1]
Overwrite(n) ==
  ver' = (IF Live(n) THEN [ver EXCEPT ![n] = @ + 1] ELSE ver) /\ UNCHANGED row
SoftDelete(n) ==
  row' = [row EXCEPT ![n] = "deleted"] /\ UNCHANGED ver

\* findCurriculumById includes the live rows level by level, one SELECT each:
\* level d of the tree, given the levels above.
LevelOf(c, d, seen) ==
  {<<n, ver[n]>> : n \in {m \in Nodes :
     /\ Table[m] = Tables[d] /\ Live(m)
     /\ m = c \/ \E p \in seen : p[1] = Parent[m]}}

\* findCurriculumList
ListOf(f) == {<<c, ver[c]>> : c \in {m \in Curricula : Live(m) /\ (f = None \/ Grade[m] = f)}}

\* What one read of all levels at once would give: the rows live up to their root.
Line == LET up[n \in Nodes] == IF Parent[n] = None THEN {n} ELSE {n} \cup up[Parent[n]] IN up
Root(n) == CHOOSE c \in Line[n] : Parent[c] = None
TreeNow(c) == {<<n, ver[n]>> : n \in {m \in Nodes : c \in Line[m] /\ \A a \in Line[m] : Live(a)}}

\* CACHE_KEYS.CURRICULUM_LIST(grade ?? 0, ...)
ListKey(f) == IF f = None THEN 0 ELSE f
ListKeys == {ListKey(f) : f \in Filters}

-----------------------------------------------------------------------------
(* Handlers.  Each gives the row it looks for first (404 without it), the   *)
(* row it writes, and the ancestors it reads again afterwards on the way to *)
(* the root.                                                                *)

At(r, l) == req[r].pc = l
Finish(r) == req' = [req EXCEPT ![r] = Idle]

\* Faulty variant: the id of the row does not reach the service.
HandleAnonymous(r, find, op, n, climb) ==
  /\ writes' = writes + 1
  /\ req' = [req EXCEPT ![r] = [Idle EXCEPT !.pc = IF find = None THEN "write" ELSE "find",
               !.op = op, !.node = None, !.find = find, !.climb = climb]]
  /\ UNCHANGED <<row, ver, caches>>
Handle(r, find, op, n, climb) ==
  /\ writes' = writes + 1
  /\ req' = [req EXCEPT ![r] = [Idle EXCEPT !.pc = IF find = None THEN "write" ELSE "find",
               !.op = op, !.node = n, !.find = find, !.climb = climb]]
  /\ UNCHANGED <<row, ver, caches>>

Up(n) == Parent[n]
Fresh(n, t) == /\ Table[n] = t /\ row[n] = "absent"
               /\ \A r \in Reqs : ~(req[r].op = "create" /\ req[r].node = n)
Known(n, t) == Table[n] = t /\ row[n] # "absent"

CreateCurriculum(r, c) == Fresh(c, "curriculum") /\ Handle(r, None, "create", c, <<>>)
UpdateCurriculum(r, c) == Known(c, "curriculum") /\ Handle(r, c, "update", c, <<>>)
DeleteCurriculum(r, c) == Known(c, "curriculum") /\ Handle(r, c, "delete", c, <<>>)

CreateChapter(r, h) == Fresh(h, "chapter") /\ Handle(r, Up(h), "create", h, <<>>)
UpdateChapter(r, h) == Known(h, "chapter") /\ Handle(r, h, "update", h, <<>>)
DeleteChapter(r, h) == Known(h, "chapter") /\ Handle(r, h, "delete", h, <<>>)

CreateSection(r, s) == Fresh(s, "section") /\ Handle(r, Up(s), "create", s, <<>>)
UpdateSection(r, s) == Known(s, "section") /\ Handle(r, s, "update", s, <<Up(s)>>)
DeleteSection(r, s) == Known(s, "section") /\ Handle(r, s, "delete", s, <<Up(s)>>)

\* invalidateTopicParentCache(sectionId): the section, then its chapter.
TopicParents(s) == <<s, Up(s)>>

CreateTopic(r, t) == Fresh(t, "topic") /\ Handle(r, Up(t), "create", t, <<Up(Up(t))>>)
UpdateTopic(r, t) == Known(t, "topic") /\ Handle(r, t, "update", t, TopicParents(Up(t)))
DeleteTopic(r, t) == Known(t, "topic") /\ Handle(r, t, "delete", t, TopicParents(Up(t)))

CreateObjective(r, o) ==
  Fresh(o, "objective") /\ Handle(r, Up(o), "create", o, TopicParents(Up(Up(o))))
UpdateObjective(r, o) ==
  Known(o, "objective") /\ Handle(r, o, "update", o, <<Up(o)>> \o TopicParents(Up(Up(o))))
DeleteObjective(r, o) ==
  Known(o, "objective") /\ Handle(r, o, "delete", o, <<Up(o)>> \o TopicParents(Up(Up(o))))

FindCurriculumById(r, c) ==
  /\ Known(c, "curriculum")
  /\ req' = [req EXCEPT ![r] = [Idle EXCEPT !.pc = "getTree", !.op = "tree", !.node = c]]
  /\ UNCHANGED <<rows, caches>>

FindCurriculumList(r, f) ==
  /\ req' = [req EXCEPT ![r] = [Idle EXCEPT !.pc = "getList", !.op = "list", !.filter = f]]
  /\ UNCHANGED <<rows, caches>>

\* The routes of CurriculumController.
CurriculumRoutes(r, n) == CreateCurriculum(r, n) \/ UpdateCurriculum(r, n) \/ DeleteCurriculum(r, n)
ChapterRoutes(r, n) == CreateChapter(r, n) \/ UpdateChapter(r, n) \/ DeleteChapter(r, n)
SectionRoutes(r, n) == CreateSection(r, n) \/ UpdateSection(r, n) \/ DeleteSection(r, n)
TopicRoutes(r, n) == CreateTopic(r, n) \/ UpdateTopic(r, n) \/ DeleteTopic(r, n)
ObjectiveRoutes(r, n) == CreateObjective(r, n) \/ UpdateObjective(r, n) \/ DeleteObjective(r, n)

-----------------------------------------------------------------------------
(* The awaits of a write *)

Find(r) ==
  /\ At(r, "find")
  /\ IF Live(req[r].find) THEN req' = [req EXCEPT ![r].pc = "write"] ELSE Finish(r)
  /\ UNCHANGED <<rows, caches>>

\* After the row comes the first ancestor to read; createCurriculum drops the
\* lists only.
AfterWrite(q) ==
  IF q.climb # <<>> THEN "climb" ELSE IF q.find = None THEN "keys" ELSE "delTree"

Write(r) ==
  LET q == req[r]
  IN /\ At(r, "write")
     /\ \/ q.op = "create" /\ Insert(q.node)
        \/ q.op = "update" /\ Overwrite(q.node)
        \/ q.op = "delete" /\ SoftDelete(q.node)
     /\ req' = [req EXCEPT ![r].pc = AfterWrite(q)]
     /\ UNCHANGED <<writes, caches>>

\* An ancestor is read again; if it has been deleted, the write ends without an
\* invalidation.
Climb(r) ==
  LET rest == Tail(req[r].climb)
  IN /\ At(r, "climb")
     /\ IF Live(Head(req[r].climb))
        THEN req' = [req EXCEPT ![r].climb = rest,
                                ![r].pc = IF rest = <<>> THEN "delTree" ELSE "climb"]
        ELSE Finish(r)
     /\ UNCHANGED <<rows, caches>>

\* Faulty variant: only the lists are dropped.
DelTreeSkipped(r) ==
  At(r, "delTree") /\ req' = [req EXCEPT ![r].pc = "keys"] /\ UNCHANGED <<rows, caches>>
\* invalidateCurriculumCache
DelTree(r) ==
  LET c == Root(req[r].node)
  IN /\ At(r, "delTree")
     /\ tree' = [tree EXCEPT ![c] = None]
     /\ lateTrees' = lateTrees \ {c}
     /\ req' = [req EXCEPT ![r].pc = "keys"]
     /\ UNCHANGED <<rows, lists>>

\* invalidateCurriculumListCache: the keys to delete are those found now.
ScanKeys(r) ==
  LET found == {k \in ListKeys : list[k] # None}
  IN /\ At(r, "keys")
     /\ IF found = {} THEN Finish(r)
        ELSE req' = [req EXCEPT ![r].pc = "delList", ![r].keys = found]
     /\ UNCHANGED <<rows, caches>>

\* Faulty variant: the keys are found but not deleted.
DelListSkipped(r) == At(r, "delList") /\ Finish(r) /\ UNCHANGED <<rows, caches>>
DelList(r) ==
  /\ At(r, "delList")
  /\ list' = [k \in ListKeys |-> IF k \in req[r].keys THEN None ELSE list[k]]
  /\ lateLists' = lateLists \ req[r].keys
  /\ Finish(r)
  /\ UNCHANGED <<rows, trees>>

-----------------------------------------------------------------------------
(* The awaits of a read *)

GetTree(r) ==
  /\ At(r, "getTree")
  /\ IF tree[req[r].node] # None THEN Finish(r)
     ELSE req' = [req EXCEPT ![r].pc = "level", ![r].depth = 1]
  /\ UNCHANGED <<rows, caches>>

ReadLevel(r) ==
  LET q == req[r]
      found == LevelOf(q.node, q.depth, q.seen)
  IN /\ At(r, "level")
     /\ IF q.depth = 1 /\ found = {} THEN Finish(r)
        ELSE req' = [req EXCEPT ![r].seen = q.seen \cup found,
                                ![r].depth = IF q.depth < 5 THEN q.depth + 1 ELSE 0,
                                ![r].pc = IF q.depth < 5 THEN "level" ELSE "setTree"]
     /\ UNCHANGED <<rows, caches>>

SetTree(r) ==
  LET c == req[r].node
  IN /\ At(r, "setTree")
     /\ tree' = [tree EXCEPT ![c] = req[r].seen]
     /\ lateTrees' = IF req[r].seen = TreeNow(c) THEN lateTrees \ {c} ELSE lateTrees \cup {c}
     /\ Finish(r)
     /\ UNCHANGED <<rows, lists>>

GetList(r) ==
  /\ At(r, "getList")
  /\ IF list[ListKey(req[r].filter)] # None THEN Finish(r)
     ELSE req' = [req EXCEPT ![r].pc = "readList"]
  /\ UNCHANGED <<rows, caches>>

ReadList(r) ==
  /\ At(r, "readList")
  /\ req' = [req EXCEPT ![r].pc = "setList", ![r].seen = ListOf(req[r].filter)]
  /\ UNCHANGED <<rows, caches>>

SetList(r) ==
  LET f == req[r].filter
      k == ListKey(f)
  IN /\ At(r, "setList")
     /\ list' = [list EXCEPT ![k] = [of |-> f, rows |-> req[r].seen]]
     /\ lateLists' = IF req[r].seen = ListOf(f) THEN lateLists \ {k} ELSE lateLists \cup {k}
     /\ Finish(r)
     /\ UNCHANGED <<rows, trees>>

\* The TTL of a cached tree or list (24 hours) runs out.
FadeTree(c) ==
  /\ tree[c] # None /\ tree' = [tree EXCEPT ![c] = None] /\ lateTrees' = lateTrees \ {c}
  /\ UNCHANGED <<rows, lists, req>>
FadeList(k) ==
  /\ list[k] # None /\ list' = [list EXCEPT ![k] = None] /\ lateLists' = lateLists \ {k}
  /\ UNCHANGED <<rows, trees, req>>

WriteStep(r) ==
  Find(r) \/ Write(r) \/ Climb(r) \/ DelTree(r) \/ ScanKeys(r) \/ DelList(r)
ReadStep(r) ==
  GetTree(r) \/ ReadLevel(r) \/ SetTree(r) \/ GetList(r) \/ ReadList(r) \/ SetList(r)

Arrive(r) ==
  /\ req[r] = Idle
  /\ \/ writes < MaxWrites /\ \E n \in Nodes :
          \/ CurriculumRoutes(r, n) \/ ChapterRoutes(r, n) \/ SectionRoutes(r, n)
          \/ TopicRoutes(r, n) \/ ObjectiveRoutes(r, n)
     \/ \E c \in Curricula : FindCurriculumById(r, c)
     \/ \E f \in Filters : FindCurriculumList(r, f)

Init ==
  /\ row = [n \in Nodes |-> IF n \in Seeded THEN "live" ELSE "absent"]
  /\ ver = [n \in Nodes |-> IF n \in Seeded THEN 1 ELSE 0]
  /\ writes = 0
  /\ tree = [c \in Curricula |-> None]
  /\ list = [k \in ListKeys |-> None]
  /\ req = [r \in Reqs |-> Idle]
  /\ lateTrees = {} /\ lateLists = {}

Next ==
  \/ \E r \in Reqs : Arrive(r) \/ WriteStep(r) \/ ReadStep(r)
  \/ \E c \in Curricula : FadeTree(c)
  \/ \E k \in ListKeys : FadeList(k)

Spec == Init /\ [][Next]_vars

-----------------------------------------------------------------------------
(* Properties *)

Snapshots == SUBSET (Nodes \X Nat)
WriteOps == {"create", "update", "delete"}
Request ==
  [pc : {"idle", "find", "write", "climb", "delTree", "keys", "delList", "getTree", "level",
         "setTree", "getList", "readList", "setList"},
   op : WriteOps \cup {"none", "tree", "list"}, node : Nodes \cup {None},
   find : Nodes \cup {None}, climb : Seq(Nodes), filter : Filters \cup {None},
   seen : Snapshots, depth : 0..5, keys : SUBSET ListKeys]

TypeOK ==
  /\ row \in [Nodes -> {"absent", "live", "deleted", "expired", "purged"}]
  /\ ver \in [Nodes -> Nat]
  /\ writes \in Nat
  /\ tree \in [Curricula -> Snapshots \cup {None}]
  /\ list \in [ListKeys -> [of : Filters, rows : Snapshots] \cup {None}]
  /\ req \in [Reqs -> Request]
  /\ \A r \in Reqs : /\ req[r].op \in WriteOps \cup {"tree"} => req[r].node \in Nodes
                     /\ req[r].op = "tree" => Table[req[r].node] = "curriculum"
                     /\ req[r].op = "list" => req[r].filter \in Filters
  /\ lateTrees \subseteq Curricula /\ lateLists \subseteq ListKeys

Pending(r) == req[r].pc \in {"climb", "delTree"}

\* A cached tree that differs from the tables was stored late by a reader that a
\* write overtook, or a writer below its root has yet to drop it.  In particular
\* a write that finds an ancestor deleted, and so drops nothing, leaves no stale
\* tree behind: whoever deleted the ancestor has dropped it or will.
StaleTreeHasCause ==
  \A c \in Curricula : tree[c] \notin {None, TreeNow(c)} =>
    c \in lateTrees \/ \E r \in Reqs : Pending(r) /\ Root(req[r].node) = c

\* The same for a list, which holds curricula only: one that differs from the tables
\* was stored late, or a write to a curriculum is on its way to this very key and has
\* not scanned the keys yet or has found it.
StaleListHasCause ==
  \A k \in ListKeys : list[k] # None /\ list[k].rows # ListOf(list[k].of) =>
    \/ k \in lateLists
    \/ \E r \in Reqs : /\ req[r].op \in WriteOps /\ Table[req[r].node] = "curriculum"
                       /\ \/ req[r].pc \in {"delTree", "keys"}
                          \/ At(r, "delList") /\ k \in req[r].keys

\* curriculum.controller.ts:98: grade is an optional filter.  A cached list answers
\* the filter it was read for.
ListAnswersFilter ==
  \A r \in Reqs : At(r, "getList") =>
    LET c == list[ListKey(req[r].filter)] IN c # None => c.of = req[r].filter
=============================================================================
