-------------------------- MODULE SetupWizardProofs --------------------------
(***************************************************************************)
(* Proofs about SetupWizard, for any number of processes, settings and     *)
(* forms in flight.                                                        *)
(*                                                                         *)
(* A process can only come to serve settings it read from .env, now or     *)
(* when it was started, so the invariant follows settings from the form    *)
(* into .env, into a process and into its connection: wherever they are,   *)
(* their database is ready, their form is on its way, or it has failed.    *)
(***************************************************************************)
EXTENDS SetupWizard, TLAPS

Carried(s) == \E r \in Reqs : post[r] # None /\ post[r].settings = s
Covered(s) == s \in Settings => db[s] = "ready" \/ s \in failed \/ Carried(s)

\* The inductive invariant.
WInv ==
    /\ TypeOK
    /\ Covered(env)
    /\ \A p \in Procs : Covered(seen[p]) /\ Covered(using[p])

\* What a step has to show of the settings: none loses its cover.
StaysCovered == \A s \in Settings : Covered(s) => Covered(s)'

\* A form in flight is typed.
LEMMA PostTypes ==
  ASSUME TypeOK, NEW r \in Reqs, post[r] # None
  PROVE  /\ post[r] \in Post
         /\ post[r].proc \in Procs /\ post[r].settings \in Settings
<1>1. post[r] \in Post
  BY DEF TypeOK
<1>2. QED
  BY <1>1 DEF Post

\* A step keeps the cover when no database loses its tables and every form that is
\* dropped has failed or has made its database ready.
LEMMA CoverKept ==
  ASSUME NEW s \in Settings, Covered(s),
         db[s] = "ready" => db'[s] = "ready",
         s \in failed => s \in failed' \/ Carried(s)',
         \A r \in Reqs : post[r] # None /\ post[r].settings = s =>
            \/ post'[r] # None /\ post'[r].settings = s
            \/ s \in failed' \/ db'[s] = "ready"
  PROVE  Covered(s)'
<1>1. CASE Carried(s)
  <2>1. PICK r \in Reqs : post[r] # None /\ post[r].settings = s
    BY <1>1 DEF Carried
  <2>2. CASE post'[r] # None /\ post'[r].settings = s
    BY <2>2 DEF Carried, Covered
  <2>3. QED
    BY <2>1, <2>2 DEF Covered
<1>2. QED
  BY <1>1 DEF Covered

\* The program starts with settings that are installed, or with none.
LEMMA InitWInv == Init => WInv
<1> SUFFICES ASSUME Init PROVE WInv
  OBVIOUS
<1>1. TypeOK
  BY InstalledAssumption DEF Init, TypeOK
<1>2. Covered(env)
  BY NoneAssumption, InstalledAssumption DEF Init, Covered
<1>3. \A p \in Procs : Covered(seen[p]) /\ Covered(using[p])
  BY NoneAssumption DEF Init, Covered
<1>4. QED
  BY <1>1, <1>2, <1>3 DEF WInv

-----------------------------------------------------------------------------
(* One lemma per action *)

\* Starting a process copies .env and touches no form.
LEMMA StartKeeps ==
  ASSUME TypeOK, NEW p \in Procs, Start(p)
  PROVE  TypeOK' /\ StaysCovered
<1>1. TypeOK'
  BY DEF Start, TypeOK
<1>2. StaysCovered
  BY DEF Start, StaysCovered, Covered, Carried
<1>3. QED
  BY <1>1, <1>2

\* A form that is sent again covers the settings whose failure it clears.
LEMMA PostSetupKeeps ==
  ASSUME TypeOK, NEW p \in Procs, NEW r \in Reqs, NEW s \in Settings, PostSetup(p, r, s)
  PROVE  TypeOK' /\ StaysCovered /\ Covered(env)'
<1> DEFINE new == [proc |-> p, settings |-> s, pc |-> "look"]
<1>1. new \in Post /\ new.settings = s
  BY DEF Post
<1>2. post[r] = None /\ post' = [post EXCEPT ![r] = new] /\ failed' = failed \ {s} /\ env' = s
      /\ UNCHANGED <<forced, db, phase, seen, using, leaving>>
  BY DEF PostSetup
<1> HIDE DEF new
<1>3. TypeOK'
  BY <1>1, <1>2 DEF TypeOK
<1>4. post'[r] # None /\ post'[r].settings = s
  BY <1>1, <1>2, PostAssumption DEF TypeOK
<1>5. Carried(s)'
  BY <1>4 DEF Carried
<1>6. ASSUME NEW z \in Settings, Covered(z) PROVE Covered(z)'
  <2>1. \A q \in Reqs : post[q] # None => post'[q] = post[q]
    BY <1>2 DEF TypeOK
  <2>2. z \in failed => z \in failed' \/ Carried(z)'
    BY <1>2, <1>5
  <2>3. QED
    BY <1>2, <1>6, <2>1, <2>2, CoverKept
<1>7. Covered(env)'
  BY <1>2, <1>5 DEF Covered
<1>8. QED
  BY <1>3, <1>6, <1>7 DEF StaysCovered

\* A form that is refused is entered in failed.
LEMMA RefuseKeeps ==
  ASSUME TypeOK, NEW r \in Reqs, post[r] # None, Refuse(r)
  PROVE  TypeOK' /\ StaysCovered
<1>1. post[r].settings \in Settings
  BY PostTypes
<1>2. TypeOK'
  BY <1>1 DEF Refuse, TypeOK
<1>3. ASSUME NEW s \in Settings, Covered(s) PROVE Covered(s)'
  <2>1. \A q \in Reqs : post[q] # None /\ post[q].settings = s =>
          (post'[q] # None /\ post'[q].settings = s) \/ s \in failed'
    BY DEF Refuse, TypeOK
  <2>2. QED
    BY <1>3, <2>1, CoverKept DEF Refuse
<1>4. QED
  BY <1>2, <1>3 DEF StaysCovered

\* A form that goes on to its next step carries the same settings.
LEMMA AdvancesKeeps ==
  ASSUME TypeOK, NEW r \in Reqs, post[r] # None, NEW l \in {"look", "create", "push"},
         post' = [post EXCEPT ![r].pc = l],
         UNCHANGED <<env, forced, phase, seen, using, leaving, failed>>,
         db' \in [Settings -> {"absent", "empty", "ready"}],
         \A s \in Settings : db[s] = "ready" => db'[s] = "ready"
  PROVE  TypeOK' /\ StaysCovered
<1> DEFINE new == [post[r] EXCEPT !.pc = l]
<1>1. post[r] \in Post
  BY PostTypes
<1>2. new \in Post /\ new.settings = post[r].settings
  BY <1>1 DEF Post
<1>3. post' = [post EXCEPT ![r] = new]
  OBVIOUS
<1> HIDE DEF new
<1>4. TypeOK'
  BY <1>2, <1>3 DEF TypeOK
<1>5. ASSUME NEW s \in Settings, Covered(s) PROVE Covered(s)'
  <2>1. \A q \in Reqs : post[q] # None /\ post[q].settings = s => post'[q] # None /\ post'[q].settings = s
    BY <1>2, <1>3, PostAssumption DEF TypeOK
  <2>2. QED
    BY <1>5, <2>1, CoverKept
<1>6. QED
  BY <1>4, <1>5 DEF StaysCovered

\* Looking for the database decides where the form goes on.
LEMMA LookKeeps ==
  ASSUME TypeOK, NEW r \in Reqs, LookForDatabase(r)
  PROVE  TypeOK' /\ StaysCovered
<1>1. post[r] # None
  BY DEF LookForDatabase, At
<1>2. CASE Refuse(r)
  BY <1>1, <1>2, RefuseKeeps
<1>3. CASE /\ post' = [post EXCEPT ![r].pc =
                         IF db[post[r].settings] = "absent" THEN "create" ELSE "push"]
           /\ UNCHANGED <<env, forced, db, phase, seen, using, leaving, failed>>
  <2>1. db' \in [Settings -> {"absent", "empty", "ready"}]
    BY <1>3 DEF TypeOK
  <2>2. CASE db[post[r].settings] = "absent"
    BY <1>1, <1>3, <2>1, <2>2, AdvancesKeeps
  <2>3. CASE db[post[r].settings] # "absent"
    BY <1>1, <1>3, <2>1, <2>3, AdvancesKeeps
  <2>4. QED
    BY <2>2, <2>3
<1>4. QED
  BY <1>2, <1>3 DEF LookForDatabase

\* A database is only created where there was none.
LEMMA CreateKeeps ==
  ASSUME TypeOK, NEW r \in Reqs, CreateDatabase(r)
  PROVE  TypeOK' /\ StaysCovered
<1>1. post[r] # None
  BY DEF CreateDatabase, At
<1>2. CASE Refuse(r)
  BY <1>1, <1>2, RefuseKeeps
<1>3. CASE ~Refuse(r)
  <2> DEFINE s == post[r].settings
  <2>1. s \in Settings
    BY <1>1, PostTypes
  <2>2. /\ db[s] = "absent" /\ db' = [db EXCEPT ![s] = "empty"]
        /\ post' = [post EXCEPT ![r].pc = "push"]
        /\ UNCHANGED <<env, forced, phase, seen, using, leaving, failed>>
    BY <1>3 DEF CreateDatabase
  <2>3. db' \in [Settings -> {"absent", "empty", "ready"}]
    BY <2>1, <2>2 DEF TypeOK
  <2>4. \A z \in Settings : db[z] = "ready" => db'[z] = "ready"
    BY <2>1, <2>2 DEF TypeOK
  <2>5. QED
    BY <1>1, <2>2, <2>3, <2>4, AdvancesKeeps
<1>4. QED
  BY <1>2, <1>3

\* A push that succeeds makes the database of its form ready.
LEMMA PushKeeps ==
  ASSUME TypeOK, NEW r \in Reqs, PrismaPush(r)
  PROVE  TypeOK' /\ StaysCovered
<1>1. post[r] # None /\ post[r].proc \in Procs /\ post[r].settings \in Settings
  BY PostTypes DEF PrismaPush, At
<1>2. CASE Refuse(r)
  BY <1>1, <1>2, RefuseKeeps
<1>3. CASE ~Refuse(r)
  <2>1. /\ db' = [db EXCEPT ![post[r].settings] = "ready"]
        /\ post' = [post EXCEPT ![r] = None]
        /\ leaving' = leaving \cup {post[r].proc}
        /\ UNCHANGED <<env, forced, phase, seen, using, failed>>
    BY <1>3 DEF PrismaPush
  <2>2. TypeOK'
    BY <1>1, <2>1 DEF TypeOK
  <2>3. ASSUME NEW s \in Settings, Covered(s) PROVE Covered(s)'
    <3>1. \A q \in Reqs : post[q] # None /\ post[q].settings = s =>
            (post'[q] # None /\ post'[q].settings = s) \/ db'[s] = "ready"
      BY <2>1 DEF TypeOK
    <3>2. db[s] = "ready" => db'[s] = "ready"
      BY <2>1 DEF TypeOK
    <3>3. QED
      BY <2>1, <2>3, <3>1, <3>2, CoverKept
  <2>4. QED
    BY <2>2, <2>3 DEF StaysCovered
<1>4. QED
  BY <1>2, <1>3

\* Skipping, the shutdown timer and a connection change no settings' cover.
LEMMA QuietKeeps ==
  ASSUME TypeOK, NEW p \in Procs, Skip(p) \/ Shutdown(p) \/ Connect(p)
  PROVE  TypeOK' /\ StaysCovered
<1>1. CASE Skip(p)
  BY <1>1 DEF Skip, TypeOK, StaysCovered, Covered, Carried
<1>2. CASE Shutdown(p)
  <2>1. TypeOK'
    BY <1>2 DEF Shutdown, TypeOK
  <2>2. QED
    BY <1>2, <2>1 DEF Shutdown, StaysCovered, Covered, Carried
<1>3. CASE Connect(p)
  <2>1. Url(p) \in Settings
    BY <1>3 DEF Connect, Url, TypeOK
  <2>2. TypeOK'
    BY <1>3, <2>1, NoneAssumption DEF Connect, TypeOK
  <2>3. QED
    BY <1>3, <2>2 DEF Connect, StaysCovered, Covered, Carried
<1>4. QED
  BY <1>1, <1>2, <1>3

\* Testing a connection may create a database, never remove one.
LEMMA TestDbKeeps ==
  ASSUME TypeOK, NEW p \in Procs, NEW s \in Settings, TestDb(p, s)
  PROVE  TypeOK' /\ StaysCovered
<1>1. TypeOK'
  BY DEF TestDb, TypeOK
<1>2. \A z \in Settings : db[z] = "ready" => db'[z] = "ready"
  BY DEF TestDb, TypeOK
<1>3. QED
  BY <1>1, <1>2 DEF TestDb, StaysCovered, Covered, Carried

\* The forms of a process that ends have failed.
LEMMA ExitKeeps ==
  ASSUME TypeOK, NEW p \in Procs, Exit(p)
  PROVE  TypeOK' /\ StaysCovered
<1> DEFINE lost == {r \in Reqs : post[r] # None /\ post[r].proc = p}
<1>1. post' = [r \in Reqs |-> IF r \in lost THEN None ELSE post[r]]
  BY DEF Exit
<1>2. failed' = failed \cup {post[r].settings : r \in lost}
  BY DEF Exit
<1>3. failed' \subseteq Settings
  BY <1>2, PostTypes DEF TypeOK
<1>4. post' \in [Reqs -> Post \cup {None}]
  BY <1>1 DEF TypeOK
<1>5. TypeOK'
  BY <1>3, <1>4, NoneAssumption DEF Exit, TypeOK
<1>6. ASSUME NEW s \in Settings, Covered(s) PROVE Covered(s)'
  <2>1. \A q \in Reqs : post[q] # None /\ post[q].settings = s =>
          (post'[q] # None /\ post'[q].settings = s) \/ s \in failed'
    BY <1>1, <1>2
  <2>2. db' = db /\ failed \subseteq failed'
    BY <1>2 DEF Exit
  <2>3. QED
    BY <1>6, <2>1, <2>2, CoverKept
<1>7. QED
  BY <1>5, <1>6 DEF StaysCovered

-----------------------------------------------------------------------------
\* Every step keeps the types, and the cover of settings everywhere.
LEMMA StepKeeps ==
  ASSUME TypeOK, Next
  PROVE  TypeOK' /\ StaysCovered
<1>1. CASE \E r \in Reqs : Advance(r)
  BY <1>1, LookKeeps, CreateKeeps, PushKeeps DEF Advance
<1>2. CASE \E p \in Procs : Start(p) \/ Skip(p) \/ Shutdown(p) \/ Connect(p)
  BY <1>2, StartKeeps, QuietKeeps
<1>3. CASE \E p \in Procs : ConnectFails(p) \/ Die(p)
  BY <1>3, ExitKeeps DEF ConnectFails, Die
<1>4. CASE \E p \in Procs, s \in Settings : TestDb(p, s)
  BY <1>4, TestDbKeeps
<1>5. CASE \E p \in Procs, r \in Reqs, s \in Settings : PostSetup(p, r, s)
  BY <1>5, PostSetupKeeps
<1>6. QED
  BY <1>1, <1>2, <1>3, <1>4, <1>5 DEF Next

\* Only a form writes .env; a process copies it and connects to what it holds.
LEMMA SourcesFlow ==
  ASSUME WInv, Next
  PROVE  /\ env' = env \/ Covered(env)'
         /\ \A p \in Procs : seen'[p] \in {seen[p], env}
         /\ \A p \in Procs : using'[p] \in {using[p], None, seen[p], env}
<1>1. CASE \E r \in Reqs : Advance(r)
  BY <1>1 DEF Advance, LookForDatabase, CreateDatabase, PrismaPush, Refuse
<1>2. CASE \E p \in Procs : Start(p) \/ Skip(p) \/ Shutdown(p)
  BY <1>2 DEF Start, Skip, Shutdown, WInv, TypeOK
<1>3. CASE \E p \in Procs : Connect(p) \/ ConnectFails(p) \/ Die(p)
  BY <1>3 DEF Connect, ConnectFails, Die, Exit, Url, WInv, TypeOK
<1>4. CASE \E p \in Procs, s \in Settings : TestDb(p, s)
  BY <1>4 DEF TestDb
<1>5. CASE \E p \in Procs, r \in Reqs, s \in Settings : PostSetup(p, r, s)
  BY <1>5, PostSetupKeeps DEF PostSetup, WInv
<1>6. QED
  BY <1>1, <1>2, <1>3, <1>4, <1>5 DEF Next

\* The invariant is inductive.
LEMMA NextKeeps == WInv /\ [Next]_vars => WInv'
<1> SUFFICES ASSUME WInv, [Next]_vars PROVE WInv'
  OBVIOUS
<1>1. CASE Next
  <2>1. TypeOK' /\ StaysCovered
    BY <1>1, StepKeeps DEF WInv
  <2>2. \A s : Covered(s) => Covered(s)'
    BY <2>1 DEF StaysCovered, Covered
  <2>3. Covered(None) /\ Covered(env) /\ \A p \in Procs : Covered(seen[p]) /\ Covered(using[p])
    BY NoneAssumption DEF WInv, Covered
  <2>4. /\ env' = env \/ Covered(env)'
        /\ \A p \in Procs : seen'[p] \in {seen[p], env}
        /\ \A p \in Procs : using'[p] \in {using[p], None, seen[p], env}
    BY <1>1, SourcesFlow
  <2>5. Covered(env)'
    <3>1. CASE env' = env
      <4>1. \A s \in {env} : s \in Settings => db'[s] = "ready" \/ s \in failed' \/ Carried(s)'
        BY <2>2, <2>3 DEF Covered, Carried
      <4>2. QED
        BY <3>1, <4>1 DEF Covered, Carried
    <3>2. QED
      BY <2>4, <3>1
  <2>6. ASSUME NEW p \in Procs PROVE Covered(seen[p])' /\ Covered(using[p])'
    <3>1. \A s \in {seen[p], using[p], env, None} :
            s \in Settings => db'[s] = "ready" \/ s \in failed' \/ Carried(s)'
      BY <2>2, <2>3 DEF Covered, Carried
    <3>2. QED
      BY <2>4, <3>1 DEF Covered, Carried
  <2>7. QED
    BY <2>1, <2>5, <2>6 DEF WInv
<1>2. CASE UNCHANGED vars
  BY <1>2 DEF vars, WInv, TypeOK, Covered, Carried
<1>3. QED
  BY <1>1, <1>2

\* What is in .env, in the processes and in flight keeps its type under every
\* interleaving of wizards and restarts.
THEOREM SetupTypeCorrect == Spec => []TypeOK
<1>1. WInv => TypeOK
  BY DEF WInv
<1>2. QED
  BY InitWInv, NextKeeps, <1>1, PTL DEF Spec

\* A process that serves from a database without tables got there through a form
\* that failed or has not ended (setup.server.ts:316-467, main.ts:38-55), however
\* many wizards, forms and restarts overlap.
THEOREM UnpreparedHasCauseAlways == Spec => []UnpreparedHasCause
<1>1. ASSUME WInv PROVE UnpreparedHasCause
  <2> SUFFICES ASSUME NEW p \in Procs, phase[p] = "serving", db[using[p]] # "ready",
                      using[p] \notin failed
               PROVE  \E q \in Procs : Sent(q, using[p])
    BY DEF UnpreparedHasCause
  <2>1. TypeOK /\ Covered(using[p])
    BY <1>1 DEF WInv
  <2>2. using[p] \in Settings
    BY <2>1 DEF TypeOK
  <2>3. PICK r \in Reqs : post[r] # None /\ post[r].settings = using[p]
    BY <2>1, <2>2 DEF Covered, Carried
  <2>4. post[r].proc \in Procs /\ Sent(post[r].proc, using[p])
    BY <2>1, <2>3, PostTypes DEF Sent
  <2>5. QED
    BY <2>4
<1>2. WInv => UnpreparedHasCause
  BY <1>1
<1>3. QED
  BY InitWInv, NextKeeps, <1>2, PTL DEF Spec
=============================================================================
