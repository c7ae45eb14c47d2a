---------------------------- MODULE SetupWizard ----------------------------
(***************************************************************************)
(* How a process of the cluster starts: bootstrap() looks for .env, runs   *)
(* the setup wizard when there is none or FORCE_SETUP is set, and then     *)
(* connects to the database.  Every process runs its own wizard on one     *)
(* shared port; they share .env and the MySQL server.                      *)
(*                                                                         *)
(* Settings stand for what a form can hold: a database, with everything    *)
(* else that is written to .env along with its URL.                        *)
(***************************************************************************)
EXTENDS Naturals

CONSTANTS
    Procs,          \* the processes pm2 starts
    Settings,       \* contents of a form, one database each
    Installed,      \* the settings whose database already has its tables
    Reqs,           \* slots for POST /setup in flight
    None,
    MayFail         \* MySQL, prisma or a process may fail

ASSUME InstalledAssumption == Installed \subseteq Settings
ASSUME NoneAssumption == None \notin Settings
ASSUME FaultAssumption == MayFail \in BOOLEAN

VARIABLES
    env,        \* the settings in .env, or None
    forced,     \* FORCE_SETUP
    db,         \* the database of each settings: absent, empty or ready
    phase,      \* what each process is doing
    seen,       \* .env as the process found it when it was started, or None
    using,      \* the settings whose database a process is connected to
    post,       \* the POST /setup in each slot, or None
    leaving,    \* processes whose wizard has armed its shutdown timer
    failed      \* history: settings whose latest POST to end ended in an error

vars == <<env, forced, db, phase, seen, using, post, leaving, failed>>

\* A POST /setup on its way, and the step it takes next.
Post == [proc : Procs, settings : Settings, pc : {"look", "create", "push"}]
ASSUME PostAssumption == None \notin Post

TypeOK ==
    /\ env \in Settings \cup {None}
    /\ forced \in BOOLEAN
    /\ db \in [Settings -> {"absent", "empty", "ready"}]
    /\ phase \in [Procs -> {"down", "wizard", "starting", "serving"}]
    /\ seen \in [Procs -> Settings \cup {None}]
    /\ using \in [Procs -> Settings \cup {None}]
    /\ \A p \in Procs : using[p] # None <=> phase[p] = "serving"
    /\ post \in [Reqs -> Post \cup {None}]
    /\ leaving \subseteq Procs
    /\ failed \subseteq Settings

Init ==
    /\ env \in Installed \cup {None}
    /\ forced \in BOOLEAN
    /\ db = [s \in Settings |-> IF s \in Installed THEN "ready" ELSE "absent"]
    /\ phase = [p \in Procs |-> "down"]
    /\ seen = [p \in Procs |-> None]
    /\ using = [p \in Procs |-> None]
    /\ post = [r \in Reqs |-> None]
    /\ leaving = {}
    /\ failed = {}

-----------------------------------------------------------------------------
\* A process is started.  Importing app.module reads .env into process.env
\* before bootstrap() decides about the wizard.
Start(p) ==
    /\ phase[p] = "down"
    /\ seen' = [seen EXCEPT ![p] = env]
    /\ phase' = [phase EXCEPT ![p] =
                   IF env = None \/ forced THEN "wizard" ELSE "starting"]
    /\ UNCHANGED <<env, forced, db, using, post, leaving, failed>>

\* Faulty: the form is not told apart from the one that wrote .env last.
PostNameless(p, r, s) ==
    /\ phase[p] = "wizard"
    /\ post[r] = None
    /\ env' = s
    /\ post' = [post EXCEPT ![r] = [proc |-> p, settings |-> None, pc |-> "look"]]
    /\ UNCHANGED <<forced, db, phase, seen, using, leaving, failed>>

\* POST /setup: .env is replaced before anything is tried.
PostSetup(p, r, s) ==
    /\ phase[p] = "wizard"
    /\ post[r] = None
    /\ env' = s
    /\ post' = [post EXCEPT ![r] = [proc |-> p, settings |-> s, pc |-> "look"]]
    /\ failed' = failed \ {s}
    /\ UNCHANGED <<forced, db, phase, seen, using, leaving>>

At(r, pc) == post[r] # None /\ post[r].pc = pc

\* The answer of a POST that went wrong: 400 or 500.  .env stays as written.
Refuse(r) ==
    /\ post' = [post EXCEPT ![r] = None]
    /\ failed' = failed \cup {post[r].settings}
    /\ UNCHANGED <<env, forced, db, phase, seen, using, leaving>>

\* testMysqlConnection, which changes nothing, and the query with which
\* ensureDatabase looks for the schema ...
LookForDatabase(r) ==
    /\ At(r, "look")
    /\ \/ /\ post' = [post EXCEPT ![r].pc =
                        IF db[post[r].settings] = "absent" THEN "create" ELSE "push"]
          /\ UNCHANGED <<env, forced, db, phase, seen, using, leaving, failed>>
       \/ MayFail /\ Refuse(r)

\* ... and then creates it, which fails if somebody else was faster.
CreateDatabase(r) ==
    /\ At(r, "create")
    /\ LET s == post[r].settings IN
         \/ /\ db[s] = "absent"
            /\ db' = [db EXCEPT ![s] = "empty"]
            /\ post' = [post EXCEPT ![r].pc = "push"]
            /\ UNCHANGED <<env, forced, phase, seen, using, leaving, failed>>
         \/ (MayFail \/ db[s] # "absent") /\ Refuse(r)

\* Faulty: without DATABASE_URL in its environment prisma reads .env.
PushEnvFile(r) ==
    /\ At(r, "push")
    /\ db' = [db EXCEPT ![env] = "ready"]
    /\ post' = [post EXCEPT ![r] = None]
    /\ leaving' = leaving \cup {post[r].proc}
    /\ UNCHANGED <<env, forced, phase, seen, using, failed>>

\* Faulty: the shutdown timer is forgotten.
PushAndStay(r) ==
    /\ At(r, "push")
    /\ db' = [db EXCEPT ![post[r].settings] = "ready"]
    /\ post' = [post EXCEPT ![r] = None]
    /\ UNCHANGED <<env, forced, phase, seen, using, leaving, failed>>

\* prisma generate and prisma db push, run synchronously, for the database of
\* this form; then the answer, and the timer that ends the wizard.
PrismaPush(r) ==
    /\ At(r, "push")
    /\ \/ /\ db' = [db EXCEPT ![post[r].settings] = "ready"]
          /\ post' = [post EXCEPT ![r] = None]
          /\ leaving' = leaving \cup {post[r].proc}
          /\ UNCHANGED <<env, forced, phase, seen, using, failed>>
       \/ MayFail /\ Refuse(r)

\* POST /setup/skip asks nothing and checks nothing.
Skip(p) ==
    /\ phase[p] = "wizard"
    /\ leaving' = leaving \cup {p}
    /\ UNCHANGED <<env, forced, db, phase, seen, using, post, failed>>

\* The timer: sockets are destroyed, the server is closed, bootstrap() goes on.
\* Handlers that were waiting for MySQL go on too.
Shutdown(p) ==
    /\ p \in leaving
    /\ leaving' = leaving \ {p}
    /\ phase' = [phase EXCEPT ![p] = IF @ = "wizard" THEN "starting" ELSE @]
    /\ UNCHANGED <<env, forced, db, seen, using, post, failed>>

\* POST /setup/test-db also creates the database it finds missing.
TestDb(p, s) ==
    /\ phase[p] = "wizard"
    /\ db[s] = "absent"
    /\ db' = [db EXCEPT ![s] = "empty"]
    /\ UNCHANGED <<env, forced, phase, seen, using, post, leaving, failed>>

-----------------------------------------------------------------------------
\* Nothing in process.env is overwritten later: a process that found a .env when
\* it was started keeps it, whatever its wizard has written since.
Url(p) == IF seen[p] # None THEN seen[p] ELSE env

\* NestFactory.create: Prisma connects, and a database without tables will do.
Connect(p) ==
    /\ phase[p] = "starting"
    /\ Url(p) # None
    /\ db[Url(p)] # "absent"
    /\ phase' = [phase EXCEPT ![p] = "serving"]
    /\ using' = [using EXCEPT ![p] = Url(p)]
    /\ UNCHANGED <<env, forced, db, seen, post, leaving, failed>>

\* A process ends with everything it was doing.
Exit(p) ==
    LET lost == {r \in Reqs : post[r] # None /\ post[r].proc = p} IN
    /\ phase' = [phase EXCEPT ![p] = "down"]
    /\ using' = [using EXCEPT ![p] = None]
    /\ leaving' = leaving \ {p}
    /\ post' = [r \in Reqs |-> IF r \in lost THEN None ELSE post[r]]
    /\ failed' = failed \cup {post[r].settings : r \in lost}
    /\ UNCHANGED <<env, forced, db, seen>>

\* bootstrap() catches nothing: a refused connection ends the process.
ConnectFails(p) ==
    /\ phase[p] = "starting"
    /\ Url(p) = None \/ (Url(p) # None /\ db[Url(p)] = "absent")
    /\ Exit(p)

Die(p) ==
    /\ MayFail
    /\ phase[p] # "down"
    /\ Exit(p)

Advance(r) ==
    \/ LookForDatabase(r)
    \/ CreateDatabase(r)
    \/ PrismaPush(r)

Next ==
    \/ \E p \in Procs :
         \/ Start(p)
         \/ \E r \in Reqs, s \in Settings : PostSetup(p, r, s)
         \/ Skip(p)
         \/ \E s \in Settings : TestDb(p, s)
         \/ Shutdown(p)
         \/ Connect(p)
         \/ ConnectFails(p)
         \/ Die(p)
    \/ \E r \in Reqs : Advance(r)

Spec == Init /\ [][Next]_vars

\* connectTimeout, the timeout of execSync and setTimeout all run out.
FairSpec ==
    /\ Spec
    /\ \A r \in Reqs : WF_vars(Advance(r))
    /\ \A p \in Procs : WF_vars(Shutdown(p))

-----------------------------------------------------------------------------
Sent(p, s) == \E r \in Reqs : post[r] # None /\ post[r].proc = p /\ post[r].settings = s

\* A process serves from a database without tables only after a POST /setup for
\* it that failed, or while one is still on its way: overlapping forms, a wizard
\* skipped or a restart in between are never enough (setup.server.ts:316-467).
UnpreparedHasCause ==
    \A p \in Procs : phase[p] = "serving" /\ db[using[p]] # "ready" =>
        \/ using[p] \in failed
        \/ \E q \in Procs : Sent(q, using[p])

\* Every form that is sent ends the wizard of the process that took it, or fails
\* (setup.server.ts:479-491).
FormsSettle ==
    \A p \in Procs, s \in Settings :
        Sent(p, s) ~> (phase[p] # "wizard" \/ s \in failed)
=============================================================================
