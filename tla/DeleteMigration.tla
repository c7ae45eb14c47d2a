--------------------------- MODULE DeleteMigration ---------------------------
(***************************************************************************)
(* DeleteMigrationService over the rows of Curriculum: every night, in     *)
(* every process, one raw DELETE per table for the rows whose deletedAt is *)
(* older than the retention period.  The foreign keys are RESTRICT, so a   *)
(* statement that meets one row with a child left fails as a whole; the    *)
(* job logs it and goes on with the next table.                            *)
(*                                                                         *)
(* Of the thirteen tables the job names, in child to parent order, the     *)
(* five of the curriculum are here; the others are leaves or refer to them *)
(* in the same way.                                                        *)
(***************************************************************************)
EXTENDS Curriculum

CONSTANTS
  Jobs,  \* processes: each runs its own job
  Mode   \* DELETE_MIGRATION_MODE

ASSUME NoneIsNoNumber == None \notin Nat

VARIABLES
  done,   \* done[j]: statements of tonight's job, None between nights
  due     \* due[j]: history, the rows that job has promised to remove

allVars == <<vars, done, due>>

\* Faulty variant: parents are listed before their children.
ParentsFirst == <<"curriculum", "chapter", "section", "topic", "objective">>
\* migrationTargets
Targets == <<"objective", "topic", "section", "chapter", "curriculum">>

\* onModuleInit
Enabled == Mode = "internal"

Expired == {n \in Nodes : row[n] = "expired"}
Children(n) == {m \in Nodes : Parent[m] = n /\ row[m] \notin {"absent", "purged"}}

\* The night could remove every expired row: nothing left hangs under one of them.
Unblocked == \A n \in Expired : Children(n) \subseteq Expired

\* Thirty days pass over a deleted row.  Requests, cached copies and jobs live for
\* seconds or hours.
Expire(n) ==
  /\ row[n] = "deleted"
  /\ \A r \in Reqs : req[r] = Idle
  /\ \A c \in Curricula : tree[c] = None
  /\ \A k \in ListKeys : list[k] = None
  /\ \A j \in Jobs : done[j] = None
  /\ row' = [row EXCEPT ![n] = "expired"]
  /\ UNCHANGED <<ver, writes, caches, req, done, due>>

\* handleDeleteMigration starts; a night without expired rows does nothing.
StartNight(j) ==
  /\ Enabled /\ done[j] = None /\ Expired # {}
  /\ done' = [done EXCEPT ![j] = 0]
  /\ due' = [due EXCEPT ![j] = IF Unblocked THEN Expired ELSE {}]
  /\ UNCHANGED vars

\* migrateModel, and the catch around it.
MigrateModel(j) ==
  LET table == {n \in Expired : Table[n] = Targets[done[j] + 1]}
  IN /\ done[j] # None /\ done[j] < Len(Targets)
     /\ row' = IF \A n \in table : Children(n) = {}
               THEN [n \in Nodes |-> IF n \in table THEN "purged" ELSE row[n]]
               ELSE row
     /\ done' = [done EXCEPT ![j] = @ + 1]
     /\ UNCHANGED <<ver, writes, caches, req, due>>

EndNight(j) ==
  /\ done[j] = Len(Targets)
  /\ done' = [done EXCEPT ![j] = None]
  /\ due' = [due EXCEPT ![j] = {}]
  /\ UNCHANGED vars

MigrationInit == Init /\ done = [j \in Jobs |-> None] /\ due = [j \in Jobs |-> {}]

MigrationNext ==
  \/ Next /\ UNCHANGED <<done, due>>
  \/ \E n \in Nodes : Expire(n)
  \/ \E j \in Jobs : StartNight(j) \/ MigrateModel(j) \/ EndNight(j)

MigrationSpec == MigrationInit /\ [][MigrationNext]_allVars

-----------------------------------------------------------------------------
(* Properties *)

\* When nothing is left under the expired rows, one night removes them all, with
\* the jobs of other processes and requests running beside it: the order of the
\* tables saves a second night.
OneNightIsEnough ==
  \A j \in Jobs : done[j] = Len(Targets) => \A n \in due[j] : row[n] = "purged"

\* delete-migration.service.ts:108: rows past the retention period are removed.
\* One expired row with a live child keeps its whole table from being cleaned.
NightRemovesExpired ==
  [][\A j \in Jobs : done[j] = Len(Targets) /\ done'[j] = None => Expired = {}]_allVars
=============================================================================
