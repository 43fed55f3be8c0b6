----------------------------- MODULE Migrations -----------------------------
(***************************************************************************)
(* migrateUp() of DatabaseConnectBuilder (src/modules/database/builders):  *)
(* every instance of the service applies the new files of migrations/ when *)
(* it starts.                                                              *)
(*                                                                         *)
(* Every query goes through the pool of Sequelize, which hands out any     *)
(* free connection and opens one only when there is none.  BEGIN, LOCK     *)
(* TABLE, GET_LOCK, COMMIT and RELEASE_LOCK act upon the connection they   *)
(* happen to get, and the up() of the files runs a transaction of its own, *)
(* on a connection of the same pool, whose commit() it does not await.     *)
(*                                                                         *)
(* An action is the execution of one query by the database server, and     *)
(* what its caller does up to its next query.                              *)
(***************************************************************************)
EXTENDS Naturals, FiniteSets, FiniteSetsExt

CONSTANTS
  Instances,  \* the instances of the service
  Files,      \* the files of migrations/, numbered in their order
  Ddl,        \* the files that change the schema
  PoolSize,   \* connections an instance may have; enough to never wait for one
  Dialect,    \* "postgres" or "mysql"
  Crashes,    \* may instances be killed and started again?
  Breaks,     \* may connections be lost?
  NULL

Conns == Instances \X (1 .. PoolSize)
Of(i) == {i} \X (1 .. PoolSize)

ASSUME FilesAssumption   == Files \subseteq Nat /\ IsFiniteSet(Files) /\ Ddl \subseteq Files
ASSUME PoolAssumption    == PoolSize \in Nat /\ PoolSize > Cardinality(Files) + 1
ASSUME DialectAssumption == Dialect \in {"postgres", "mysql"}
ASSUME FaultsAssumption  == Crashes \in BOOLEAN /\ Breaks \in BOOLEAN
ASSUME NullAssumption    == NULL \notin Conns

VARIABLES
  pc,        \* the query each instance awaits
  at,        \* the connection that executes it
  todo,      \* the files it still has to apply
  locked,    \* lockAcquired
  healthy,   \* DatabaseMigrationStatusService.isHealthy()
  pool,      \* the open connections of each instance
  ending,    \* the end of a file's own transaction a connection is executing
  open,      \* connections inside a transaction
  wrote,     \* files whose changes a transaction has made
  names,     \* names a transaction has put into the migrations table
  lock,      \* who has the table lock (postgres) or the advisory lock (mysql)
  applied,   \* files whose changes are committed
  rows       \* committed rows of the migrations table, per file

instance == <<pc, at, todo, locked, healthy>>
database == <<open, wrote, names, lock, applied, rows>>
vars == <<instance, pool, ending, database>>

TypeOK ==
  /\ pc \in [Instances -> {"off", "create", "getLock", "begin", "lockTable", "read", "up",
                           "insert", "commit", "rollback", "lastRollback", "release", "done"}]
  /\ at \in [Instances -> Conns \cup {NULL}]
  /\ todo \in [Instances -> SUBSET Files]
  /\ locked \in [Instances -> BOOLEAN]
  /\ healthy \in [Instances -> BOOLEAN]
  /\ pool \in [Instances -> SUBSET Conns]
  /\ ending \in [Conns -> {"no", "commit", "rollback"}]
  /\ open \in SUBSET Conns
  /\ wrote \in [Conns -> SUBSET Files]
  /\ names \in [Conns -> SUBSET Files]
  /\ lock \in Conns \cup {NULL}
  /\ applied \in SUBSET Files
  /\ rows \in [Files -> Nat]

Init ==
  /\ pc = [i \in Instances |-> "off"]
  /\ at = [i \in Instances |-> NULL]
  /\ todo = [i \in Instances |-> {}]
  /\ locked = [i \in Instances |-> FALSE]
  /\ healthy = [i \in Instances |-> TRUE]
  /\ pool = [i \in Instances |-> {}]
  /\ ending = [k \in Conns |-> "no"]
  /\ open = {}
  /\ wrote = [k \in Conns |-> {}]
  /\ names = [k \in Conns |-> {}]
  /\ lock = NULL
  /\ applied = {}
  /\ rows = [m \in Files |-> 0]

Postgres == Dialect = "postgres"

----------------------------------------------------------------------------
(* The pool.                                                               *)

\* Mutant of Acquire: the pool opens one connection more than its limit.
AcquireBeyondLimit(i, step, conns, busy) ==
  LET free == conns \ busy
      new  == {k \in Of(i) \ conns : ending[k] = "no"} \cup {<<i, PoolSize + 1>>}
  IN  \E k \in IF free # {} THEN free ELSE new :
        /\ pc' = [pc EXCEPT ![i] = step]
        /\ at' = [at EXCEPT ![i] = k]
        /\ pool' = [pool EXCEPT ![i] = conns \cup {k}]

\* i asks for a connection and awaits the query `step` on it; conns are the open
\* ones, busy those inside a transaction object.
Acquire(i, step, conns, busy) ==
  LET free == conns \ busy
      new  == {k \in Of(i) \ conns : ending[k] = "no"}
  IN  \E k \in IF free # {} THEN free ELSE new :
        /\ pc' = [pc EXCEPT ![i] = step]
        /\ at' = [at EXCEPT ![i] = k]
        /\ pool' = [pool EXCEPT ![i] = conns \cup {k}]

Busy == {k \in Conns : ending[k] # "no"}
Query(i, step) == Acquire(i, step, pool[i], Busy)

----------------------------------------------------------------------------
(* The database server.                                                    *)

\* The transaction of k ends.  PostgreSQL releases its table lock.
EndTransaction(k, commits) ==
  /\ open' = open \ {k}
  /\ applied' = IF commits THEN applied \cup wrote[k] ELSE applied
  /\ rows' = IF commits THEN [m \in Files |-> IF m \in names[k] THEN rows[m] + 1 ELSE rows[m]]
             ELSE rows
  /\ wrote' = [wrote EXCEPT ![k] = {}]
  /\ names' = [names EXCEPT ![k] = {}]
  /\ lock' = IF Postgres /\ lock = k THEN NULL ELSE lock

\* The connections gone are closed: their transactions are rolled back.
Close(gone) ==
  /\ open' = open \ gone
  /\ wrote' = [k \in Conns |-> IF k \in gone THEN {} ELSE wrote[k]]
  /\ names' = [k \in Conns |-> IF k \in gone THEN {} ELSE names[k]]
  /\ lock' = IF lock \in gone THEN NULL ELSE lock
  /\ UNCHANGED <<applied, rows>>

\* May k use the migrations table?  LOCK TABLE keeps everybody else out.
TableFree(k) == Postgres => lock \in {NULL, k}

----------------------------------------------------------------------------
(* migrateUp(): the queries in their order.                                *)

\* The finally block, after markSuccess() or markFailure().
Finish(i, ok, conns, busy) ==
  /\ healthy' = [healthy EXCEPT ![i] = ok]
  /\ \/ locked[i] /\ Acquire(i, "release", conns, busy)
     \/ /\ ~locked[i]
        /\ pc' = [pc EXCEPT ![i] = "done"]
        /\ at' = [at EXCEPT ![i] = NULL]
        /\ pool' = [pool EXCEPT ![i] = conns]

Start(i) ==
  /\ pc[i] = "off"
  /\ Query(i, "create")
  /\ UNCHANGED <<todo, locked, healthy, ending, database>>

\* CREATE TABLE IF NOT EXISTS
Created(i) ==
  /\ pc[i] = "create"
  /\ Query(i, IF Postgres THEN "begin" ELSE "getLock")
  /\ UNCHANGED <<todo, locked, healthy, ending, database>>

\* GET_LOCK(name, 30): after 30 seconds it answers 0, and nobody looks.
GotLock(i) ==
  /\ pc[i] = "getLock"
  /\ \/ lock \in {NULL, at[i]} /\ lock' = at[i]
     \/ lock \notin {NULL, at[i]} /\ UNCHANGED lock
  /\ locked' = [locked EXCEPT ![i] = TRUE]
  /\ Query(i, "begin")
  /\ UNCHANGED <<todo, healthy, ending, open, wrote, names, applied, rows>>

Begun(i) ==
  /\ pc[i] = "begin"
  /\ open' = open \cup {at[i]}
  /\ Query(i, IF Postgres THEN "lockTable" ELSE "read")
  /\ UNCHANGED <<todo, locked, healthy, ending, wrote, names, lock, applied, rows>>

\* LOCK TABLE ... IN ACCESS EXCLUSIVE MODE waits for every transaction that has
\* used the table.
TableLocked(i) ==
  /\ pc[i] = "lockTable"
  /\ TableFree(at[i])
  /\ \A k \in Conns \ {at[i]} : names[k] = {}
  /\ lock' = at[i]
  /\ Query(i, "read")
  /\ UNCHANGED <<todo, locked, healthy, ending, open, wrote, names, applied, rows>>

\* Mutant of NextTask: the next file is recorded, and its up() is not called.
NextTaskWithoutUp(i, rest) ==
  /\ todo' = [todo EXCEPT ![i] = rest]
  /\ Query(i, IF rest = {} THEN "commit" ELSE "insert")

\* The next file, or COMMIT when there is none.
NextTask(i, rest) ==
  /\ todo' = [todo EXCEPT ![i] = rest]
  /\ Query(i, IF rest = {} THEN "commit" ELSE "up")

\* Mutant of ReadCompleted: the filter keeps the files that have a row.
ReadCompletedInverted(i) ==
  /\ pc[i] = "read"
  /\ TableFree(at[i])
  /\ NextTask(i, {m \in Files : rows[m] > 0 \/ m \in names[at[i]]})
  /\ UNCHANGED <<locked, healthy, ending, database>>

\* listCompletedMigrationsSql(), and the files it does not name.
ReadCompleted(i) ==
  /\ pc[i] = "read"
  /\ TableFree(at[i])
  /\ NextTask(i, {m \in Files : rows[m] = 0 /\ m \notin names[at[i]]})
  /\ UNCHANGED <<locked, healthy, ending, database>>

\* Mutant of QueryAfterUp: a file that has failed is recorded as well.
InsertAfterUp(succeeds) == "insert"

\* The rest of the loop's body: the name is recorded, or the catch block runs.
QueryAfterUp(succeeds) == IF succeeds THEN "insert" ELSE "rollback"

\* instance.up(): a transaction of its own, commit() or rollback() not awaited.
\* A file fails when it has been applied already, or one before it has not; it
\* waits for a transaction that is applying it.
Up(i) ==
  LET k == at[i]
      m == Min(todo[i])
      seen == applied \cup wrote[k]
      succeeds == m \notin seen /\ (1 .. m - 1) \cap Files \subseteq seen
      ends == [ending EXCEPT ![k] = IF succeeds THEN "commit" ELSE "rollback"]
  IN
  /\ pc[i] = "up"
  /\ \A c \in Conns \ {k} : m \notin wrote[c]
  /\ open' = open \cup {k}
  /\ ending' = ends
  /\ \/ /\ succeeds /\ ~Postgres /\ m \in Ddl   \* MySQL commits a change of the schema
        /\ applied' = seen \cup {m}
        /\ wrote' = [wrote EXCEPT ![k] = {}]
     \/ /\ succeeds /\ (Postgres \/ m \notin Ddl)
        /\ wrote' = [wrote EXCEPT ![k] = @ \cup {m}]
        /\ UNCHANGED applied
     \/ /\ ~succeeds
        /\ UNCHANGED <<wrote, applied>>
  /\ Acquire(i, QueryAfterUp(succeeds), pool[i], Busy \cup {k})
  /\ UNCHANGED <<todo, locked, healthy, names, lock, rows>>

\* Mutant of FileTransactionEnds: a file that fails does not roll back.
FileTransactionCommits(k) ==
  /\ ending[k] = "commit"
  /\ EndTransaction(k, TRUE)
  /\ ending' = [ending EXCEPT ![k] = "no"]
  /\ UNCHANGED <<instance, pool>>

\* The server executes the commit() or rollback() of a file's transaction, even
\* of an instance that was killed meanwhile; the connection is free again.
FileTransactionEnds(k) ==
  /\ ending[k] # "no"
  /\ EndTransaction(k, ending[k] = "commit")
  /\ ending' = [ending EXCEPT ![k] = "no"]
  /\ UNCHANGED <<instance, pool>>

\* insertMigrationSql(): committed at once unless its connection is inside a
\* transaction.
Inserted(i) ==
  LET m == Min(todo[i])
  IN
  /\ pc[i] = "insert"
  /\ TableFree(at[i])
  /\ \/ at[i] \in open /\ names' = [names EXCEPT ![at[i]] = @ \cup {m}] /\ UNCHANGED rows
     \/ at[i] \notin open /\ rows' = [rows EXCEPT ![m] = @ + 1] /\ UNCHANGED names
  /\ NextTask(i, todo[i] \ {m})
  /\ UNCHANGED <<locked, healthy, ending, open, wrote, lock, applied>>

\* Mutant of Committed: the COMMIT is never sent.
CommittedNothing(i) ==
  /\ pc[i] = "commit"
  /\ Finish(i, TRUE, pool[i], Busy)
  /\ UNCHANGED <<todo, locked, ending, database>>

Committed(i) ==
  /\ pc[i] = "commit"
  /\ EndTransaction(at[i], TRUE)
  /\ Finish(i, TRUE, pool[i], Busy)
  /\ UNCHANGED <<todo, locked, ending>>

\* Mutant of RolledBack: a failed start is marked as a success.
RolledBackAsSuccess(i) ==
  /\ pc[i] \in {"rollback", "lastRollback"}
  /\ EndTransaction(at[i], FALSE)
  /\ Finish(i, TRUE, pool[i], Busy)
  /\ UNCHANGED <<todo, locked, ending>>

\* ROLLBACK after a failed file, or in the outer catch block.
RolledBack(i) ==
  /\ pc[i] \in {"rollback", "lastRollback"}
  /\ EndTransaction(at[i], FALSE)
  /\ Finish(i, FALSE, pool[i], Busy)
  /\ UNCHANGED <<todo, locked, ending>>

\* RELEASE_LOCK frees the lock only if its connection has it.
Released(i) ==
  /\ pc[i] = "release"
  /\ lock' = IF lock = at[i] THEN NULL ELSE lock
  /\ pc' = [pc EXCEPT ![i] = "done"]
  /\ at' = [at EXCEPT ![i] = NULL]
  /\ UNCHANGED <<todo, locked, healthy, pool, ending, open, wrote, names, applied, rows>>

----------------------------------------------------------------------------
(* Faults.                                                                 *)

\* A connection is lost; the query awaited on it rejects, and the catch blocks
\* run up to their next query.
ConnectionLost(i, k) ==
  LET rest == pool[i] \ {k}
  IN
  /\ Breaks
  /\ k \in pool[i]
  /\ Close({k})
  /\ ending' = [ending EXCEPT ![k] = "no"]
  /\ \/ /\ at[i] # k
        /\ pool' = [pool EXCEPT ![i] = rest]
        /\ UNCHANGED <<pc, at, healthy>>
     \/ /\ at[i] = k /\ pc[i] \in {"create", "getLock", "begin", "lastRollback"}
        /\ Finish(i, FALSE, rest, Busy)
     \/ /\ at[i] = k /\ pc[i] \in {"up", "insert"}
        /\ Acquire(i, "rollback", rest, Busy)
        /\ UNCHANGED healthy
     \/ /\ at[i] = k /\ pc[i] \in {"lockTable", "read", "commit", "rollback"}
        /\ Acquire(i, "lastRollback", rest, Busy)
        /\ UNCHANGED healthy
     \/ /\ at[i] = k /\ pc[i] = "release"
        /\ pc' = [pc EXCEPT ![i] = "done"]
        /\ at' = [at EXCEPT ![i] = NULL]
        /\ pool' = [pool EXCEPT ![i] = rest]
        /\ UNCHANGED healthy
  /\ UNCHANGED <<todo, locked>>

\* The process is killed and will be started again.  A COMMIT that was sent
\* still reaches the server.
Killed(i) ==
  /\ Crashes
  /\ pc[i] # "off"
  /\ Close({k \in pool[i] : ending[k] = "no"})
  /\ pc' = [pc EXCEPT ![i] = "off"]
  /\ at' = [at EXCEPT ![i] = NULL]
  /\ todo' = [todo EXCEPT ![i] = {}]
  /\ locked' = [locked EXCEPT ![i] = FALSE]
  /\ healthy' = [healthy EXCEPT ![i] = TRUE]
  /\ pool' = [pool EXCEPT ![i] = {}]
  /\ UNCHANGED ending

----------------------------------------------------------------------------
Step(i) ==
  \/ Start(i) \/ Created(i) \/ GotLock(i) \/ Begun(i) \/ TableLocked(i)
  \/ ReadCompleted(i) \/ Up(i) \/ Inserted(i) \/ Committed(i) \/ RolledBack(i)
  \/ Released(i)

Next ==
  \/ \E i \in Instances : Step(i) \/ Killed(i) \/ \E k \in Conns : ConnectionLost(i, k)
  \/ \E k \in Conns : FileTransactionEnds(k)

Spec == Init /\ [][Next]_vars

\* The server executes every query that is not blocked.
Fairness ==
  /\ \A i \in Instances : WF_vars(Step(i))
  /\ \A k \in Conns : WF_vars(FileTransactionEnds(k))

FairSpec == Spec /\ Fairness

----------------------------------------------------------------------------
(* Properties.                                                             *)

\* An instance that has marked its migrations as successful finds the name of
\* every file committed, whichever connections its queries got.
SuccessMeansRecorded ==
  \A i \in Instances : pc[i] \in {"done", "release"} /\ healthy[i] =>
                         \A m \in Files : rows[m] > 0

\* No file is recorded twice, although the migrations table has no unique key.
RecordedOnce == \A m \in Files : rows[m] <= 1

\* An instance whose start is over keeps no lock and no transaction, except one
\* whose end is under way.
NothingLeft ==
  \A i \in Instances : pc[i] = "done" =>
    \A k \in pool[i] : k \in open \cup {lock} => ending[k] # "no"

\* Every start comes to its end: no two instances wait for each other.
StartsEnd == \A i \in Instances : (pc[i] # "off") ~> (pc[i] \in {"off", "done"})

\* The files are applied and recorded, once for all.
AllApplied == <>[](applied = Files /\ \A m \in Files : rows[m] = 1)

\* README of database, "Поведение миграций", 2: the lock protects instances that
\* start at the same time from each other.
NoRace == \A i \in Instances : healthy[i]

\* The same, 4: a name is recorded after its file has been applied; its commit may
\* still be under way, because nobody awaits it.
RecordedIsApplied == \A m \in Files : rows[m] > 0 => \/ m \in applied
                                                     \/ \E k \in Conns : m \in wrote[k]
=============================================================================
