-------------------------- MODULE MigrationsProofs --------------------------
(* Theorems about Migrations for any instances, files and either dialect,   *)
(* with and without crashes and lost connections: type correctness, that    *)
(* success means that every file is recorded, that on PostgreSQL nothing is *)
(* left behind, and, where no file's transaction can be lost, that a file   *)
(* is recorded at most once and never before its changes are made.          *)
EXTENDS Migrations, WellFoundedInduction, TLAPS

Places == {"off", "create", "getLock", "begin", "lockTable", "read", "up",
           "insert", "commit", "rollback", "lastRollback", "release", "done"}

\* A set of files that is not empty has a first one.
LEMMA FirstFile ==
  ASSUME NEW S \in SUBSET Files, S # {}
  PROVE  Min(S) \in S /\ Min(S) \in Files
<1>0. S \subseteq Nat
  BY FilesAssumption
<1>1. IsWellFoundedOn(OpToRel(<, Nat), Nat)
  BY NatLessThanWellFounded
<1>2. PICK m \in S : \A n \in S : <<n, m>> \notin OpToRel(<, Nat)
  BY <1>0, <1>1, WFMin
<1>3. \A n \in S : ~(n < m)
  BY <1>0, <1>2 DEF OpToRel
<1>4. \A n \in S : m =< n
  BY <1>0, <1>3
<1> QED BY <1>4 DEF Min

\* The connections of different instances are different.
LEMMA OwnConns ==
  ASSUME NEW i \in Instances
  PROVE  /\ Of(i) \subseteq Conns
         /\ \A j \in Instances, k \in Of(i) : k \in Of(j) => i = j
BY DEF Of, Conns

----------------------------------------------------------------------------
(* What the shared pieces of the actions do.                               *)

\* i goes on at step with the connections conns; the others stay where they are.
Goes(i, step, k, conns) ==
  /\ pc' = [pc EXCEPT ![i] = step]
  /\ at' = [at EXCEPT ![i] = k]
  /\ pool' = [pool EXCEPT ![i] = conns]

LEMMA AcquireGoes ==
  ASSUME NEW i \in Instances, NEW step, NEW conns, conns \subseteq Of(i), NEW busy,
         Acquire(i, step, conns, busy)
  PROVE  \E k \in Of(i) :
           /\ Goes(i, step, k, conns \cup {k})
           /\ \/ k \in conns /\ k \notin busy
              \/ k \notin conns /\ ending[k] = "no" /\ conns \subseteq busy
BY DEF Acquire, Goes

LEMMA FinishGoes ==
  ASSUME NEW i \in Instances, NEW ok, NEW conns, conns \subseteq Of(i), NEW busy,
         Finish(i, ok, conns, busy)
  PROVE  /\ healthy' = [healthy EXCEPT ![i] = ok]
         /\ \/ Goes(i, "done", NULL, conns)
            \/ \E k \in Of(i) :
                 /\ Goes(i, "release", k, conns \cup {k})
                 /\ \/ k \in conns /\ k \notin busy
                    \/ k \notin conns /\ ending[k] = "no" /\ conns \subseteq busy
<1>1. CASE Acquire(i, "release", conns, busy)
  <2>1. \E k \in Of(i) :
          /\ Goes(i, "release", k, conns \cup {k})
          /\ \/ k \in conns /\ k \notin busy
             \/ k \notin conns /\ ending[k] = "no" /\ conns \subseteq busy
    BY <1>1, AcquireGoes
  <2> QED BY <2>1 DEF Finish
<1>2. CASE ~Acquire(i, "release", conns, busy)
  BY <1>2 DEF Finish, Goes
<1> QED BY <1>1, <1>2

InstanceType ==
  /\ pc \in [Instances -> Places]
  /\ at \in [Instances -> Conns \cup {NULL}]
  /\ pool \in [Instances -> SUBSET Conns]

LEMMA GoesType ==
  ASSUME InstanceType, NEW i \in Instances, NEW step \in Places, NEW k \in Conns \cup {NULL},
         NEW conns \in SUBSET Conns, Goes(i, step, k, conns)
  PROVE  /\ InstanceType'
         /\ pc'[i] = step /\ at'[i] = k /\ pool'[i] = conns
         /\ \A j \in Instances \ {i} : pc'[j] = pc[j] /\ at'[j] = at[j] /\ pool'[j] = pool[j]
BY DEF InstanceType, Goes

DatabaseType ==
  /\ open \in SUBSET Conns
  /\ wrote \in [Conns -> SUBSET Files]
  /\ names \in [Conns -> SUBSET Files]
  /\ lock \in Conns \cup {NULL}
  /\ applied \in SUBSET Files
  /\ rows \in [Files -> Nat]

LEMMA EndTransactionType ==
  ASSUME DatabaseType, NEW k \in Conns, NEW commits, EndTransaction(k, commits)
  PROVE  DatabaseType'
<1>1. applied' \in SUBSET Files /\ open' \in SUBSET Conns
  BY DEF DatabaseType, EndTransaction
<1>2. rows' \in [Files -> Nat]
  BY DEF DatabaseType, EndTransaction
<1>3. wrote' \in [Conns -> SUBSET Files] /\ names' \in [Conns -> SUBSET Files]
  BY DEF DatabaseType, EndTransaction
<1>4. lock' \in Conns \cup {NULL}
  BY DEF DatabaseType, EndTransaction
<1> QED BY <1>1, <1>2, <1>3, <1>4 DEF DatabaseType

LEMMA CloseType ==
  ASSUME DatabaseType, NEW gone, Close(gone)
  PROVE  DatabaseType'
<1>1. wrote' \in [Conns -> SUBSET Files] /\ names' \in [Conns -> SUBSET Files]
  BY DEF DatabaseType, Close
<1> QED BY <1>1 DEF DatabaseType, Close

----------------------------------------------------------------------------
(* Type correctness, with what is needed of the connections: those of an    *)
(* instance are its own, and it awaits a query on a free one of them.       *)

AtInv ==
  \A i \in Instances :
    /\ pool[i] \subseteq Of(i)
    /\ pc[i] = "off" => pool[i] = {}
    /\ pc[i] \notin {"off", "done"} => at[i] \in pool[i] /\ ending[at[i]] = "no"
    /\ pc[i] \in {"create", "getLock", "begin", "lockTable", "read"} => pool[i] = {at[i]}

\* The files an instance has still to apply, and those it need not.
TodoInv ==
  \A i \in Instances :
    /\ pc[i] \in {"up", "insert"} => todo[i] # {}
    /\ pc[i] = "commit" => todo[i] = {}
    /\ pc[i] \in {"up", "insert", "commit"} => \A m \in Files \ todo[i] : rows[m] > 0

LEMMA TypeParts ==
  TypeOK <=> /\ InstanceType /\ DatabaseType
             /\ todo \in [Instances -> SUBSET Files]
             /\ locked \in [Instances -> BOOLEAN]
             /\ healthy \in [Instances -> BOOLEAN]
             /\ ending \in [Conns -> {"no", "commit", "rollback"}]
BY DEF TypeOK, InstanceType, DatabaseType, Places

\* A connection is free, but still inside a transaction or the owner of the table
\* lock.
Claims(k) == ending[k] = "no" /\ (k \in open \/ (Postgres /\ lock = k))

\* It is the only connection of an instance that has not yet run a file.
Alone(i, k) == pool[i] = {k} /\ at[i] = k /\ pc[i] \in {"begin", "lockTable", "read", "up", "commit"}
OwnInv == \A k \in Conns : Claims(k) => \E i \in Instances : Alone(i, k)

\* Changes that are not committed belong to a file's transaction whose commit() is
\* under way, and no row of the migrations table is written inside a transaction.
WroteInv == \A k \in Conns : (wrote[k] # {} => ending[k] = "commit") /\ names[k] = {}

MigrationsInv == TypeOK /\ AtInv /\ TodoInv /\ OwnInv /\ WroteInv

LEMMA InitInv == Init => MigrationsInv
<1> SUFFICES ASSUME Init PROVE MigrationsInv
  OBVIOUS
<1>1. InstanceType /\ DatabaseType
  BY DEF Init, InstanceType, DatabaseType, Places
<1>2. TypeOK
  BY <1>1, TypeParts DEF Init
<1>3. AtInv /\ TodoInv
  BY DEF Init, AtInv, TodoInv
<1>4. OwnInv /\ WroteInv
  BY NullAssumption DEF Init, OwnInv, Claims, WroteInv
<1> QED BY <1>2, <1>3, <1>4 DEF MigrationsInv

----------------------------------------------------------------------------
(* The course of a start: i goes from one query to the next, each on a free *)
(* connection, which is new only when all the others are busy.              *)

Turns(i, step) ==
  \E k \in Of(i) :
    /\ Goes(i, step, k, pool[i] \cup {k})
    /\ ending'[k] = "no"
    /\ k \notin pool[i] => \A c \in pool[i] : ending'[c] # "no"

Edges == {<<"off", "create">>, <<"create", "begin">>, <<"create", "getLock">>, <<"getLock", "begin">>,
          <<"begin", "lockTable">>, <<"begin", "read">>, <<"lockTable", "read">>,
          <<"read", "up">>, <<"read", "commit">>, <<"up", "insert">>, <<"up", "rollback">>,
          <<"insert", "up">>, <<"insert", "commit">>, <<"commit", "release">>, <<"commit", "done">>,
          <<"rollback", "release">>, <<"rollback", "done">>,
          <<"lastRollback", "release">>, <<"lastRollback", "done">>, <<"release", "done">>}

StepGoes(i, step) ==
  /\ Turns(i, step) \/ (step = "done" /\ Goes(i, "done", NULL, pool[i]))
  /\ <<pc[i], step>> \in Edges
  /\ \A c \in Conns : c # at[i] \/ pc[i] # "up" => ending'[c] = ending[c]

LEMMA QueryTurns ==
  ASSUME AtInv, NEW i \in Instances, NEW step, Query(i, step), UNCHANGED ending
  PROVE  Turns(i, step)
<1>1. pool[i] \subseteq Of(i) /\ pool[i] \subseteq Conns /\ Of(i) \subseteq Conns
  BY OwnConns DEF AtInv
<1>2. PICK k \in Of(i) :
        /\ Goes(i, step, k, pool[i] \cup {k})
        /\ \/ k \in pool[i] /\ k \notin Busy
           \/ k \notin pool[i] /\ ending[k] = "no" /\ pool[i] \subseteq Busy
  BY <1>1 DEF Query, Acquire, Goes
<1> QED BY <1>1, <1>2 DEF Turns, Busy

LEMMA FinishTurns ==
  ASSUME AtInv, NEW i \in Instances, NEW ok, Finish(i, ok, pool[i], Busy), UNCHANGED ending
  PROVE  Turns(i, "release") \/ Goes(i, "done", NULL, pool[i])
<1>1. pool[i] \subseteq Of(i) /\ pool[i] \subseteq Conns /\ Of(i) \subseteq Conns
  BY OwnConns DEF AtInv
<1>2. ASSUME Acquire(i, "release", pool[i], Busy)
      PROVE  Turns(i, "release")
  BY <1>1, <1>2 DEF Acquire, Goes, Turns, Busy
<1>3. ASSUME ~Acquire(i, "release", pool[i], Busy)
      PROVE  Goes(i, "done", NULL, pool[i])
  BY <1>3 DEF Finish, Goes
<1> QED BY <1>2, <1>3

LEMMA UpTurns ==
  ASSUME TypeOK, AtInv, NEW i \in Instances, Up(i)
  PROVE  /\ Turns(i, "insert") \/ Turns(i, "rollback")
         /\ ending'[at[i]] \in {"commit", "rollback"}
         /\ \A c \in Conns \ {at[i]} : ending'[c] = ending[c]
<1> DEFINE succeeds == Min(todo[i]) \notin applied \cup wrote[at[i]]
                       /\ (1 .. Min(todo[i]) - 1) \cap Files \subseteq applied \cup wrote[at[i]]
<1> DEFINE step == QueryAfterUp(succeeds)
<1>1. /\ pool[i] \subseteq Of(i) /\ pool[i] \subseteq Conns /\ Of(i) \subseteq Conns
      /\ at[i] \in pool[i]
  BY OwnConns DEF AtInv, Up
<1>2. ending' = [ending EXCEPT ![at[i]] = IF succeeds THEN "commit" ELSE "rollback"]
  BY DEF Up
<1>3. /\ ending'[at[i]] \in {"commit", "rollback"}
      /\ \A c \in Conns \ {at[i]} : ending'[c] = ending[c]
  BY <1>1, <1>2 DEF TypeOK
<1>4. step \in {"insert", "rollback"}
  BY DEF QueryAfterUp
<1>5. Acquire(i, step, pool[i], Busy \cup {at[i]})
  BY DEF Up
<1> HIDE DEF step, succeeds
<1>6. PICK k \in Of(i) :
        /\ Goes(i, step, k, pool[i] \cup {k})
        /\ \/ k \in pool[i] /\ k \notin Busy \cup {at[i]}
           \/ k \notin pool[i] /\ ending[k] = "no" /\ pool[i] \subseteq Busy \cup {at[i]}
  BY <1>1, <1>5 DEF Acquire, Goes
<1>7. ending'[k] = "no" /\ (k \notin pool[i] => \A c \in pool[i] : ending'[c] # "no")
  BY <1>1, <1>3, <1>6 DEF Busy
<1>8. Turns(i, step)
  BY <1>6, <1>7 DEF Turns
<1> QED BY <1>3, <1>4, <1>8

LEMMA StepCourse ==
  ASSUME TypeOK, AtInv, NEW i \in Instances, Step(i)
  PROVE  \E step \in Places : StepGoes(i, step)
<1> USE DEF StepGoes, Edges, Places
<1>1. CASE Start(i)
  BY <1>1, QueryTurns DEF Start
<1>2. CASE Created(i)
  BY <1>2, QueryTurns DEF Created
<1>3. CASE GotLock(i)
  BY <1>3, QueryTurns DEF GotLock
<1>4. CASE Begun(i)
  BY <1>4, QueryTurns DEF Begun
<1>5. CASE TableLocked(i)
  BY <1>5, QueryTurns DEF TableLocked
<1>6. CASE ReadCompleted(i)
  BY <1>6, QueryTurns DEF ReadCompleted, NextTask
<1>7. CASE Up(i)
  BY <1>7, UpTurns DEF Up
<1>8. CASE Inserted(i)
  BY <1>8, QueryTurns DEF Inserted, NextTask
<1>9. CASE Committed(i)
  BY <1>9, FinishTurns DEF Committed
<1>10. CASE RolledBack(i)
  BY <1>10, FinishTurns DEF RolledBack
<1>11. CASE Released(i)
  <2>1. pool' = [pool EXCEPT ![i] = pool[i]]
    BY <1>11 DEF Released, TypeOK
  <2>2. Goes(i, "done", NULL, pool[i])
    BY <1>11, <2>1 DEF Released, Goes
  <2> QED BY <1>11, <2>2 DEF Released
<1> QED BY <1>1, <1>2, <1>3, <1>4, <1>5, <1>6, <1>7, <1>8, <1>9, <1>10, <1>11 DEF Step

LEMMA LostCourse ==
  ASSUME TypeOK, AtInv, NEW i \in Instances, NEW k \in Conns, ConnectionLost(i, k)
  PROVE  /\ ending'[k] = "no" /\ \A c \in Conns \ {k} : ending'[c] = ending[c]
         /\ \/ /\ at[i] # k
               /\ pool' = [pool EXCEPT ![i] = pool[i] \ {k}]
               /\ UNCHANGED <<pc, at, healthy>>
            \/ \E step \in {"rollback", "lastRollback", "release", "done"} :
                 /\ at[i] = k
                 /\ \/ step = "done" /\ Goes(i, "done", NULL, pool[i] \ {k})
                    \/ \E c \in Of(i) : /\ Goes(i, step, c, (pool[i] \ {k}) \cup {c})
                                        /\ ending'[c] = "no"
                 /\ \/ healthy' = [healthy EXCEPT ![i] = FALSE]
                    \/ healthy' = healthy /\ (step \in {"release", "done"} => pc[i] = "release")
<1> DEFINE rest == pool[i] \ {k}
<1>0. /\ k \in pool[i] /\ rest \subseteq Conns
      /\ ending'[k] = "no" /\ \A c \in Conns \ {k} : ending'[c] = ending[c]
  BY OwnConns DEF ConnectionLost, AtInv, TypeOK
<1> DEFINE Moved(step) == \E c \in Of(i) : Goes(i, step, c, rest \cup {c}) /\ ending'[c] = "no"
<1>1. \A step : Acquire(i, step, rest, Busy) => Moved(step)
  <2> SUFFICES ASSUME NEW step, Acquire(i, step, rest, Busy) PROVE Moved(step)
    OBVIOUS
  <2>1. PICK c \in IF rest \ Busy # {} THEN rest \ Busy
                   ELSE {d \in Of(i) \ rest : ending[d] = "no"} :
          Goes(i, step, c, rest \cup {c})
    BY DEF Acquire, Goes
  <2>2. c \in Of(i) /\ c \in Conns /\ ending[c] = "no"
    BY <1>0, <2>1, OwnConns DEF AtInv, Busy
  <2> QED BY <1>0, <2>1, <2>2
<1>2. Finish(i, FALSE, rest, Busy) =>
        /\ healthy' = [healthy EXCEPT ![i] = FALSE]
        /\ Moved("release") \/ Goes(i, "done", NULL, rest)
  <2>1. CASE Acquire(i, "release", rest, Busy)
    <3>1. Moved("release")
      BY <1>1, <2>1
    <3> HIDE DEF Moved
    <3> QED BY <3>1 DEF Finish
  <2>2. CASE ~Acquire(i, "release", rest, Busy)
    BY <2>2 DEF Finish, Goes
  <2> QED BY <2>1, <2>2
<1>3. CASE at[i] # k
  <2>1. pool' = [pool EXCEPT ![i] = rest] /\ UNCHANGED <<pc, at, healthy>>
    BY <1>3 DEF ConnectionLost
  <2> QED BY <1>0, <1>3, <2>1
<1>4. CASE at[i] = k
  <2>1. \/ Finish(i, FALSE, rest, Busy)
        \/ Acquire(i, "rollback", rest, Busy) /\ UNCHANGED healthy
        \/ Acquire(i, "lastRollback", rest, Busy) /\ UNCHANGED healthy
        \/ Goes(i, "done", NULL, rest) /\ UNCHANGED healthy /\ pc[i] = "release"
    BY <1>4 DEF ConnectionLost, Goes
  <2>2. \/ healthy' = [healthy EXCEPT ![i] = FALSE] /\ (Moved("release") \/ Goes(i, "done", NULL, rest))
        \/ Moved("rollback") /\ UNCHANGED healthy
        \/ Moved("lastRollback") /\ UNCHANGED healthy
        \/ Goes(i, "done", NULL, rest) /\ UNCHANGED healthy /\ pc[i] = "release"
    BY <1>1, <1>2, <2>1
  <2> QED BY <1>0, <1>4, <2>2
<1> QED BY <1>3, <1>4

LEMMA KilledGoes ==
  ASSUME NEW i \in Instances, Killed(i)
  PROVE  Goes(i, "off", NULL, {})
BY DEF Killed, Goes

\* The step of an instance concerns its own place, connection and pool.
OthersKeep(i) ==
  \A j \in Instances \ {i} : pc'[j] = pc[j] /\ at'[j] = at[j] /\ pool'[j] = pool[j]

LEMMA InstanceSteps ==
  ASSUME TypeOK, AtInv, NEW i \in Instances,
         Step(i) \/ Killed(i) \/ \E k \in Conns : ConnectionLost(i, k)
  PROVE  InstanceType' /\ OthersKeep(i)
<1>0. InstanceType /\ pool[i] \in SUBSET Conns /\ Of(i) \subseteq Conns
  BY TypeParts, OwnConns DEF InstanceType
<1>1. ASSUME NEW step \in Places, NEW k \in Conns \cup {NULL}, NEW conns \in SUBSET Conns,
             Goes(i, step, k, conns)
      PROVE  InstanceType' /\ OthersKeep(i)
  BY <1>0, <1>1, GoesType DEF OthersKeep
<1>2. CASE Step(i)
  <2>1. PICK step \in Places : StepGoes(i, step)
    BY <1>2, StepCourse
  <2>2. CASE Goes(i, "done", NULL, pool[i])
    BY <1>0, <1>1, <2>2 DEF Places
  <2>3. CASE Turns(i, step)
    <3>1. PICK k \in Of(i) : Goes(i, step, k, pool[i] \cup {k})
      BY <2>3 DEF Turns
    <3>2. pool[i] \cup {k} \in SUBSET Conns
      BY <1>0
    <3> QED BY <1>0, <1>1, <3>1, <3>2
  <2> QED BY <2>1, <2>2, <2>3 DEF StepGoes
<1>3. CASE Killed(i)
  BY <1>1, <1>3, KilledGoes DEF Places
<1>4. ASSUME NEW k \in Conns, ConnectionLost(i, k)
      PROVE  InstanceType' /\ OthersKeep(i)
  <2>1. CASE pool' = [pool EXCEPT ![i] = pool[i] \ {k}] /\ UNCHANGED <<pc, at>>
    BY <1>0, <2>1 DEF InstanceType, OthersKeep
  <2>2. ASSUME Goes(i, "done", NULL, pool[i] \ {k})
        PROVE  InstanceType' /\ OthersKeep(i)
    <3>1. pool[i] \ {k} \in SUBSET Conns
      BY <1>0
    <3> QED BY <1>1, <2>2, <3>1 DEF Places
  <2>3. ASSUME NEW step \in {"rollback", "lastRollback", "release", "done"}, NEW c \in Of(i),
               Goes(i, step, c, (pool[i] \ {k}) \cup {c})
        PROVE  InstanceType' /\ OthersKeep(i)
    <3>1. (pool[i] \ {k}) \cup {c} \in SUBSET Conns /\ c \in Conns /\ step \in Places
      BY <1>0 DEF Places
    <3> QED BY <1>1, <2>3, <3>1
  <2> QED BY <1>4, <2>1, <2>2, <2>3, LostCourse DEF Goes
<1> QED BY <1>2, <1>3, <1>4

LEMMA TypeInstanceStep ==
  ASSUME TypeOK, AtInv, TodoInv, NEW i \in Instances,
         Step(i) \/ Killed(i) \/ \E k \in Conns : ConnectionLost(i, k)
  PROVE  TypeOK'
<1>0. InstanceType' /\ InstanceType /\ DatabaseType
  BY InstanceSteps, TypeParts
<1>1. pc[i] \notin {"off", "done"} => at[i] \in Conns
  BY OwnConns DEF AtInv
<1>2. pc[i] \in {"up", "insert"} => Min(todo[i]) \in Files
  BY FirstFile DEF TodoInv, TypeOK
<1> SUFFICES /\ DatabaseType'
             /\ todo' \in [Instances -> SUBSET Files]
             /\ locked' \in [Instances -> BOOLEAN]
             /\ healthy' \in [Instances -> BOOLEAN]
             /\ ending' \in [Conns -> {"no", "commit", "rollback"}]
  BY <1>0 DEF TypeOK, InstanceType, DatabaseType, Places
<1>3. CASE Start(i) \/ Created(i)
  BY <1>0, <1>3 DEF Start, Created, database, DatabaseType, TypeOK
<1>4. CASE GotLock(i)
  BY <1>0, <1>1, <1>4 DEF GotLock, DatabaseType, TypeOK
<1>5. CASE Begun(i)
  BY <1>0, <1>1, <1>5 DEF Begun, DatabaseType, TypeOK
<1>6. CASE TableLocked(i)
  BY <1>0, <1>1, <1>6 DEF TableLocked, DatabaseType, TypeOK
<1>7. CASE ReadCompleted(i)
  BY <1>0, <1>7 DEF ReadCompleted, NextTask, database, DatabaseType, TypeOK
<1>8. CASE Up(i)
  <2> DEFINE m == Min(todo[i])
  <2>1. m \in Files /\ at[i] \in Conns
    BY <1>1, <1>2, <1>8 DEF Up
  <2>2. /\ open' = open \cup {at[i]}
        /\ UNCHANGED <<todo, locked, healthy, names, lock, rows>>
    BY <1>8 DEF Up
  <2>3. ending' \in [Conns -> {"no", "commit", "rollback"}]
    BY <1>8 DEF Up, TypeOK
  <2>4. /\ applied' \in {applied, applied \cup wrote[at[i]] \cup {m}}
        /\ \/ wrote' = [wrote EXCEPT ![at[i]] = {}]
           \/ wrote' = [wrote EXCEPT ![at[i]] = @ \cup {m}]
           \/ wrote' = wrote
    BY <1>8 DEF Up
  <2> HIDE DEF m
  <2>5. applied' \in SUBSET Files /\ wrote' \in [Conns -> SUBSET Files]
    BY <1>0, <2>1, <2>4 DEF DatabaseType
  <2> QED BY <1>0, <2>1, <2>2, <2>3, <2>5 DEF DatabaseType, TypeOK
<1>9. CASE Inserted(i)
  <2> DEFINE m == Min(todo[i])
  <2>1. m \in Files /\ at[i] \in Conns
    BY <1>1, <1>2, <1>9 DEF Inserted
  <2>2. /\ UNCHANGED <<locked, healthy, ending, open, wrote, lock, applied>>
        /\ todo' = [todo EXCEPT ![i] = todo[i] \ {m}]
        /\ \/ names' = [names EXCEPT ![at[i]] = @ \cup {m}] /\ UNCHANGED rows
           \/ rows' = [rows EXCEPT ![m] = @ + 1] /\ UNCHANGED names
    BY <1>9 DEF Inserted, NextTask
  <2> HIDE DEF m
  <2>3. names' \in [Conns -> SUBSET Files] /\ rows' \in [Files -> Nat]
    BY <1>0, <2>1, <2>2 DEF DatabaseType
  <2> QED BY <1>0, <2>2, <2>3 DEF DatabaseType, TypeOK
<1>10. CASE Committed(i) \/ RolledBack(i)
  <2>1. PICK commits \in BOOLEAN : EndTransaction(at[i], commits)
    BY <1>10 DEF Committed, RolledBack
  <2>2. at[i] \in Conns
    BY <1>1, <1>10 DEF Committed, RolledBack
  <2>3. PICK ok \in BOOLEAN : healthy' = [healthy EXCEPT ![i] = ok]
    BY <1>10 DEF Committed, RolledBack, Finish
  <2>4. UNCHANGED <<todo, locked, ending>>
    BY <1>10 DEF Committed, RolledBack
  <2> QED BY <1>0, <2>1, <2>2, <2>3, <2>4, EndTransactionType DEF TypeOK
<1>11. CASE Released(i)
  BY <1>0, <1>11 DEF Released, DatabaseType, TypeOK
<1>12. ASSUME NEW k \in Conns, ConnectionLost(i, k)
       PROVE  TypeOK'
  <2>1. DatabaseType'
    BY <1>0, <1>12, CloseType DEF ConnectionLost
  <2>2. ending' \in [Conns -> {"no", "commit", "rollback"}] /\ UNCHANGED <<todo, locked>>
    BY <1>12 DEF ConnectionLost, TypeOK
  <2>3. healthy' \in [Instances -> BOOLEAN]
    BY <1>12 DEF ConnectionLost, Finish, TypeOK
  <2> QED BY <1>0, <2>1, <2>2, <2>3 DEF TypeOK, InstanceType, DatabaseType, Places
<1>13. CASE Killed(i)
  <2>1. DatabaseType'
    BY <1>0, <1>13, CloseType DEF Killed
  <2> QED BY <1>13, <2>1 DEF Killed, TypeOK
<1> QED BY <1>3, <1>4, <1>5, <1>6, <1>7, <1>8, <1>9, <1>10, <1>11, <1>12, <1>13
        DEF Step, TypeOK, InstanceType, DatabaseType

LEMMA FileTransactionType ==
  ASSUME TypeOK, NEW k \in Conns, FileTransactionEnds(k)
  PROVE  TypeOK'
<1>1. DatabaseType'
  BY TypeParts, EndTransactionType DEF FileTransactionEnds
<1>2. ending' \in [Conns -> {"no", "commit", "rollback"}] /\ UNCHANGED <<instance, pool>>
  BY DEF FileTransactionEnds, TypeOK
<1> QED BY <1>1, <1>2 DEF TypeOK, DatabaseType, instance

LEMMA TypeStep == TypeOK /\ AtInv /\ TodoInv /\ [Next]_vars => TypeOK'
<1> SUFFICES ASSUME TypeOK, AtInv, TodoInv, [Next]_vars PROVE TypeOK'
  OBVIOUS
<1>1. CASE UNCHANGED vars
  BY <1>1 DEF vars, instance, database, TypeOK
<1> QED BY <1>1, TypeInstanceStep, FileTransactionType DEF Next

----------------------------------------------------------------------------
(* The connections.                                                        *)

LEMMA AtStep ==
  ASSUME TypeOK, AtInv, TypeOK', NEW i \in Instances,
         Step(i) \/ Killed(i) \/ \E k \in Conns : ConnectionLost(i, k)
  PROVE  AtInv'
<1>0. InstanceType /\ OthersKeep(i) /\ Of(i) \subseteq Conns /\ pool[i] \subseteq Of(i)
  BY InstanceSteps, OwnConns, TypeParts DEF AtInv
<1> DEFINE Fits(j) ==
      /\ pool'[j] \subseteq Of(j)
      /\ pc'[j] = "off" => pool'[j] = {}
      /\ pc'[j] \notin {"off", "done"} => at'[j] \in pool'[j] /\ ending'[at'[j]] = "no"
      /\ pc'[j] \in {"create", "getLock", "begin", "lockTable", "read"} => pool'[j] = {at'[j]}
\* What the others await is not touched.
<1>1. ASSUME NEW j \in Instances \ {i},
             \A c \in Conns \ Of(i) : ending'[c] \in {ending[c], "no"}
      PROVE  Fits(j)
  <2>1. pc'[j] = pc[j] /\ at'[j] = at[j] /\ pool'[j] = pool[j]
    BY <1>0, <1>1 DEF OthersKeep
  <2>2. pc[j] \notin {"off", "done"} => at[j] \in Conns \ Of(i)
    BY <1>0, <1>1, OwnConns DEF AtInv
  <2> QED BY <1>1, <2>1, <2>2 DEF AtInv
<1> SUFFICES /\ \A c \in Conns \ Of(i) : ending'[c] \in {ending[c], "no"}
             /\ Fits(i)
  BY <1>1 DEF AtInv
<1>2. CASE Step(i)
  <2>1. PICK step \in Places : StepGoes(i, step)
    BY <1>2, StepCourse
  <2>2. \A c \in Conns \ Of(i) : ending'[c] = ending[c]
    BY <1>0, <2>1 DEF StepGoes, AtInv, Edges
  <2>3. CASE step = "done" /\ Goes(i, "done", NULL, pool[i])
    BY <1>0, <2>2, <2>3 DEF Goes, InstanceType
  <2>4. CASE Turns(i, step)
    <3>1. PICK k \in Of(i) : /\ Goes(i, step, k, pool[i] \cup {k})
                             /\ ending'[k] = "no"
                             /\ k \notin pool[i] => \A c \in pool[i] : ending'[c] # "no"
      BY <2>4 DEF Turns
    <3>2. pc'[i] = step /\ at'[i] = k /\ pool'[i] = pool[i] \cup {k}
      BY <1>0, <3>1 DEF Goes, InstanceType
    <3>3. step # "off" /\ (step = "create" => pool[i] = {})
      BY <2>1 DEF StepGoes, Edges, AtInv
    <3>4. step \in {"getLock", "begin", "lockTable", "read"} => pool[i] = {k}
      <4>1. step \in {"getLock", "begin", "lockTable", "read"} =>
              pc[i] \in {"create", "getLock", "begin", "lockTable"}
        BY <2>1 DEF StepGoes, Edges
      <4>2. pc[i] \in {"create", "getLock", "begin", "lockTable"} =>
              pool[i] = {at[i]} /\ ending'[at[i]] = "no"
        BY <1>0, <2>1 DEF StepGoes, AtInv
      <4> QED BY <3>1, <4>1, <4>2
    <3> QED BY <1>0, <2>2, <3>1, <3>2, <3>3, <3>4
  <2> QED BY <2>1, <2>3, <2>4 DEF StepGoes
<1>3. CASE Killed(i)
  BY <1>0, <1>3, KilledGoes DEF Goes, InstanceType, Killed
<1>4. ASSUME NEW k \in Conns, ConnectionLost(i, k)
      PROVE  /\ \A c \in Conns \ Of(i) : ending'[c] \in {ending[c], "no"}
             /\ Fits(i)
  <2>1. \A c \in Conns : ending'[c] \in {ending[c], "no"}
    BY <1>4, LostCourse DEF Goes
  <2>2. k \in pool[i]
    BY <1>4 DEF ConnectionLost
  <2>3. ASSUME at[i] # k, pool' = [pool EXCEPT ![i] = pool[i] \ {k}], UNCHANGED <<pc, at>>
        PROVE  Fits(i)
    <3>1. pool'[i] = pool[i] \ {k} /\ pc'[i] = pc[i] /\ at'[i] = at[i]
      BY <1>0, <2>3 DEF InstanceType
    <3>2. pc[i] \notin {"off", "create", "getLock", "begin", "lockTable", "read"}
      BY <2>2, <2>3 DEF AtInv
    <3> QED BY <1>0, <2>1, <2>3, <3>1, <3>2 DEF AtInv
  <2>4. ASSUME Goes(i, "done", NULL, pool[i] \ {k})
        PROVE  Fits(i)
    BY <1>0, <2>4 DEF Goes, InstanceType
  <2>5. ASSUME NEW step \in {"rollback", "lastRollback", "release", "done"}, NEW c \in Of(i),
               Goes(i, step, c, (pool[i] \ {k}) \cup {c}), ending'[c] = "no"
        PROVE  Fits(i)
    BY <1>0, <2>5 DEF Goes, InstanceType
  <2> QED BY <1>4, <2>1, <2>3, <2>4, <2>5, LostCourse DEF Goes
<1> QED BY <1>2, <1>3, <1>4

LEMMA AtFileTransaction ==
  ASSUME TypeOK, AtInv, NEW k \in Conns, FileTransactionEnds(k)
  PROVE  AtInv'
<1>1. UNCHANGED <<pc, at, pool>> /\ \A c \in Conns : ending'[c] \in {ending[c], "no"}
  BY DEF FileTransactionEnds, instance, TypeOK
<1>2. \A i \in Instances : pc[i] \notin {"off", "done"} => at[i] \in Conns
  BY OwnConns DEF AtInv
<1> QED BY <1>1, <1>2 DEF AtInv

----------------------------------------------------------------------------
(* Transactions.  The BEGIN of migrateUp() opens one on the only connection *)
(* there is, and the first file, which runs on that connection too, ends    *)
(* it: from then on no query of the instance is inside a transaction.       *)

LEMMA Awaits ==
  ASSUME MigrationsInv, NEW i \in Instances, pc[i] \notin {"off", "done"}
  PROVE  at[i] \in pool[i] /\ at[i] \in Of(i) /\ at[i] \in Conns /\ ending[at[i]] = "no"
BY OwnConns DEF MigrationsInv, AtInv

LEMMA AtFree ==
  ASSUME MigrationsInv, NEW i \in Instances,
         pc[i] \in {"insert", "rollback", "lastRollback", "release"}
  PROVE  ~Claims(at[i]) /\ at[i] \notin open
<1>1. at[i] \in Of(i) /\ at[i] \in Conns /\ ending[at[i]] = "no"
  BY Awaits
<1>2. SUFFICES ASSUME NEW j \in Instances, Alone(j, at[i]) PROVE FALSE
  BY <1>1 DEF MigrationsInv, OwnInv, Claims
<1>3. at[i] \in Of(j)
  BY <1>2 DEF Alone, MigrationsInv, AtInv
<1>4. i = j
  BY <1>1, <1>3, OwnConns
<1> QED BY <1>2, <1>4 DEF Alone

LEMMA UpWrites ==
  ASSUME MigrationsInv, NEW i \in Instances, Up(i)
  PROVE  /\ names' = names
         /\ \A c \in Conns \ {at[i]} : wrote'[c] = wrote[c] /\ ending'[c] = ending[c]
         /\ wrote'[at[i]] # {} => ending'[at[i]] = "commit"
<1>1. at[i] \in Conns /\ ending[at[i]] = "no" /\ wrote[at[i]] = {}
  BY Awaits DEF Up, MigrationsInv, WroteInv
<1>2. wrote \in [Conns -> SUBSET Files] /\ ending \in [Conns -> {"no", "commit", "rollback"}]
  BY DEF MigrationsInv, TypeOK
<1>3. \A c \in Conns \ {at[i]} : wrote'[c] = wrote[c] /\ ending'[c] = ending[c]
  BY <1>1, <1>2 DEF Up
<1>4. wrote'[at[i]] # {} => ending'[at[i]] = "commit"
  BY <1>1, <1>2 DEF Up
<1> QED BY <1>3, <1>4 DEF Up

LEMMA WroteInstance ==
  ASSUME MigrationsInv, NEW i \in Instances,
         Step(i) \/ Killed(i) \/ \E k \in Conns : ConnectionLost(i, k)
  PROVE  WroteInv'
<1>0. /\ TypeOK /\ wrote \in [Conns -> SUBSET Files] /\ names \in [Conns -> SUBSET Files]
      /\ ending \in [Conns -> {"no", "commit", "rollback"}]
      /\ \A k \in Conns : (wrote[k] # {} => ending[k] = "commit") /\ names[k] = {}
  BY DEF MigrationsInv, TypeOK, WroteInv
<1>1. CASE Start(i) \/ Created(i) \/ GotLock(i) \/ Begun(i) \/ TableLocked(i) \/ ReadCompleted(i) \/ Released(i)
  <2>1. UNCHANGED <<wrote, names, ending>>
    BY <1>1 DEF Start, Created, GotLock, Begun, TableLocked, ReadCompleted, Released, database
  <2> QED BY <1>0, <2>1 DEF WroteInv
<1>2. CASE Up(i)
  BY <1>0, <1>2, UpWrites DEF WroteInv
<1>3. CASE Inserted(i)
  <2>1. UNCHANGED <<wrote, names, ending>>
    BY <1>3, AtFree DEF Inserted
  <2> QED BY <1>0, <2>1 DEF WroteInv
<1>4. CASE Committed(i) \/ RolledBack(i)
  <2>1. ending' = ending /\ \E commits \in BOOLEAN : EndTransaction(at[i], commits)
    BY <1>4 DEF Committed, RolledBack
  <2>2. wrote' = [wrote EXCEPT ![at[i]] = {}] /\ names' = [names EXCEPT ![at[i]] = {}]
    BY <2>1 DEF EndTransaction
  <2> QED BY <1>0, <2>1, <2>2 DEF WroteInv
<1>5. CASE Killed(i)
  <2>1. ending' = ending /\ Close({k \in pool[i] : ending[k] = "no"})
    BY <1>5 DEF Killed
  <2> QED BY <1>0, <2>1 DEF Close, WroteInv
<1>6. ASSUME NEW k \in Conns, ConnectionLost(i, k)
      PROVE  WroteInv'
  <2>1. Close({k}) /\ ending' = [ending EXCEPT ![k] = "no"]
    BY <1>6 DEF ConnectionLost
  <2> QED BY <1>0, <2>1 DEF Close, WroteInv
<1> QED BY <1>1, <1>2, <1>3, <1>4, <1>5, <1>6 DEF Step

LEMMA WroteFileTransaction ==
  ASSUME MigrationsInv, NEW k \in Conns, FileTransactionEnds(k)
  PROVE  WroteInv'
<1>1. /\ wrote' = [wrote EXCEPT ![k] = {}] /\ names' = [names EXCEPT ![k] = {}]
      /\ ending' = [ending EXCEPT ![k] = "no"]
  BY DEF FileTransactionEnds, EndTransaction
<1> QED BY <1>1 DEF MigrationsInv, TypeOK, WroteInv

\* A step of i gives a connection to nobody else, and takes none away.
LEMMA OwnStep ==
  ASSUME MigrationsInv, NEW i \in Instances, OthersKeep(i),
         \A k \in Conns : Claims(k)' => Alone(i, k)' \/ (Claims(k) /\ ~Alone(i, k))
  PROVE  OwnInv'
<1> SUFFICES ASSUME NEW k \in Conns, Claims(k)' PROVE \E j \in Instances : Alone(j, k)'
  BY DEF OwnInv
<1>1. CASE Alone(i, k)'
  BY <1>1
<1>2. CASE Claims(k) /\ ~Alone(i, k)
  <2>1. PICK j \in Instances : Alone(j, k)
    BY <1>2 DEF MigrationsInv, OwnInv
  <2>2. Alone(j, k)'
    BY <1>2, <2>1 DEF OthersKeep, Alone
  <2> QED BY <2>2
<1> QED BY <1>1, <1>2

LEMMA OwnInstance ==
  ASSUME MigrationsInv, NEW i \in Instances,
         Step(i) \/ Killed(i) \/ \E k \in Conns : ConnectionLost(i, k)
  PROVE  OwnInv'
<1>0. TypeOK /\ AtInv /\ InstanceType /\ OthersKeep(i)
  BY InstanceSteps, TypeParts DEF MigrationsInv
<1> SUFFICES ASSUME NEW k \in Conns, Claims(k)'
             PROVE  Alone(i, k)' \/ (Claims(k) /\ ~Alone(i, k))
  BY <1>0, OwnStep
<1>a. ending \in [Conns -> {"no", "commit", "rollback"}]
  BY <1>0 DEF TypeOK
\* While its only connection is free, an instance stays on it.
<1>1. ASSUME pool[i] = {k}, at[i] = k, Step(i),
             pc[i] \in {"getLock", "begin", "lockTable", "read"}
      PROVE  Alone(i, k)'
  <2>1. PICK step \in Places : StepGoes(i, step)
    BY <1>0, <1>1, StepCourse
  <2>2. step \in {"begin", "lockTable", "read", "up", "commit"} /\ ending'[k] = "no"
    BY <1>0, <1>1, <2>1 DEF StepGoes, Edges, AtInv
  <2>3. PICK c \in Of(i) : Goes(i, step, c, pool[i] \cup {c}) /\ (c \notin pool[i] => ending'[k] # "no")
    BY <1>1, <2>1, <2>2 DEF StepGoes, Turns
  <2>4. c = k
    BY <1>1, <2>2, <2>3
  <2> QED BY <1>0, <1>1, <2>2, <2>3, <2>4 DEF Goes, InstanceType, Alone
<1>2. CASE Start(i) \/ Created(i)
  <2>1. Claims(k)
    BY <1>2 DEF Start, Created, Claims, database
  <2> QED BY <1>2, <2>1 DEF Start, Created, Alone
<1>3. CASE GotLock(i) \/ Begun(i) \/ TableLocked(i) \/ ReadCompleted(i)
  <2>1. pool[i] = {at[i]} /\ pc[i] \in {"getLock", "begin", "lockTable", "read"} /\ ending' = ending
    BY <1>0, <1>3 DEF GotLock, Begun, TableLocked, ReadCompleted, AtInv
  <2>2. k # at[i] => Claims(k)
    BY <1>3, <2>1 DEF GotLock, Begun, TableLocked, ReadCompleted, Claims, database
  <2> QED BY <1>1, <1>3, <2>1, <2>2 DEF Step, Alone
<1>4. CASE Up(i)
  <2>1. k # at[i] /\ ending'[k] = ending[k]
    BY <1>0, <1>4, UpTurns DEF Claims
  <2>2. Claims(k)
    BY <1>4, <2>1 DEF Up, Claims
  <2> QED BY <2>1, <2>2 DEF Alone
<1>5. CASE Inserted(i)
  <2>1. Claims(k)
    BY <1>5 DEF Inserted, Claims
  <2> QED BY <1>5, <2>1 DEF Inserted, Alone
<1>6. CASE Committed(i) \/ RolledBack(i)
  <2>1. ending' = ending /\ \E commits \in BOOLEAN : EndTransaction(at[i], commits)
    BY <1>6 DEF Committed, RolledBack
  <2>2. k # at[i] /\ Claims(k)
    BY <2>1, NullAssumption DEF EndTransaction, Claims
  <2> QED BY <2>2 DEF Alone
<1>7. CASE Released(i)
  <2>1. Claims(k)
    BY <1>7, NullAssumption DEF Released, Claims
  <2> QED BY <1>7, <2>1 DEF Released, Alone
<1>8. CASE Killed(i)
  <2>1. k \notin {c \in pool[i] : ending[c] = "no"} /\ Claims(k)
    BY <1>8, NullAssumption DEF Killed, Close, Claims
  <2> QED BY <2>1 DEF Alone, Claims
<1>9. ASSUME NEW c \in Conns, ConnectionLost(i, c)
      PROVE  Claims(k) /\ ~Alone(i, k)
  <2>1. c \in pool[i] /\ Close({c}) /\ ending' = [ending EXCEPT ![c] = "no"]
    BY <1>9 DEF ConnectionLost
  <2>2. k # c /\ Claims(k)
    BY <1>a, <2>1, NullAssumption DEF Close, Claims
  <2> QED BY <2>1, <2>2 DEF Alone
<1> QED BY <1>2, <1>3, <1>4, <1>5, <1>6, <1>7, <1>8, <1>9 DEF Step

LEMMA OwnFileTransaction ==
  ASSUME MigrationsInv, NEW k \in Conns, FileTransactionEnds(k)
  PROVE  OwnInv'
<1>1. /\ UNCHANGED <<pc, at, pool>> /\ ending' = [ending EXCEPT ![k] = "no"]
      /\ open' = open \ {k} /\ lock' = IF Postgres /\ lock = k THEN NULL ELSE lock
  BY DEF FileTransactionEnds, EndTransaction, instance
<1>2. ASSUME NEW c \in Conns, Claims(c)' PROVE Claims(c)
  BY <1>1, <1>2, NullAssumption DEF Claims, MigrationsInv, TypeOK
<1> QED BY <1>1, <1>2 DEF MigrationsInv, OwnInv, Alone

----------------------------------------------------------------------------
(* The files still to apply, and what a success means.                     *)

LEMMA EndKeepsRows ==
  ASSUME MigrationsInv, NEW k \in Conns, NEW commits, EndTransaction(k, commits)
  PROVE  rows' = rows
BY DEF EndTransaction, MigrationsInv, WroteInv, TypeOK

\* Only insertMigrationSql() changes the table, and its row is committed at once.
LEMMA RowsInstance ==
  ASSUME MigrationsInv, NEW i \in Instances,
         Step(i) \/ Killed(i) \/ \E k \in Conns : ConnectionLost(i, k)
  PROVE  rows' = rows \/ (Inserted(i) /\ rows' = [rows EXCEPT ![Min(todo[i])] = @ + 1])
<1>1. CASE Inserted(i)
  BY <1>1, AtFree DEF Inserted
<1>2. CASE Committed(i) \/ RolledBack(i)
  BY <1>2, Awaits, EndKeepsRows DEF Committed, RolledBack
<1>3. CASE ~Inserted(i) /\ ~Committed(i) /\ ~RolledBack(i)
  BY <1>3 DEF Step, Start, Created, GotLock, Begun, TableLocked, ReadCompleted, Up, Released,
              Killed, ConnectionLost, Close, database
<1> QED BY <1>1, <1>2, <1>3

LEMMA RowsGrow ==
  ASSUME MigrationsInv, NEW i \in Instances,
         Step(i) \/ Killed(i) \/ \E k \in Conns : ConnectionLost(i, k), NEW m \in Files, rows[m] > 0
  PROVE  rows'[m] > 0
<1>1. CASE rows' = rows
  BY <1>1
<1>2. CASE Inserted(i) /\ rows' = [rows EXCEPT ![Min(todo[i])] = @ + 1]
  BY <1>2 DEF MigrationsInv, TypeOK
<1> QED BY <1>1, <1>2, RowsInstance

LEMMA NextTaskGoes ==
  ASSUME TypeOK, NEW i \in Instances, NEW rest, NextTask(i, rest)
  PROVE  todo'[i] = rest /\ pc'[i] = IF rest = {} THEN "commit" ELSE "up"
BY DEF NextTask, Query, Acquire, TypeOK

LEMMA TodoInstance ==
  ASSUME MigrationsInv, NEW i \in Instances,
         Step(i) \/ Killed(i) \/ \E k \in Conns : ConnectionLost(i, k)
  PROVE  TodoInv'
<1>0. /\ TypeOK /\ AtInv /\ InstanceType /\ OthersKeep(i) /\ rows \in [Files -> Nat]
      /\ todo \in [Instances -> SUBSET Files]
  BY InstanceSteps, TypeParts DEF MigrationsInv, TypeOK
<1> DEFINE Fits(j) ==
      /\ pc'[j] \in {"up", "insert"} => todo'[j] # {}
      /\ pc'[j] = "commit" => todo'[j] = {}
      /\ pc'[j] \in {"up", "insert", "commit"} => \A m \in Files \ todo'[j] : rows'[m] > 0
<1>1. ASSUME NEW j \in Instances \ {i}
      PROVE  Fits(j)
  <2>1. todo'[j] = todo[j]
    BY <1>0 DEF Step, Start, Created, GotLock, Begun, TableLocked, ReadCompleted, NextTask, Up,
                Inserted, Committed, RolledBack, Released, Killed, ConnectionLost
  <2>2. pc'[j] = pc[j] /\ \A m \in Files : rows[m] > 0 => rows'[m] > 0
    BY <1>0, RowsGrow DEF OthersKeep
  <2> QED BY <2>1, <2>2 DEF MigrationsInv, TodoInv
<1> SUFFICES Fits(i)
  BY <1>1 DEF TodoInv
<1>2. CASE ReadCompleted(i)
  <2> DEFINE rest == {m \in Files : rows[m] = 0 /\ m \notin names[at[i]]}
  <2>1. NextTask(i, rest) /\ rows' = rows
    BY <1>2 DEF ReadCompleted, database
  <2>2. \A m \in Files \ rest : rows[m] > 0
    BY <1>0, <1>2, Awaits DEF ReadCompleted, MigrationsInv, WroteInv
  <2> HIDE DEF rest
  <2>3. todo'[i] = rest /\ pc'[i] = IF rest = {} THEN "commit" ELSE "up"
    BY <1>0, <2>1, NextTaskGoes
  <2> QED BY <2>1, <2>2, <2>3
<1>3. CASE Inserted(i)
  <2> DEFINE m == Min(todo[i])
  <2>1. m \in Files
    BY <1>0, <1>3, FirstFile DEF Inserted, MigrationsInv, TodoInv
  <2>2. NextTask(i, todo[i] \ {m}) /\ rows' = [rows EXCEPT ![m] = @ + 1]
    BY <1>3, AtFree DEF Inserted
  <2>3. \A n \in Files \ todo[i] : rows[n] > 0
    BY <1>3 DEF Inserted, MigrationsInv, TodoInv
  <2> HIDE DEF m
  <2>4. \A n \in Files \ (todo[i] \ {m}) : rows'[n] > 0
    BY <1>0, <2>1, <2>2, <2>3
  <2>5. todo'[i] = todo[i] \ {m} /\ pc'[i] = IF todo[i] \ {m} = {} THEN "commit" ELSE "up"
    BY <1>0, <2>2, NextTaskGoes
  <2> QED BY <2>4, <2>5
<1>4. CASE Up(i)
  <2>1. todo' = todo /\ rows' = rows /\ pc[i] = "up"
    BY <1>4 DEF Up
  <2>2. pc'[i] # "commit"
    BY <1>0, <1>4, UpTurns DEF Turns, Goes, InstanceType
  <2> QED BY <2>1, <2>2 DEF MigrationsInv, TodoInv
<1>5. CASE Step(i) /\ ~ReadCompleted(i) /\ ~Inserted(i) /\ ~Up(i)
  <2>1. pc[i] \notin {"read", "insert", "up"}
    BY <1>5 DEF Step, Start, Created, GotLock, Begun, TableLocked, Committed, RolledBack, Released
  <2>2. PICK step \in Places : StepGoes(i, step)
    BY <1>0, <1>5, StepCourse
  <2>3. pc'[i] = step
    BY <1>0, <2>2 DEF StepGoes, Turns, Goes, InstanceType
  <2>4. step \notin {"up", "insert", "commit"}
    BY <2>1, <2>2 DEF StepGoes, Edges
  <2> QED BY <2>3, <2>4
<1>6. CASE Killed(i)
  <2>1. pc'[i] = "off"
    BY <1>0, <1>6 DEF Killed, InstanceType
  <2> QED BY <2>1
<1>7. ASSUME NEW k \in Conns, ConnectionLost(i, k)
      PROVE  Fits(i)
  <2>1. todo' = todo /\ rows' = rows
    BY <1>7 DEF ConnectionLost, Close
  <2>2. pc'[i] = pc[i] \/ pc'[i] \in {"rollback", "lastRollback", "release", "done"}
    BY <1>0, <1>7 DEF ConnectionLost, Finish, Acquire, InstanceType
  <2> QED BY <2>1, <2>2 DEF MigrationsInv, TodoInv
<1> QED BY <1>2, <1>3, <1>4, <1>5, <1>6, <1>7

LEMMA TodoFileTransaction ==
  ASSUME MigrationsInv, NEW k \in Conns, FileTransactionEnds(k)
  PROVE  TodoInv'
<1>1. rows' = rows
  BY EndKeepsRows DEF FileTransactionEnds
<1> QED BY <1>1 DEF FileTransactionEnds, instance, MigrationsInv, TodoInv

LEMMA MigrationsStep == MigrationsInv /\ [Next]_vars => MigrationsInv'
<1> SUFFICES ASSUME MigrationsInv, [Next]_vars PROVE MigrationsInv'
  OBVIOUS
<1>1. TypeOK /\ AtInv /\ TodoInv /\ TypeOK'
  BY TypeStep DEF MigrationsInv
<1>2. ASSUME NEW i \in Instances,
             Step(i) \/ Killed(i) \/ \E k \in Conns : ConnectionLost(i, k)
      PROVE  MigrationsInv'
  BY <1>1, <1>2, AtStep, TodoInstance, OwnInstance, WroteInstance DEF MigrationsInv
<1>3. ASSUME NEW k \in Conns, FileTransactionEnds(k)
      PROVE  MigrationsInv'
  BY <1>1, <1>3, AtFileTransaction, TodoFileTransaction, OwnFileTransaction, WroteFileTransaction
     DEF MigrationsInv
<1>4. CASE UNCHANGED vars
  <2>1. UNCHANGED <<pc, at, todo, pool, ending, open, wrote, names, lock, rows>>
    BY <1>4 DEF vars, instance, database
  <2>2. AtInv' /\ TodoInv'
    BY <2>1 DEF MigrationsInv, AtInv, TodoInv
  <2>3. OwnInv' /\ WroteInv'
    BY <2>1 DEF MigrationsInv, OwnInv, Claims, Alone, WroteInv
  <2> QED BY <1>1, <2>2, <2>3 DEF MigrationsInv
<1> QED BY <1>2, <1>3, <1>4 DEF Next

LEMMA Inductive == Spec => []MigrationsInv
BY InitInv, MigrationsStep, PTL DEF Spec

\* Every variable keeps its type: in particular every instance has a file to apply
\* when it runs up() or insertMigrationSql(), and every awaited query a connection.
THEOREM TypeCorrect == Spec => []TypeOK
<1>1. MigrationsInv => TypeOK
  BY DEF MigrationsInv
<1> QED BY <1>1, Inductive, PTL

\* No name is ever inserted inside a transaction: the BEGIN ... COMMIT of
\* migrateUp() encloses none of its inserts, because the first file's commit() or
\* rollback(), which is not awaited, takes the connection it was opened on.
THEOREM InsertsAutocommit == Spec => [](\A k \in Conns : names[k] = {})
<1>1. MigrationsInv => \A k \in Conns : names[k] = {}
  BY DEF MigrationsInv, WroteInv
<1> QED BY <1>1, Inductive, PTL

LEMMA SuccessInstance ==
  ASSUME MigrationsInv, SuccessMeansRecorded, NEW i \in Instances,
         Step(i) \/ Killed(i) \/ \E k \in Conns : ConnectionLost(i, k)
  PROVE  SuccessMeansRecorded'
<1>0. TypeOK /\ AtInv /\ InstanceType /\ OthersKeep(i) /\ healthy \in [Instances -> BOOLEAN]
  BY InstanceSteps, TypeParts DEF MigrationsInv
<1> DEFINE Success(j) == pc[j] \in {"done", "release"} /\ healthy[j]
<1>1. ASSUME NEW j \in Instances \ {i}
      PROVE  Success(j)' => Success(j)
  <2>1. healthy'[j] = healthy[j]
    BY <1>0 DEF Step, Start, Created, GotLock, Begun, TableLocked, ReadCompleted, NextTask, Up,
                Inserted, Committed, RolledBack, Released, Killed, ConnectionLost, Finish
  <2> QED BY <1>0, <2>1 DEF OthersKeep
<1>2. Success(i)' => Success(i) \/ Committed(i)
  <2>1. CASE Step(i) /\ ~Committed(i) /\ ~RolledBack(i)
    <3>1. UNCHANGED healthy /\ pc[i] \notin {"commit", "rollback", "lastRollback"}
      BY <2>1 DEF Step, Start, Created, GotLock, Begun, TableLocked, ReadCompleted, Up,
                  Inserted, Released
    <3>2. PICK step \in Places : StepGoes(i, step)
      BY <1>0, <2>1, StepCourse
    <3>3. pc'[i] = step
      BY <1>0, <3>2 DEF StepGoes, Turns, Goes, InstanceType
    <3>4. step \in {"release", "done"} => pc[i] = "release"
      BY <3>1, <3>2 DEF StepGoes, Edges
    <3> QED BY <3>1, <3>3, <3>4
  <2>2. CASE RolledBack(i)
    BY <1>0, <2>2 DEF RolledBack, Finish
  <2>3. CASE Killed(i)
    BY <1>0, <2>3 DEF Killed, InstanceType
  <2>4. ASSUME NEW k \in Conns, ConnectionLost(i, k)
        PROVE  Success(i)' => Success(i)
    BY <1>0, <2>4 DEF ConnectionLost, Finish, Acquire, InstanceType
  <2> QED BY <2>1, <2>2, <2>3, <2>4
<1>3. Committed(i) => \A m \in Files : rows[m] > 0
  BY DEF Committed, MigrationsInv, TodoInv
<1>4. \A j \in Instances : Success(j)' => \A m \in Files : rows[m] > 0
  BY <1>1, <1>2, <1>3 DEF SuccessMeansRecorded
<1> QED BY <1>4, RowsGrow DEF SuccessMeansRecorded

LEMMA SuccessStep ==
  MigrationsInv /\ SuccessMeansRecorded /\ [Next]_vars => SuccessMeansRecorded'
<1> SUFFICES ASSUME MigrationsInv, SuccessMeansRecorded, [Next]_vars PROVE SuccessMeansRecorded'
  OBVIOUS
<1>1. ASSUME NEW k \in Conns, FileTransactionEnds(k)
      PROVE  SuccessMeansRecorded'
  <2>1. rows' = rows
    BY <1>1, EndKeepsRows DEF FileTransactionEnds
  <2> QED BY <1>1, <2>1 DEF FileTransactionEnds, instance, SuccessMeansRecorded
<1>2. CASE UNCHANGED vars
  BY <1>2 DEF vars, instance, database, SuccessMeansRecorded
<1> QED BY <1>1, <1>2, SuccessInstance DEF Next

\* An instance that has marked its migrations as successful finds every file
\* recorded, whichever connections its queries got and whatever was lost or killed.
THEOREM SuccessIsRecorded == Spec => []SuccessMeansRecorded
<1>1. Init => SuccessMeansRecorded
  BY DEF Init, SuccessMeansRecorded
<1> QED BY <1>1, SuccessStep, InitInv, MigrationsStep, PTL DEF Spec

\* On PostgreSQL an instance whose start is over keeps neither the table lock nor a
\* transaction, except one whose end is under way.  On MySQL RELEASE_LOCK may be
\* executed by another connection than GET_LOCK, and the lock stays.
THEOREM NothingIsLeft ==
  ASSUME Postgres
  PROVE  Spec => []NothingLeft
<1>1. MigrationsInv => NothingLeft
  <2> SUFFICES ASSUME MigrationsInv, NEW i \in Instances, pc[i] = "done", NEW k \in pool[i],
                      k \in open \cup {lock}, ending[k] = "no"
               PROVE  FALSE
    BY DEF NothingLeft
  <2>1. k \in Of(i) /\ k \in Conns
    BY OwnConns DEF MigrationsInv, AtInv
  <2>2. PICK j \in Instances : Alone(j, k)
    BY <2>1 DEF Claims, MigrationsInv, OwnInv
  <2>3. k \in Of(j)
    BY <2>2 DEF Alone, MigrationsInv, AtInv
  <2>4. i = j
    BY <2>1, <2>3, OwnConns
  <2> QED BY <2>2, <2>4 DEF Alone
<1> QED BY <1>1, Inductive, PTL

----------------------------------------------------------------------------
(* A file is recorded once.  Without lost connections the transaction of a  *)
(* file whose commit() was sent is committed, and where MySQL commits every *)
(* change of the schema at once there is nothing to lose.  Then a file that *)
(* has been applied stays so, up() fails for everybody else, and only the   *)
(* instance that has applied it inserts its name.                           *)

Lossless == ~Breaks \/ (~Postgres /\ Ddl = Files)

Taken(m) == m \in applied \/ \E k \in Conns : m \in wrote[k]
Recording(i, m) == pc[i] = "insert" /\ m = Min(todo[i])

OnceInv ==
  /\ ~Postgres /\ Ddl = Files => \A k \in Conns : wrote[k] = {}
  /\ RecordedOnce
  /\ \A m \in Files : rows[m] > 0 => Taken(m)
  /\ \A i \in Instances, m \in Files : Recording(i, m) =>
        /\ rows[m] = 0 /\ Taken(m)
        /\ \A j \in Instances : Recording(j, m) => i = j

\* What ends no file's transaction, or commits it, loses nothing.
LEMMA EndKeepsTaken ==
  ASSUME MigrationsInv, NEW k \in Conns, EndTransaction(k, ending[k] = "commit")
  PROVE  /\ \A m \in Files : Taken(m) => Taken(m)'
         /\ \A c \in Conns : wrote'[c] \in {wrote[c], {}}
<1>1. wrote[k] # {} => applied' = applied \cup wrote[k]
  BY DEF EndTransaction, MigrationsInv, WroteInv
<1>2. applied \subseteq applied' /\ wrote[k] \subseteq applied'
  BY <1>1 DEF EndTransaction
<1>3. \A c \in Conns : wrote'[c] = IF c = k THEN {} ELSE wrote[c]
  BY DEF EndTransaction, MigrationsInv, TypeOK
<1> QED BY <1>2, <1>3 DEF Taken

LEMMA TakenInstance ==
  ASSUME MigrationsInv, OnceInv, Lossless, NEW i \in Instances,
         Step(i) \/ Killed(i) \/ \E k \in Conns : ConnectionLost(i, k)
  PROVE  /\ \A m \in Files : Taken(m) => Taken(m)'
         /\ ~Postgres /\ Ddl = Files => \A k \in Conns : wrote'[k] = {}
<1>0. /\ wrote \in [Conns -> SUBSET Files] /\ TypeOK
      /\ \A k \in Conns : wrote[k] # {} => ending[k] = "commit"
      /\ ~Postgres /\ Ddl = Files => \A k \in Conns : wrote[k] = {}
  BY DEF MigrationsInv, TypeOK, WroteInv, OnceInv
<1>1. ASSUME applied \subseteq applied', \A k \in Conns : wrote'[k] \in {wrote[k], {}},
             \A k \in Conns : wrote[k] \subseteq wrote'[k]
      PROVE  /\ \A m \in Files : Taken(m) => Taken(m)'
             /\ ~Postgres /\ Ddl = Files => \A k \in Conns : wrote'[k] = {}
  BY <1>0, <1>1 DEF Taken
<1>2. CASE Up(i)
  <2> DEFINE m == Min(todo[i])
  <2>1. m \in Files /\ at[i] \in Conns /\ wrote[at[i]] = {}
    BY <1>0, <1>2, FirstFile, Awaits DEF Up, MigrationsInv, TodoInv, TypeOK
  <2>2. /\ applied \subseteq applied'
        /\ \/ wrote' = [wrote EXCEPT ![at[i]] = {}]
           \/ wrote' = [wrote EXCEPT ![at[i]] = @ \cup {m}] /\ (Postgres \/ m \notin Ddl)
           \/ wrote' = wrote
    BY <1>2 DEF Up
  <2> HIDE DEF m
  <2>3. \A k \in Conns : wrote[k] \subseteq wrote'[k]
    BY <1>0, <2>1, <2>2
  <2>4. ~Postgres /\ Ddl = Files => \A k \in Conns : wrote'[k] = {}
    BY <1>0, <2>1, <2>2
  <2> QED BY <2>2, <2>3, <2>4 DEF Taken
<1>3. CASE Committed(i) \/ RolledBack(i)
  <2>1. at[i] \in Conns /\ wrote[at[i]] = {}
    BY <1>0, <1>3, Awaits DEF Committed, RolledBack
  <2>2. PICK commits \in BOOLEAN : EndTransaction(at[i], commits)
    BY <1>3 DEF Committed, RolledBack
  <2>3. applied' = applied /\ \A k \in Conns : wrote'[k] = wrote[k]
    BY <1>0, <2>1, <2>2 DEF EndTransaction
  <2> QED BY <1>1, <2>3
<1>4. CASE Killed(i)
  <2>1. applied' = applied /\ \A k \in Conns : wrote'[k] = wrote[k]
    BY <1>0, <1>4 DEF Killed, Close
  <2> QED BY <1>1, <2>1
<1>5. ASSUME NEW k \in Conns, ConnectionLost(i, k)
      PROVE  applied' = applied /\ \A c \in Conns : wrote'[c] = wrote[c]
  BY <1>0, <1>5 DEF Lossless, ConnectionLost, Close
<1>6. CASE Step(i) /\ ~Up(i) /\ ~Committed(i) /\ ~RolledBack(i)
  <2>1. UNCHANGED <<applied, wrote>>
    BY <1>6 DEF Step, Start, Created, GotLock, Begun, TableLocked, ReadCompleted, Inserted,
                Released, database
  <2> QED BY <1>1, <2>1
<1> QED BY <1>1, <1>2, <1>3, <1>4, <1>5, <1>6

\* An instance begins to record a file by applying it, which nobody had done before.
LEMMA UpTakes ==
  ASSUME MigrationsInv, NEW i \in Instances, Up(i), pc'[i] = "insert"
  PROVE  /\ todo' = todo /\ rows' = rows
         /\ \E m \in Files : m = Min(todo[i]) /\ ~Taken(m) /\ Taken(m)'
<1>0. at[i] \in Conns /\ wrote \in [Conns -> SUBSET Files] /\ InstanceType
  BY Awaits, TypeParts DEF Up, MigrationsInv, TypeOK
<1>1. PICK m \in Files : m = Min(todo[i])
  BY FirstFile DEF Up, MigrationsInv, TodoInv, TypeOK
<1> DEFINE succeeds == m \notin applied \cup wrote[at[i]]
                       /\ (1 .. m - 1) \cap Files \subseteq applied \cup wrote[at[i]]
<1>2. succeeds
  <2>1. Acquire(i, QueryAfterUp(succeeds), pool[i], Busy \cup {at[i]})
    BY <1>1 DEF Up
  <2>2. pc'[i] = QueryAfterUp(succeeds)
    BY <1>0, <2>1 DEF Acquire, InstanceType
  <2> HIDE DEF succeeds
  <2> QED BY <2>2 DEF QueryAfterUp
<1>3. ~Taken(m)
  BY <1>0, <1>1, <1>2 DEF Up, Taken
<1>4. m \in applied' \/ wrote' = [wrote EXCEPT ![at[i]] = @ \cup {m}]
  BY <1>1, <1>2 DEF Up
<1>5. m \in applied' \/ m \in wrote'[at[i]]
  BY <1>0, <1>4
<1>6. Taken(m)'
  BY <1>0, <1>5 DEF Taken
<1>7. todo' = todo /\ rows' = rows
  BY DEF Up
<1> QED BY <1>1, <1>3, <1>6, <1>7

LEMMA OnceInstance ==
  ASSUME MigrationsInv, OnceInv, Lossless, NEW i \in Instances,
         Step(i) \/ Killed(i) \/ \E k \in Conns : ConnectionLost(i, k)
  PROVE  OnceInv'
<1>0. /\ TypeOK /\ AtInv /\ InstanceType /\ OthersKeep(i) /\ rows \in [Files -> Nat]
      /\ todo \in [Instances -> SUBSET Files]
  BY InstanceSteps, TypeParts DEF MigrationsInv, TypeOK
<1>1. /\ \A m \in Files : Taken(m) => Taken(m)'
      /\ ~Postgres /\ Ddl = Files => \A k \in Conns : wrote'[k] = {}
  BY TakenInstance
<1>2. ASSUME NEW j \in Instances \ {i}, NEW m
      PROVE  Recording(j, m)' <=> Recording(j, m)
  <2>1. todo'[j] = todo[j]
    BY <1>0 DEF Step, Start, Created, GotLock, Begun, TableLocked, ReadCompleted, NextTask, Up,
                Inserted, Committed, RolledBack, Released, Killed, ConnectionLost
  <2> QED BY <1>0, <2>1 DEF OthersKeep, Recording
<1>3. CASE Up(i) /\ pc'[i] = "insert"
  <2>1. PICK m \in Files : m = Min(todo[i]) /\ ~Taken(m) /\ Taken(m)'
    BY <1>3, UpTakes
  <2>a. todo' = todo /\ rows' = rows
    BY <1>3, UpTakes
  <2>2. rows[m] = 0 /\ \A j \in Instances : ~Recording(j, m)
    BY <1>0, <2>1 DEF OnceInv
  <2>3. \A n : Recording(i, n)' <=> n = m
    BY <1>3, <2>1, <2>a DEF Recording
  <2> QED BY <1>1, <1>2, <2>1, <2>a, <2>2, <2>3 DEF OnceInv, RecordedOnce
<1>4. CASE Inserted(i)
  <2> DEFINE m == Min(todo[i])
  <2>1. m \in Files /\ Recording(i, m)
    BY <1>0, <1>4, FirstFile DEF Inserted, MigrationsInv, TodoInv, Recording
  <2>2. rows' = [rows EXCEPT ![m] = @ + 1]
    BY <1>4, AtFree DEF Inserted
  <2>3. pc'[i] # "insert"
    BY <1>0, <1>4, NextTaskGoes DEF Inserted
  <2> HIDE DEF m
  <2>4. /\ rows[m] = 0 /\ Taken(m) /\ \A j \in Instances : Recording(j, m) => i = j
    BY <2>1 DEF OnceInv
  <2>5. rows'[m] = 1 /\ \A n \in Files \ {m} : rows'[n] = rows[n]
    BY <1>0, <2>1, <2>2, <2>4
  <2>6. \A n : ~Recording(i, n)'
    BY <2>3 DEF Recording
  <2>7. RecordedOnce'
    BY <2>5 DEF OnceInv, RecordedOnce
  <2>8. \A n \in Files : rows'[n] > 0 => Taken(n)'
    BY <1>1, <2>4, <2>5 DEF OnceInv
  <2>9. \A j \in Instances, n \in Files : Recording(j, n)' =>
          /\ rows'[n] = 0 /\ Taken(n)'
          /\ \A l \in Instances : Recording(l, n)' => j = l
    BY <1>1, <1>2, <2>4, <2>5, <2>6 DEF OnceInv
  <2> QED BY <1>1, <2>7, <2>8, <2>9 DEF OnceInv
<1>5. CASE ~Inserted(i) /\ ~(Up(i) /\ pc'[i] = "insert")
  <2>1. rows' = rows
    BY <1>5, RowsInstance
  <2>2. pc'[i] = "insert" => pc[i] = "insert" /\ todo' = todo
    <3>1. CASE Step(i)
      <4>1. PICK step \in Places : StepGoes(i, step)
        BY <1>0, <3>1, StepCourse
      <4>2. pc'[i] = step
        BY <1>0, <4>1 DEF StepGoes, Turns, Goes, InstanceType
      <4>3. step = "insert" => pc[i] = "up"
        BY <4>1 DEF StepGoes, Edges
      <4>4. pc[i] = "up" => Up(i)
        BY <3>1 DEF Step, Start, Created, GotLock, Begun, TableLocked, ReadCompleted, Inserted,
                    Committed, RolledBack, Released
      <4> QED BY <1>5, <4>2, <4>3, <4>4
    <3>2. CASE Killed(i)
      BY <1>0, <3>2 DEF Killed, InstanceType
    <3>3. ASSUME NEW k \in Conns, ConnectionLost(i, k)
          PROVE  pc'[i] = "insert" => pc[i] = "insert" /\ todo' = todo
      BY <1>0, <3>3 DEF ConnectionLost, Finish, Acquire, InstanceType
    <3> QED BY <3>1, <3>2, <3>3
  <2>3. \A n : Recording(i, n)' => Recording(i, n)
    BY <2>2 DEF Recording
  <2>4. \A j \in Instances : \A n : Recording(j, n)' => Recording(j, n)
    BY <1>2, <2>3
  <2> QED BY <1>1, <2>1, <2>4 DEF OnceInv, RecordedOnce
<1> QED BY <1>3, <1>4, <1>5

LEMMA OnceStep == Lossless /\ MigrationsInv /\ OnceInv /\ [Next]_vars => OnceInv'
<1> SUFFICES ASSUME Lossless, MigrationsInv, OnceInv, [Next]_vars PROVE OnceInv'
  OBVIOUS
<1>1. ASSUME NEW k \in Conns, FileTransactionEnds(k)
      PROVE  OnceInv'
  <2>1. UNCHANGED <<pc, todo, rows>>
    BY <1>1, EndKeepsRows DEF FileTransactionEnds, instance
  <2>2. /\ \A m \in Files : Taken(m) => Taken(m)'
        /\ \A c \in Conns : wrote'[c] \in {wrote[c], {}}
    BY <1>1, EndKeepsTaken DEF FileTransactionEnds
  <2>3. \A j, m : Recording(j, m)' <=> Recording(j, m)
    BY <2>1 DEF Recording
  <2> QED BY <2>1, <2>2, <2>3 DEF OnceInv, RecordedOnce
<1>2. CASE UNCHANGED vars
  <2>1. UNCHANGED <<pc, todo, rows, applied, wrote>>
    BY <1>2 DEF vars, instance, database
  <2> QED BY <2>1 DEF OnceInv, RecordedOnce, Taken, Recording
<1> QED BY <1>1, <1>2, OnceInstance DEF Next

LEMMA OnceInit == Init => OnceInv
BY DEF Init, OnceInv, RecordedOnce, Recording

\* No file is recorded twice, whatever instances start and are killed, although the
\* table has no unique key and the table lock is gone before the insert.  Lossless is
\* needed: where a connection with an unfinished commit() is lost, the file is
\* recorded without its changes, and an instance that has read before applies it
\* again.
THEOREM FilesRecordedOnce ==
  ASSUME Lossless
  PROVE  Spec => []RecordedOnce
<1>1. Init => MigrationsInv /\ OnceInv
  BY InitInv, OnceInit
<1>2. MigrationsInv /\ OnceInv /\ [Next]_vars => (MigrationsInv /\ OnceInv)'
  BY MigrationsStep, OnceStep
<1>3. OnceInv => RecordedOnce
  BY DEF OnceInv
<1> QED BY <1>1, <1>2, <1>3, PTL DEF Spec

\* A name in the migrations table means that the changes of its file are committed,
\* or that their commit(), which nobody awaits, is under way.
THEOREM RecordedAfterApplied ==
  ASSUME Lossless
  PROVE  Spec => []RecordedIsApplied
<1>1. Init => MigrationsInv /\ OnceInv
  BY InitInv, OnceInit
<1>2. MigrationsInv /\ OnceInv /\ [Next]_vars => (MigrationsInv /\ OnceInv)'
  BY MigrationsStep, OnceStep
<1>3. OnceInv => RecordedIsApplied
  BY DEF OnceInv, Taken, RecordedIsApplied
<1> QED BY <1>1, <1>2, <1>3, PTL DEF Spec
=============================================================================
