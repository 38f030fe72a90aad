------------------------------ MODULE Startup -------------------------------
(***************************************************************************)
(* Startup of the containers on one database: the API migrates the schema  *)
(* and then serves; the worker waits for table rules and then runs; docker *)
(* restarts either when it ends.                                           *)
(*                                                                         *)
(* Alembic runs all migrations in one transaction, but migration 004 asks  *)
(* for an autocommit block, which commits the ones before it.              *)
(***************************************************************************)
EXTENDS Integers, Sequences, FiniteSets

CONSTANTS
    ApiTries,       \* connection attempts of entrypoint_api.sh: 30
    WorkerTries,    \* and of wait_for_db.py: 60 with each driver
    MaxFaults, MaxDowngrades    \* bounds of the model

ASSUME TriesAssumption == ApiTries \in Nat \ {0} /\ WorkerTries \in Nat \ {0}
ASSUME BoundsAssumption == MaxFaults \in Nat /\ MaxDowngrades \in Nat

VARIABLES
    pgUp,
    db,             \* what is committed: [objects, version], version as in alembic_version
    tx,             \* the same as the transaction of the migration sees it, or NoTx
    step,           \* statements done of migration tx.version + 1
    api,            \* "down", "waiting", "migrating", "serving"
    worker,         \* "down", "waiting", "running"
    apiTried, workerTried,
    \* history
    base,           \* the version that this deployment found, or was put back to
    faults, downgrades

containers == <<api, worker, apiTried, workerTried>>
vars == <<pgUp, db, tx, step, containers, base, faults, downgrades>>

\* upgrade() of the migrations: the types, tables and enum values they create.
Initial == <<"rule_type_enum", "delivery_status_enum",
             "rules", "alerts", "candles", "worker_cursors">>
AddAlertDeliveryAttempts == <<"alert_delivery_attempts">>
AddApiKeys == <<"api_keys">>
ExtendRuleTypeEnum == <<"rsi", "bollinger_bands">>

Upgrade == <<Initial, AddAlertDeliveryAttempts, AddApiKeys, ExtendRuleTypeEnum>>

Latest == Len(Upgrade)
ObjectsOf(v) == UNION {{Upgrade[m][i] : i \in DOMAIN Upgrade[m]} : m \in 1 .. v}

\* Variant: ADD VALUE without IF NOT EXISTS.
GuardedTypesOnly == {"rule_type_enum", "delivery_status_enum"}
\* Statements that do nothing when their object exists.
Guarded == {"rule_type_enum", "delivery_status_enum", "rsi", "bollinger_bands"}

\* Variant: the connection of the migrations is in autocommit mode.
AutocommittedAll == 1 .. Latest
Autocommitted == {4}

NoTx == [objects |-> {}, version |-> -1]

Init ==
    /\ pgUp \in BOOLEAN
    /\ base \in 0 .. Latest
    /\ db = [objects |-> ObjectsOf(base), version |-> base]
    /\ tx = NoTx /\ step = 0
    /\ api = "down" /\ worker = "down"
    /\ apiTried = 0 /\ workerTried = 0
    /\ faults = 0 /\ downgrades = 0

-----------------------------------------------------------------------------
(***************************************************************************)
(* The API's container.                                                    *)
(***************************************************************************)

\* Variant: no restart policy.
ApiStopped == "stopped"
ApiEnds == "down"

ApiStart ==
    /\ api = "down"
    /\ api' = "waiting" /\ apiTried' = 0
    /\ UNCHANGED <<pgUp, db, tx, step, worker, workerTried, base, faults, downgrades>>

\* entrypoint_api.sh: one attempt to connect; alembic begins its transaction.
ApiConnect ==
    /\ api = "waiting"
    /\ IF pgUp
       THEN api' = "migrating" /\ tx' = db /\ step' = 0 /\ UNCHANGED apiTried
       ELSE /\ apiTried' = apiTried + 1
            /\ api' = IF apiTried' = ApiTries THEN ApiEnds ELSE api
            /\ UNCHANGED <<tx, step>>
    /\ UNCHANGED <<pgUp, db, worker, workerTried, base, faults, downgrades>>

Migration == tx.version + 1

\* Variant: the script goes on after a failed migration.
MigrationFailsOn == api' = "serving" /\ tx' = NoTx /\ step' = 0
\* The transaction is rolled back and alembic fails; with "set -e" the script ends.
MigrationFails == api' = ApiEnds /\ tx' = NoTx /\ step' = 0

\* Entering the autocommit block commits what was done before.
EnterAutocommit ==
    /\ api = "migrating" /\ Migration \in Autocommitted /\ tx # db
    /\ db' = tx
    /\ UNCHANGED <<pgUp, tx, step, containers, base, faults, downgrades>>

\* The next statement.  It fails if its object exists, except for the guarded ones.
Statement ==
    /\ api = "migrating" /\ Migration <= Latest /\ step < Len(Upgrade[Migration])
    /\ Migration \in Autocommitted => tx = db
    /\ LET object == Upgrade[Migration][step + 1]
       IN IF object \in tx.objects \ Guarded
          THEN MigrationFails /\ UNCHANGED db
          ELSE /\ step' = step + 1
               /\ tx' = [tx EXCEPT !.objects = @ \cup {object}]
               /\ db' = IF Migration \in Autocommitted THEN tx' ELSE db
               /\ UNCHANGED api
    /\ UNCHANGED <<pgUp, worker, apiTried, workerTried, base, faults, downgrades>>

\* alembic_version is updated after the migration.
Stamp ==
    /\ api = "migrating" /\ Migration <= Latest /\ step = Len(Upgrade[Migration])
    /\ tx' = [tx EXCEPT !.version = @ + 1] /\ step' = 0
    /\ UNCHANGED <<pgUp, db, containers, base, faults, downgrades>>

\* The last commit; uvicorn is started.
Serve ==
    /\ api = "migrating" /\ Migration > Latest
    /\ db' = tx
    /\ tx' = NoTx /\ api' = "serving"
    /\ UNCHANGED <<pgUp, step, worker, apiTried, workerTried, base, faults, downgrades>>

-----------------------------------------------------------------------------
(***************************************************************************)
(* The worker's container.                                                 *)
(***************************************************************************)

\* Variant: no restart policy.
WorkerStopped == "stopped"
WorkerEnds == "down"

WorkerStart ==
    /\ worker = "down"
    /\ worker' = "waiting" /\ workerTried' = 0
    /\ UNCHANGED <<pgUp, db, tx, step, api, apiTried, base, faults, downgrades>>

\* wait_for_db.py: one attempt; after the last one it exits with an error.
WorkerCheck ==
    /\ worker = "waiting"
    /\ IF pgUp /\ "rules" \in db.objects
       THEN worker' = "running" /\ UNCHANGED workerTried
       ELSE /\ workerTried' = workerTried + 1
            /\ worker' = IF workerTried' = WorkerTries THEN WorkerEnds ELSE worker
    /\ UNCHANGED <<pgUp, db, tx, step, api, apiTried, base, faults, downgrades>>

\* Without its tables the commit of the next candle ends the worker.
WorkerFails ==
    /\ worker = "running" /\ pgUp /\ "rules" \notin db.objects
    /\ worker' = WorkerEnds
    /\ UNCHANGED <<pgUp, db, tx, step, api, apiTried, workerTried, base, faults, downgrades>>

-----------------------------------------------------------------------------
(***************************************************************************)
(* Faults and the operator.                                                *)
(***************************************************************************)

Fault == faults < MaxFaults /\ faults' = faults + 1 /\ UNCHANGED <<base, downgrades>>

\* Postgres stops; a migration loses its connection, a worker may end.
PgStops ==
    /\ pgUp /\ Fault
    /\ pgUp' = FALSE
    /\ IF api = "migrating" THEN MigrationFails ELSE UNCHANGED <<api, tx, step>>
    /\ worker' \in {worker, IF worker = "running" THEN WorkerEnds ELSE worker}
    /\ UNCHANGED <<db, apiTried, workerTried>>

PgStarts ==
    /\ ~pgUp /\ pgUp' = TRUE
    /\ UNCHANGED <<db, tx, step, containers, base, faults, downgrades>>

ApiCrashes ==
    /\ api \in {"waiting", "migrating", "serving"} /\ Fault
    /\ api' = ApiEnds /\ tx' = NoTx /\ step' = 0
    /\ UNCHANGED <<pgUp, db, worker, apiTried, workerTried>>

WorkerCrashes ==
    /\ worker \in {"waiting", "running"} /\ Fault
    /\ worker' = WorkerEnds
    /\ UNCHANGED <<pgUp, db, tx, step, api, apiTried, workerTried>>

\* "alembic downgrade" by hand, also inside the container of a serving API, but not
\* beside its migrations.  downgrade() of 004 leaves its enum values, which go with
\* their type in that of 001.
Downgrade(v) ==
    /\ downgrades < MaxDowngrades /\ pgUp /\ api # "migrating" /\ v < db.version
    /\ downgrades' = downgrades + 1
    /\ db' = [objects |-> db.objects \ (IF v = 0 THEN ObjectsOf(Latest) ELSE ObjectsOf(3) \ ObjectsOf(v)),
              version |-> v]
    /\ base' = v
    /\ UNCHANGED <<pgUp, tx, step, containers, faults>>

-----------------------------------------------------------------------------
ApiStep == ApiStart \/ ApiConnect \/ EnterAutocommit \/ Statement \/ Stamp \/ Serve
WorkerStep == WorkerStart \/ WorkerCheck \/ WorkerFails
Faults == PgStops \/ ApiCrashes \/ WorkerCrashes

Next ==
    \/ ApiStep \/ WorkerStep \/ PgStarts \/ Faults
    \/ \E v \in 0 .. Latest - 1 : Downgrade(v)

Spec == Init /\ [][Next]_vars

\* Both scripts run, docker restarts the containers, and Postgres comes back.
FairSpec == Spec /\ WF_vars(ApiStep) /\ WF_vars(WorkerStep) /\ WF_vars(PgStarts)

-----------------------------------------------------------------------------
(***************************************************************************)
(* Properties.                                                             *)
(***************************************************************************)

Schema == [objects : SUBSET ObjectsOf(Latest), version : 0 .. Latest]

\* Types; there is a transaction while the API migrates, and at no other time.
TypeOK ==
    /\ pgUp \in BOOLEAN
    /\ db \in Schema
    /\ IF api = "migrating" THEN tx \in Schema /\ db.version <= tx.version ELSE tx = NoTx
    /\ step \in 0 .. 6
    /\ api \in {"down", "waiting", "migrating", "serving"}
    /\ worker \in {"down", "waiting", "running"}
    /\ apiTried \in 0 .. ApiTries /\ workerTried \in 0 .. WorkerTries
    /\ base \in 0 .. Latest
    /\ faults \in 0 .. MaxFaults /\ downgrades \in 0 .. MaxDowngrades

\* Whatever fails in the middle of the migrations, the committed schema is that of
\* its version, but for enum values that a failed 004 or a downgrade left.
VersionIsTrue ==
    /\ ObjectsOf(db.version) \subseteq db.objects
    /\ db.objects \ ObjectsOf(db.version) \subseteq {"rsi", "bollinger_bands"}

\* A migration never meets an object that it wants to create: no crash, fault or
\* downgrade leaves a schema on which the API can only restart for ever.
NeverStuck ==
    [][ Statement => api' = "migrating" ]_vars

\* The API starts to serve with the whole schema.
ServesAtHead ==
    [][ api' = "serving" /\ api # "serving" =>
          db'.version = Latest /\ db'.objects = ObjectsOf(Latest) ]_vars

WorkerTables == {"rules", "alerts", "candles", "worker_cursors", "alert_delivery_attempts"}

\* wait_for_db.py asks for table rules only.  The worker still finds all tables it
\* uses, for the tables are committed together; not so when the deployment began
\* with version 001, where it may start before 002 is applied.
WorkerHasSchema ==
    [][ worker' = "running" /\ worker # "running" =>
          WorkerTables \subseteq db.objects \/ base = 1 ]_vars

\* After the last fault both containers come up and stay up, whatever attempts
\* ran out before Postgres was there, or the worker before the tables were; except
\* that the worker is without tables once they are dropped under a serving API.
ContainersComeUp ==
    <>[](api = "serving" /\ (worker = "running" \/ "rules" \notin db.objects))
=============================================================================
