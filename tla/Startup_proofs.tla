---------------------------- MODULE Startup_proofs ---------------------------
(***************************************************************************)
(* Theorems about Startup, for any attempts, faults and downgrades.        *)
(***************************************************************************)
EXTENDS Startup, TLAPS

-----------------------------------------------------------------------------
(***************************************************************************)
(* The migrations.                                                         *)
(***************************************************************************)

EnumValues == {"rsi", "bollinger_bands"}

LEMMA Migrations ==
    /\ Latest = 4 /\ DOMAIN Upgrade = 1 .. 4
    /\ Upgrade[1] = Initial /\ Upgrade[2] = AddAlertDeliveryAttempts
    /\ Upgrade[3] = AddApiKeys /\ Upgrade[4] = ExtendRuleTypeEnum
  BY DEF Latest, Upgrade

LEMMA Lengths ==
    /\ Len(Initial) = 6 /\ Len(AddAlertDeliveryAttempts) = 1
    /\ Len(AddApiKeys) = 1 /\ Len(ExtendRuleTypeEnum) = 2
  BY DEF Initial, AddAlertDeliveryAttempts, AddApiKeys, ExtendRuleTypeEnum

LEMMA Entries ==
    /\ Initial[1] = "rule_type_enum" /\ Initial[2] = "delivery_status_enum"
    /\ Initial[3] = "rules" /\ Initial[4] = "alerts"
    /\ Initial[5] = "candles" /\ Initial[6] = "worker_cursors"
    /\ AddAlertDeliveryAttempts[1] = "alert_delivery_attempts"
    /\ AddApiKeys[1] = "api_keys"
    /\ ExtendRuleTypeEnum[1] = "rsi" /\ ExtendRuleTypeEnum[2] = "bollinger_bands"
  BY DEF Initial, AddAlertDeliveryAttempts, AddApiKeys, ExtendRuleTypeEnum

Tables == {"rule_type_enum", "delivery_status_enum", "rules", "alerts", "candles", "worker_cursors"}

LEMMA Schemas ==
    /\ ObjectsOf(0) = {}
    /\ ObjectsOf(1) = Tables
    /\ ObjectsOf(2) = Tables \cup {"alert_delivery_attempts"}
    /\ ObjectsOf(3) = Tables \cup {"alert_delivery_attempts", "api_keys"}
    /\ ObjectsOf(4) = Tables \cup {"alert_delivery_attempts", "api_keys"} \cup EnumValues
<1> DEFINE Made(m) == {Upgrade[m][i] : i \in DOMAIN Upgrade[m]}
<1>1. Made(1) = Tables
  <2>1. DOMAIN Upgrade[1] = 1 .. 6
    BY Migrations DEF Initial
  <2> QED
    BY <2>1, Migrations, Entries DEF Tables
<1>2. Made(2) = {"alert_delivery_attempts"}
  <2>1. DOMAIN Upgrade[2] = 1 .. 1
    BY Migrations DEF AddAlertDeliveryAttempts
  <2> QED
    BY <2>1, Migrations, Entries
<1>3. Made(3) = {"api_keys"}
  <2>1. DOMAIN Upgrade[3] = 1 .. 1
    BY Migrations DEF AddApiKeys
  <2> QED
    BY <2>1, Migrations, Entries
<1>4. Made(4) = EnumValues
  <2>1. DOMAIN Upgrade[4] = 1 .. 2
    BY Migrations DEF ExtendRuleTypeEnum
  <2> QED
    BY <2>1, Migrations, Entries DEF EnumValues
<1>5. \A v : ObjectsOf(v) = UNION {Made(m) : m \in 1 .. v}
  BY DEF ObjectsOf
<1> HIDE DEF Made
<1>6. UNION {Made(m) : m \in 1 .. 0} = {}
  OBVIOUS
<1>7. UNION {Made(m) : m \in 1 .. 1} = Made(1)
  OBVIOUS
<1>8. UNION {Made(m) : m \in 1 .. 2} = Made(1) \cup Made(2)
  OBVIOUS
<1>9. UNION {Made(m) : m \in 1 .. 3} = Made(1) \cup Made(2) \cup Made(3)
  OBVIOUS
<1>10. UNION {Made(m) : m \in 1 .. 4} = Made(1) \cup Made(2) \cup Made(3) \cup Made(4)
  OBVIOUS
<1> QED
  BY <1>1, <1>2, <1>3, <1>4, <1>5, <1>6, <1>7, <1>8, <1>9, <1>10

\* Versions do not lose what earlier ones have made.
LEMMA SchemasGrow ==
    ASSUME NEW u \in 0 .. 4, NEW v \in 0 .. 4, u <= v
    PROVE  /\ ObjectsOf(u) \subseteq ObjectsOf(v)
           /\ v < 4 => ObjectsOf(v) \cap EnumValues = {}
<1>1. u \in {0, 1, 2, 3, 4} /\ v \in {0, 1, 2, 3, 4}
  OBVIOUS
<1> QED
  BY <1>1, Schemas DEF Tables, EnumValues

\* The objects of a migration that has done s statements after version v.
Done(v, s) == ObjectsOf(v) \cup {Upgrade[v + 1][i] : i \in 1 .. s}

LEMMA DoneNothing == ASSUME NEW v PROVE Done(v, 0) = ObjectsOf(v)
  BY DEF Done

LEMMA MigrationLengths ==
    ASSUME NEW v \in 0 .. 3
    PROVE  /\ v = 0 => Len(Upgrade[v + 1]) = 6
           /\ v \in {1, 2} => Len(Upgrade[v + 1]) = 1
           /\ v = 3 => Len(Upgrade[v + 1]) = 2
<1>1. CASE v = 0
  <2>1. v + 1 = 1
    BY <1>1
  <2> QED
    BY <1>1, <2>1, Migrations, Lengths, Zenon
<1>2. CASE v = 1
  <2>1. v + 1 = 2
    BY <1>2
  <2> QED
    BY <1>2, <2>1, Migrations, Lengths
<1>3. CASE v = 2
  <2>1. v + 1 = 3
    BY <1>3
  <2> QED
    BY <1>3, <2>1, Migrations, Lengths
<1>4. CASE v = 3
  <2>1. v + 1 = 4
    BY <1>4
  <2> QED
    BY <1>4, <2>1, Migrations, Lengths
<1> QED
  BY <1>1, <1>2, <1>3, <1>4

LEMMA DoneAll ==
    ASSUME NEW v \in 0 .. 3
    PROVE  Done(v, Len(Upgrade[v + 1])) = ObjectsOf(v + 1)
<1>1. CASE v = 0
  <2>1. {Upgrade[1][i] : i \in 1 .. 6} = Tables
    BY Migrations, Entries DEF Tables
  <2> QED
    BY <1>1, <2>1, MigrationLengths, Schemas DEF Done
<1>2. CASE v = 1
  <2>1. {Upgrade[2][i] : i \in 1 .. 1} = {"alert_delivery_attempts"}
    BY Migrations, Entries
  <2> QED
    BY <1>2, <2>1, MigrationLengths, Schemas DEF Done
<1>3. CASE v = 2
  <2>1. {Upgrade[3][i] : i \in 1 .. 1} = {"api_keys"}
    BY Migrations, Entries
  <2> QED
    BY <1>3, <2>1, MigrationLengths, Schemas DEF Done
<1>4. CASE v = 3
  <2>1. {Upgrade[4][i] : i \in 1 .. 2} = EnumValues
    BY Migrations, Entries DEF EnumValues
  <2> QED
    BY <1>4, <2>1, MigrationLengths, Schemas DEF Done
<1> QED
  BY <1>1, <1>2, <1>3, <1>4

\* The next statement of a migration makes an object that the ones before have
\* not made.
LEMMA NextIsNew ==
    ASSUME NEW v \in 0 .. 3, NEW s \in Nat, s < Len(Upgrade[v + 1])
    PROVE  /\ Upgrade[v + 1][s + 1] \notin Done(v, s)
           /\ Upgrade[v + 1][s + 1] \in EnumValues <=> v = 3
           /\ Upgrade[v + 1][s + 1] \in ObjectsOf(4)
           /\ Done(v, s + 1) = Done(v, s) \cup {Upgrade[v + 1][s + 1]}
           /\ s + 1 \in 0 .. 6
<1>1. Done(v, s + 1) = Done(v, s) \cup {Upgrade[v + 1][s + 1]}
  <2>1. 1 .. (s + 1) = (1 .. s) \cup {s + 1}
    OBVIOUS
  <2> QED
    BY <2>1 DEF Done
<1>2. CASE v = 0
  <2>1. s \in {0, 1, 2, 3, 4, 5}
    <3>1. Len(Upgrade[v + 1]) = 6
      BY <1>2, MigrationLengths
    <3> QED
      BY <3>1
  <2>2. Upgrade[1][s + 1] \in Tables
    BY <2>1, Migrations, Entries DEF Tables
  <2>3. \A i \in 1 .. s : Upgrade[1][i] # Upgrade[1][s + 1]
    BY <2>1, Migrations, Entries
  <2> QED
    BY <1>1, <1>2, <2>1, <2>2, <2>3, Schemas DEF Done, Tables, EnumValues
<1>3. CASE v = 1
  BY <1>1, <1>3, MigrationLengths, Migrations, Entries, Schemas DEF Done, Tables, EnumValues
<1>4. CASE v = 2
  BY <1>1, <1>4, MigrationLengths, Migrations, Entries, Schemas DEF Done, Tables, EnumValues
<1>5. CASE v = 3
  <2>1. s \in {0, 1}
    <3>1. Len(Upgrade[v + 1]) = 2
      BY <1>5, MigrationLengths
    <3> QED
      BY <3>1
  <2> QED
    BY <1>1, <1>5, <2>1, Migrations, Entries, Schemas DEF Done, Tables, EnumValues
<1> QED
  BY <1>2, <1>3, <1>4, <1>5

-----------------------------------------------------------------------------
(***************************************************************************)
(* The invariant.                                                          *)
(***************************************************************************)

\* The transaction holds what its version and the statements done since have made.
\* Once a statement of 004 is done, it is committed.
TxIsTrue ==
    api = "migrating" =>
        /\ IF tx.version = Latest THEN step = 0 ELSE step <= Len(Upgrade[tx.version + 1])
        /\ Done(tx.version, step) \subseteq tx.objects
        /\ tx.objects \ Done(tx.version, step) \subseteq EnumValues
        /\ tx.version = 3 /\ step > 0 => tx = db

\* Nothing is committed between the version found and version 003.
VersionIsReached == db.version \in {base, 3, 4}

\* A container that is waiting has attempts left.
TriesLeft ==
    /\ api = "waiting" => apiTried < ApiTries
    /\ worker = "waiting" => workerTried < WorkerTries

Inv == TypeOK /\ VersionIsTrue /\ TxIsTrue /\ VersionIsReached /\ TriesLeft

LEMMA StatementMakes ==
    ASSUME Inv, Statement
    PROVE  LET object == Upgrade[tx.version + 1][step + 1]
           IN /\ tx.version \in 0 .. 3 /\ step \in Nat /\ step < Len(Upgrade[tx.version + 1])
              /\ object \notin tx.objects \ Guarded
              /\ tx.version = 3 => tx = db
              /\ tx' = [tx EXCEPT !.objects = @ \cup {object}]
              /\ step' = step + 1 /\ api' = "migrating"
              /\ db' = IF tx.version = 3 THEN tx' ELSE db
<1> DEFINE object == Upgrade[tx.version + 1][step + 1]
<1>1. tx.version \in 0 .. 3 /\ step \in Nat /\ step < Len(Upgrade[tx.version + 1])
  BY Migrations DEF Inv, TypeOK, Schema, Statement, Migration
<1>2. tx.objects \ Done(tx.version, step) \subseteq EnumValues
  BY DEF Inv, TxIsTrue, Statement
<1>3. object \notin Done(tx.version, step)
  BY <1>1, NextIsNew
<1>4. object \notin tx.objects \ Guarded
  BY <1>2, <1>3 DEF EnumValues, Guarded
<1>5. Migration \in Autocommitted <=> tx.version = 3
  BY <1>1 DEF Migration, Autocommitted
<1> HIDE DEF object
<1>6. /\ step' = step + 1 /\ api' = api
      /\ tx' = [tx EXCEPT !.objects = @ \cup {object}]
      /\ db' = IF Migration \in Autocommitted THEN tx' ELSE db
      /\ Migration \in Autocommitted => tx = db
      /\ api = "migrating"
  BY <1>4 DEF Statement, Migration, object
<1> QED
  BY <1>1, <1>4, <1>5, <1>6 DEF object

LEMMA InitHolds ==
    ASSUME Init
    PROVE  Inv
<1>1. base \in 0 .. 4 /\ Latest = 4
  BY Migrations DEF Init
<1>2. ObjectsOf(base) \subseteq ObjectsOf(4)
  BY <1>1, SchemasGrow
<1>3. TypeOK
  BY <1>1, <1>2, TriesAssumption, BoundsAssumption DEF Init, TypeOK, Schema
<1> QED
  BY <1>3 DEF Init, Inv, VersionIsTrue, TxIsTrue, VersionIsReached, TriesLeft

\* Steps that leave the schema and its migration alone, or drop the migration.
LEMMA OutsideHolds ==
    ASSUME Inv, db' = db, base' = base,
           \/ tx' = tx /\ step' = step /\ (api' = "migrating" <=> api = "migrating")
           \/ tx' = NoTx /\ step' = 0 /\ api' # "migrating",
           pgUp' \in BOOLEAN, api' \in {"down", "waiting", "migrating", "serving"},
           worker' \in {"down", "waiting", "running"},
           apiTried' \in 0 .. ApiTries, workerTried' \in 0 .. WorkerTries, TriesLeft',
           faults' \in 0 .. MaxFaults, downgrades' \in 0 .. MaxDowngrades
    PROVE  Inv'
<1>1. TypeOK'
  BY DEF Inv, TypeOK
<1>2. VersionIsTrue' /\ VersionIsReached'
  BY DEF Inv, VersionIsTrue, VersionIsReached
<1>3. TxIsTrue'
  BY DEF Inv, TxIsTrue, Done
<1> QED
  BY <1>1, <1>2, <1>3 DEF Inv

LEMMA ConnectHolds ==
    ASSUME Inv, ApiConnect
    PROVE  Inv'
<1>1. CASE pgUp
  <2>1. /\ tx' = db /\ step' = 0 /\ api' = "migrating"
        /\ UNCHANGED <<pgUp, db, worker, workerTried, base, faults, downgrades, apiTried>>
    BY <1>1 DEF ApiConnect
  <2>2. TypeOK'
    BY <2>1 DEF Inv, TypeOK, Schema
  <2>3. VersionIsTrue' /\ VersionIsReached' /\ TriesLeft'
    BY <2>1 DEF Inv, VersionIsTrue, VersionIsReached, TriesLeft
  <2>4. TxIsTrue'
    <3>1. db.version \in 0 .. 4
      BY Migrations DEF Inv, TypeOK, Schema
    <3>2. db.version # 4 => 0 <= Len(Upgrade[db.version + 1])
      <4>1. SUFFICES ASSUME db.version # 4 PROVE 0 <= Len(Upgrade[db.version + 1])
        OBVIOUS
      <4>2. db.version \in 0 .. 3
        BY <3>1, <4>1
      <4> QED
        BY <4>2, MigrationLengths
    <3>3. Done(db.version, 0) = ObjectsOf(db.version)
      BY DoneNothing
    <3>4. Done(tx'.version, step') = Done(db.version, 0)
      BY <2>1
    <3> QED
      BY <2>1, <3>2, <3>3, <3>4, Migrations DEF Inv, VersionIsTrue, TxIsTrue, EnumValues, Done
  <2> QED
    BY <2>2, <2>3, <2>4 DEF Inv
<1>2. CASE ~pgUp
  <2>1. apiTried' \in 0 .. ApiTries /\ TriesLeft'
    BY <1>2, TriesAssumption DEF ApiConnect, Inv, TypeOK, TriesLeft, ApiEnds
  <2> QED
    BY <1>2, <2>1, OutsideHolds DEF ApiConnect, Inv, TypeOK, ApiEnds
<1> QED
  BY <1>1, <1>2

LEMMA EnterHolds ==
    ASSUME Inv, EnterAutocommit
    PROVE  Inv'
<1>1. /\ db' = tx /\ api = "migrating" /\ tx # db
      /\ UNCHANGED <<pgUp, tx, step, api, worker, apiTried, workerTried, base, faults, downgrades>>
  BY DEF EnterAutocommit, containers
<1>2. tx \in Schema /\ tx.version = 3 /\ step = 0
  <2>1. tx \in Schema /\ tx.version \in 0 .. 4
    BY <1>1, Migrations DEF Inv, TypeOK, Schema
  <2>2. tx.version = 3
    BY <2>1 DEF EnterAutocommit, Migration, Autocommitted
  <2> QED
    BY <1>1, <2>1, <2>2 DEF Inv, TxIsTrue, TypeOK
<1>3. ObjectsOf(3) \subseteq tx.objects /\ tx.objects \ ObjectsOf(3) \subseteq EnumValues
  <2>1. Done(tx.version, step) = ObjectsOf(3)
    BY <1>2, DoneNothing
  <2> QED
    BY <1>1, <2>1 DEF Inv, TxIsTrue
<1>4. TypeOK'
  BY <1>1, <1>2 DEF Inv, TypeOK
<1>5. VersionIsTrue' /\ VersionIsReached' /\ TriesLeft'
  BY <1>1, <1>2, <1>3 DEF Inv, VersionIsTrue, VersionIsReached, TriesLeft, EnumValues
<1>6. TxIsTrue'
  BY <1>1, <1>2 DEF Inv, TxIsTrue, Done
<1> QED
  BY <1>4, <1>5, <1>6 DEF Inv

LEMMA StatementHolds ==
    ASSUME Inv, Statement
    PROVE  Inv'
<1> DEFINE object == Upgrade[tx.version + 1][step + 1]
<1>1. /\ tx.version \in 0 .. 3 /\ step \in Nat /\ step < Len(Upgrade[tx.version + 1])
      /\ tx.version = 3 => tx = db
      /\ tx' = [tx EXCEPT !.objects = @ \cup {object}]
      /\ step' = step + 1 /\ api' = "migrating"
      /\ db' = IF tx.version = 3 THEN tx' ELSE db
  BY StatementMakes
<1>2. /\ object \in EnumValues <=> tx.version = 3
      /\ object \in ObjectsOf(4) /\ step + 1 \in 0 .. 6
      /\ Done(tx.version, step + 1) = Done(tx.version, step) \cup {object}
  BY <1>1, NextIsNew
<1> HIDE DEF object
<1>3. api = "migrating" /\ tx \in Schema /\ db \in Schema /\ db.version <= tx.version
  BY DEF Statement, Inv, TypeOK
<1>4. tx'.objects = tx.objects \cup {object} /\ tx'.version = tx.version /\ tx' \in Schema
  BY <1>1, <1>2, <1>3, Migrations DEF Schema
<1>5. TypeOK'
  <2>1. db' \in Schema /\ db'.version <= tx'.version
    BY <1>1, <1>3, <1>4
  <2>2. UNCHANGED <<pgUp, worker, apiTried, workerTried, base, faults, downgrades>>
    BY DEF Statement
  <2> QED
    BY <1>1, <1>2, <1>4, <2>1, <2>2 DEF Inv, TypeOK
<1>6. VersionIsTrue' /\ VersionIsReached'
  <2>1. UNCHANGED base
    BY DEF Statement
  <2>2. CASE tx.version = 3
    <3>1. db' = tx' /\ db'.version = 3 /\ db.version = 3 /\ db'.objects = db.objects \cup {object}
      BY <1>1, <1>4, <2>2
    <3>2. object \notin ObjectsOf(3)
      BY <1>2, <2>2, SchemasGrow
    <3> QED
      BY <1>2, <2>1, <2>2, <3>1, <3>2 DEF Inv, VersionIsTrue, VersionIsReached, EnumValues
  <2>3. CASE tx.version # 3
    BY <1>1, <2>1, <2>3 DEF Inv, VersionIsTrue, VersionIsReached
  <2> QED
    BY <2>2, <2>3
<1>7. TxIsTrue'
  <2>1. Done(tx'.version, step') = Done(tx.version, step) \cup {object}
    BY <1>1, <1>2, <1>4
  <2>2. /\ Done(tx.version, step) \subseteq tx.objects
        /\ tx.objects \ Done(tx.version, step) \subseteq EnumValues
    BY <1>3 DEF Inv, TxIsTrue
  <2>3. Done(tx'.version, step') \subseteq tx'.objects
    BY <1>4, <2>1, <2>2
  <2>4. tx'.objects \ Done(tx'.version, step') \subseteq EnumValues
    BY <1>4, <2>1, <2>2
  <2>5. tx'.version # Latest /\ step' <= Len(Upgrade[tx'.version + 1])
    <3>1. Len(Upgrade[tx.version + 1]) \in Nat
      BY <1>1, MigrationLengths
    <3> QED
      BY <1>1, <1>4, <3>1, Migrations
  <2>6. tx'.version = 3 => tx' = db'
    BY <1>1, <1>4
  <2> QED
    BY <2>3, <2>4, <2>5, <2>6 DEF TxIsTrue, Done
<1>8. TriesLeft'
  BY <1>1, <1>3 DEF Statement, Inv, TriesLeft
<1> QED
  BY <1>5, <1>6, <1>7, <1>8 DEF Inv

LEMMA StampHolds ==
    ASSUME Inv, Stamp
    PROVE  Inv'
<1>1. /\ api = "migrating" /\ tx.version \in 0 .. 3 /\ tx \in Schema /\ db.version <= tx.version
      /\ step = Len(Upgrade[tx.version + 1])
      /\ tx' = [tx EXCEPT !.version = @ + 1] /\ step' = 0
      /\ UNCHANGED <<pgUp, db, api, worker, apiTried, workerTried, base, faults, downgrades>>
  BY Migrations DEF Stamp, Migration, containers, Inv, TypeOK, Schema
<1>2. tx'.version = tx.version + 1 /\ tx'.objects = tx.objects /\ tx' \in Schema
  BY <1>1, Migrations DEF Schema
<1>3. Done(tx'.version, step') = Done(tx.version, step)
  <2>1. Done(tx.version, step) = ObjectsOf(tx.version + 1)
    BY <1>1, DoneAll
  <2> QED
    BY <1>1, <1>2, <2>1, DoneNothing
<1>4. TypeOK'
  <2>1. db'.version <= tx'.version
    BY <1>1, <1>2 DEF Inv, TypeOK, Schema
  <2> QED
    BY <1>1, <1>2, <2>1 DEF Inv, TypeOK
<1>5. VersionIsTrue' /\ VersionIsReached' /\ TriesLeft'
  BY <1>1 DEF Inv, VersionIsTrue, VersionIsReached, TriesLeft
<1>6. TxIsTrue'
  <2>1. /\ Done(tx'.version, step') \subseteq tx'.objects
        /\ tx'.objects \ Done(tx'.version, step') \subseteq EnumValues
    BY <1>1, <1>2, <1>3 DEF Inv, TxIsTrue
  <2>2. tx'.version # Latest => 0 <= Len(Upgrade[tx'.version + 1])
    <3>1. SUFFICES ASSUME tx'.version # Latest PROVE 0 <= Len(Upgrade[tx'.version + 1])
      OBVIOUS
    <3>2. tx'.version \in 0 .. 3
      BY <1>1, <1>2, <3>1, Migrations
    <3> QED
      BY <3>2, MigrationLengths
  <2> QED
    BY <1>1, <2>1, <2>2 DEF TxIsTrue, Done
<1> QED
  BY <1>4, <1>5, <1>6 DEF Inv

\* What is committed at the end is the whole schema.
LEMMA ServesWhole ==
    ASSUME Inv, Serve
    PROVE  tx \in Schema /\ tx.version = 4 /\ tx.objects = ObjectsOf(4)
<1>1. tx \in Schema /\ tx.version = 4 /\ step = 0 /\ api = "migrating"
  BY Migrations DEF Serve, Migration, Inv, TypeOK, Schema, TxIsTrue
<1>2. Done(tx.version, step) = ObjectsOf(4)
  BY <1>1, DoneNothing
<1>3. ObjectsOf(4) \subseteq tx.objects
  BY <1>1, <1>2 DEF Inv, TxIsTrue
<1> QED
  BY <1>1, <1>3, Migrations DEF Schema

LEMMA ServeHolds ==
    ASSUME Inv, Serve
    PROVE  Inv'
<1>1. tx \in Schema /\ tx.version = 4 /\ tx.objects = ObjectsOf(4)
  BY ServesWhole
<1>2. /\ db' = tx /\ tx' = NoTx /\ api' = "serving"
      /\ UNCHANGED <<pgUp, step, worker, apiTried, workerTried, base, faults, downgrades>>
  BY DEF Serve
<1>3. TypeOK'
  BY <1>1, <1>2 DEF Inv, TypeOK
<1> QED
  BY <1>1, <1>2, <1>3 DEF Inv, VersionIsTrue, VersionIsReached, TxIsTrue, TriesLeft

LEMMA DowngradeHolds ==
    ASSUME Inv, NEW v \in 0 .. Latest - 1, Downgrade(v)
    PROVE  Inv'
<1> DEFINE objects == db.objects \ (IF v = 0 THEN ObjectsOf(Latest) ELSE ObjectsOf(3) \ ObjectsOf(v))
<1>1. /\ db' = [objects |-> objects, version |-> v] /\ base' = v
      /\ api # "migrating" /\ v < db.version
      /\ downgrades < MaxDowngrades /\ downgrades' = downgrades + 1
      /\ UNCHANGED <<pgUp, tx, step, api, worker, apiTried, workerTried, faults>>
  BY DEF Downgrade, containers
<1>2. /\ db \in Schema /\ v \in 0 .. 3 /\ db.version \in 0 .. 4
      /\ ObjectsOf(v) \subseteq ObjectsOf(db.version)
      /\ ObjectsOf(db.version) \subseteq db.objects /\ db.objects \subseteq ObjectsOf(4)
  <2>1. db \in Schema /\ v \in 0 .. 3 /\ db.version \in 0 .. 4 /\ db.objects \subseteq ObjectsOf(4)
    BY Migrations DEF Inv, TypeOK, Schema
  <2> QED
    BY <1>1, <2>1, SchemasGrow DEF Inv, VersionIsTrue
<1>3. ObjectsOf(v) \subseteq objects /\ objects \ ObjectsOf(v) \subseteq EnumValues
  <2>1. CASE v = 0
    BY <1>2, <2>1, Schemas, Migrations
  <2>2. CASE v # 0
    BY <1>2, <2>2, Schemas
  <2> QED
    BY <2>1, <2>2
<1>4. objects \subseteq ObjectsOf(4)
  BY <1>2
<1> HIDE DEF objects
<1>5. db' \in Schema /\ db'.version = v /\ db'.objects = objects
  BY <1>1, <1>2, <1>4, Migrations DEF Schema
<1>6. TypeOK'
  BY <1>1, <1>2, <1>5, Migrations, BoundsAssumption DEF Inv, TypeOK
<1> QED
  BY <1>1, <1>3, <1>5, <1>6 DEF Inv, VersionIsTrue, VersionIsReached, TxIsTrue, TriesLeft, EnumValues

LEMMA StepHolds ==
    ASSUME Inv, [Next]_vars
    PROVE  Inv'
<1>1. CASE UNCHANGED vars
  BY <1>1, OutsideHolds DEF vars, containers, Inv, TypeOK, TriesLeft
<1>2. CASE ApiStart
  BY <1>2, OutsideHolds, TriesAssumption DEF ApiStart, Inv, TypeOK, TriesLeft
<1>3. CASE WorkerStart
  BY <1>3, OutsideHolds, TriesAssumption DEF WorkerStart, Inv, TypeOK, TriesLeft
<1>4. CASE WorkerCheck
  <2>1. workerTried' \in 0 .. WorkerTries /\ TriesLeft'
    BY <1>4, TriesAssumption DEF WorkerCheck, Inv, TypeOK, TriesLeft, WorkerEnds
  <2> QED
    BY <1>4, <2>1, OutsideHolds DEF WorkerCheck, WorkerEnds, Inv, TypeOK
<1>5. CASE PgStarts
  BY <1>5, OutsideHolds DEF PgStarts, containers, Inv, TypeOK, TriesLeft
<1>6. ASSUME Fault PROVE faults' \in 0 .. MaxFaults /\ base' = base /\ downgrades' = downgrades
  BY <1>6, BoundsAssumption DEF Fault, Inv, TypeOK
<1>7. CASE PgStops
  BY <1>6, <1>7, OutsideHolds DEF PgStops, MigrationFails, ApiEnds, WorkerEnds, Inv, TypeOK, TriesLeft
<1>8. CASE ApiCrashes
  BY <1>6, <1>8, OutsideHolds DEF ApiCrashes, ApiEnds, Inv, TypeOK, TriesLeft
<1>9. CASE WorkerCrashes
  BY <1>6, <1>9, OutsideHolds DEF WorkerCrashes, WorkerEnds, Inv, TypeOK, TriesLeft
<1>10. CASE WorkerFails
  BY <1>10, OutsideHolds DEF WorkerFails, WorkerEnds, Inv, TypeOK, TriesLeft
<1> QED
  BY <1>1, <1>2, <1>3, <1>4, <1>5, <1>7, <1>8, <1>9, <1>10, ConnectHolds, EnterHolds, StatementHolds,
     StampHolds, ServeHolds, DowngradeHolds DEF Next, ApiStep, WorkerStep, Faults

\* The inductive invariant: what is committed, and what the transaction of the
\* migrations holds, is what their versions and statements have made.
THEOREM Invariance == Spec => []Inv
  BY InitHolds, StepHolds, PTL DEF Spec

-----------------------------------------------------------------------------
(***************************************************************************)
(* The theorems.                                                           *)
(***************************************************************************)

\* Type correctness: there is a transaction while the API migrates, and at no
\* other time, and it is not behind what is committed.
THEOREM TypeCorrect == Spec => []TypeOK
<1>1. Inv => TypeOK
  BY DEF Inv
<1> QED
  BY <1>1, Invariance, PTL

\* However often and wherever the migrations are cut off, the committed schema is
\* that of its version, but for enum values.
THEOREM VersionIsAlwaysTrue == Spec => []VersionIsTrue
<1>1. Inv => VersionIsTrue
  BY DEF Inv
<1> QED
  BY <1>1, Invariance, PTL

\* No statement of a migration meets its object, except those that may.
THEOREM MigrationsAreNeverStuck == Spec => NeverStuck
<1> DEFINE Goes == Statement => api' = "migrating"
<1>1. Inv /\ [Next]_vars => [Goes]_vars
  BY StatementMakes
<1> QED
  BY <1>1, Invariance, PTL DEF Spec, NeverStuck

\* The API starts to serve with the whole schema of the latest version.
THEOREM ServesOnlyAtHead == Spec => ServesAtHead
<1> DEFINE AtHead == api' = "serving" /\ api # "serving" =>
                         db'.version = Latest /\ db'.objects = ObjectsOf(Latest)
<1>1. ASSUME Inv, [Next]_vars, api' = "serving", api # "serving" PROVE Serve
  <2>1. ~Statement
    BY <1>1, StatementMakes
  <2> QED
    BY <1>1, <2>1 DEF Next, ApiStep, WorkerStep, Faults, ApiStart, ApiConnect, EnterAutocommit,
       Stamp, WorkerStart, WorkerCheck, WorkerFails, PgStarts, PgStops, MigrationFails, ApiEnds, ApiCrashes,
       WorkerCrashes, Downgrade, containers, vars
<1>2. ASSUME Inv, Serve PROVE db'.version = Latest /\ db'.objects = ObjectsOf(Latest)
  <2>1. db' = tx
    BY <1>2 DEF Serve
  <2> QED
    BY <1>2, <2>1, ServesWhole, Migrations
<1>3. Inv /\ [Next]_vars => [AtHead]_vars
  BY <1>1, <1>2
<1> QED
  BY <1>3, Invariance, PTL DEF Spec, ServesAtHead

\* When table rules is there the other tables of the worker are there, unless the
\* deployment began with version 001.
THEOREM WorkerFindsItsTables == Spec => WorkerHasSchema
<1> DEFINE Has == worker' = "running" /\ worker # "running" =>
                      WorkerTables \subseteq db.objects \/ base = 1
<1>1. ASSUME Inv, [Next]_vars, worker' = "running", worker # "running"
      PROVE  "rules" \in db.objects
  <2>1. WorkerCheck
    BY <1>1 DEF Next, ApiStep, WorkerStep, Faults, ApiStart, ApiConnect, EnterAutocommit,
       Statement, Stamp, Serve, WorkerStart, WorkerFails, PgStarts, PgStops, MigrationFails,
       WorkerEnds, ApiCrashes, WorkerCrashes, Downgrade, containers, vars
  <2> QED
    BY <1>1, <2>1 DEF WorkerCheck, WorkerEnds
<1>2. ASSUME Inv, "rules" \in db.objects, base # 1
      PROVE  WorkerTables \subseteq db.objects
  <2>1. db.version \in 0 .. 4 /\ db.version # 1
    BY <1>2, Migrations DEF Inv, TypeOK, Schema, VersionIsReached
  <2>2. db.version # 0
    BY <1>2, Schemas DEF Inv, VersionIsTrue
  <2>3. ObjectsOf(2) \subseteq ObjectsOf(db.version)
    BY <2>1, <2>2, SchemasGrow
  <2> QED
    BY <1>2, <2>3, Schemas DEF Inv, VersionIsTrue, Tables, WorkerTables
<1>3. Inv /\ [Next]_vars => [Has]_vars
  BY <1>1, <1>2
<1> QED
  BY <1>3, Invariance, PTL DEF Spec, WorkerHasSchema
=============================================================================
