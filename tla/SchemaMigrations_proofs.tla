---------------------- MODULE SchemaMigrations_proofs ----------------------
(***************************************************************************)
(* Theorems of SchemaMigrations, for any number of migrations, changes by  *)
(* hand and validations: the version on record tells the schema, clubs and *)
(* fixtures survive downgrades, and the validator's verdict is right.      *)
(***************************************************************************)
EXTENDS SchemaMigrations, TLAPS

-----------------------------------------------------------------------------
(* What the migrations do to a schema *)

InitialNames == {"seasons", "venues", "teams", "matches", "season_teams",
                 "team_external_ids", "match_external_ids"}

\* The names of the tables, at every version and in the models.
LEMMA TableNames ==
  /\ DOMAIN InitialTables = InitialNames
  /\ DOMAIN NullableCities(InitialTables) = InitialNames
  /\ DOMAIN WithStats(NullableCities(InitialTables)) = InitialNames \cup {StatsTable}
  /\ DOMAIN ModelSchema = InitialNames \cup {StatsTable}
  /\ DOMAIN ExpectedSchema = InitialNames \cup {StatsTable}
  /\ StatsTable \notin InitialNames
<1>1. DOMAIN InitialTables = InitialNames
  BY DEF InitialTables, InitialNames
<1>2. DOMAIN NullableCities(InitialTables) = InitialNames
  BY <1>1 DEF NullableCities
<1>3. DOMAIN ModelSchema = InitialNames \cup {StatsTable}
  BY DEF ModelSchema, InitialNames, StatsTable
<1>4. DOMAIN ExpectedSchema = InitialNames \cup {StatsTable}
  BY DEF ExpectedSchema, InitialNames, StatsTable
<1>5. StatsTable \notin InitialNames
  BY DEF InitialNames, StatsTable
<1> QED
  BY <1>1, <1>2, <1>3, <1>4, <1>5 DEF WithStats

\* The second migration, table by table.
LEMMA NullableCitiesTables ==
  /\ NullableCities(InitialTables)["teams"] = ModelSchema["teams"]
  /\ NullableCities(InitialTables)["venues"] = ModelSchema["venues"]
  /\ \A t \in InitialNames \ {"teams", "venues"} :
       NullableCities(InitialTables)[t] = InitialTables[t]
<1> DEFINE second == NullableCities(InitialTables)
<1>1. "teams" \in DOMAIN InitialTables /\ "venues" \in DOMAIN InitialTables
  BY TableNames DEF InitialNames
<1>2. second["teams"] =
        WithNullable(WithNullable(InitialTables["teams"], "state"), "city")
  BY <1>1 DEF NullableCities
<1>3. second["venues"] = WithNullable(InitialTables["venues"], "city")
  BY <1>1 DEF NullableCities
<1>4. \A t \in InitialNames \ {"teams", "venues"} : second[t] = InitialTables[t]
  BY TableNames DEF NullableCities
<1>5. second["venues"] = ModelSchema["venues"]
  <2> DEFINE R == {"id", "name", "city"}
             O == {"capacity", "latitude", "longitude", "altitude_meters"}
  <2>1. InitialTables["venues"] = Table(R, O, {}, {}, {})
    BY DEF InitialTables
  <2>2. second["venues"] = Table(R \ {"city"}, O \cup {"city"}, {}, {}, {})
    BY <1>3, <2>1 DEF WithNullable, Table
  <2>3. /\ R \ {"city"} = {"id", "name"}
        /\ O \cup {"city"} = {"city", "capacity", "latitude", "longitude",
                              "altitude_meters"}
    OBVIOUS
  <2> QED
    BY <2>2, <2>3 DEF ModelSchema
<1>6. second["teams"] = ModelSchema["teams"]
  <2> DEFINE R == {"id", "official_name", "short_name", "city"}
             O == {"founded_year", "home_venue_id"}
             F == {<<"home_venue_id", "venues">>}
  <2>1. InitialTables["teams"] = Table(R, O, F, {}, {})
    BY DEF InitialTables
  <2> HIDE DEF R, O, F
  <2>0. WithNullable(InitialTables["teams"], "state") =
          Table(R \ {"state"}, O \cup {"state"}, F, {}, {})
    BY <2>1 DEF WithNullable, Table
  <2>2. second["teams"] = Table((R \ {"state"}) \ {"city"},
                                (O \cup {"state"}) \cup {"city"}, F, {}, {})
    BY <1>2, <2>0 DEF WithNullable, Table
  <2>3. /\ (R \ {"state"}) \ {"city"} = {"id", "official_name", "short_name"}
        /\ (O \cup {"state"}) \cup {"city"} =
             {"city", "state", "founded_year", "home_venue_id"}
    BY DEF R, O
  <2> QED
    BY <2>2, <2>3 DEF ModelSchema, F
<1> QED
  BY <1>4, <1>5, <1>6

\* The third version is what the models declare.
LEMMA ThirdVersionIsModels == WithStats(NullableCities(InitialTables)) = ModelSchema
<1> DEFINE second == NullableCities(InitialTables)
           third  == WithStats(second)
<1>1. DOMAIN second = InitialNames
  BY TableNames
<1>2. third = [t \in InitialNames \cup {StatsTable} |-> third[t]]
  BY <1>1 DEF WithStats
<1>3. ModelSchema = [t \in InitialNames \cup {StatsTable} |-> ModelSchema[t]]
  BY TableNames DEF ModelSchema
<1>4. third[StatsTable] = ModelSchema[StatsTable]
  BY DEF WithStats, ModelSchema, StatsTable
<1>5. \A t \in InitialNames : third[t] = second[t]
  BY <1>1, TableNames DEF WithStats
<1>6. \A t \in InitialNames \ {"teams", "venues"} : InitialTables[t] = ModelSchema[t]
  <2>1. InitialTables["matches"] = ModelSchema["matches"]
    <3>1. {"result_type valid", "status valid", "home and away distinct"}
            = {"home and away distinct", "status valid", "result_type valid"}
      OBVIOUS
    <3> QED
      BY <3>1 DEF InitialTables, ModelSchema
  <2>2. InitialTables["seasons"] = ModelSchema["seasons"]
    BY DEF InitialTables, ModelSchema
  <2>3. InitialTables["season_teams"] = ModelSchema["season_teams"]
    BY DEF InitialTables, ModelSchema
  <2>4. InitialTables["team_external_ids"] = ModelSchema["team_external_ids"]
    BY DEF InitialTables, ModelSchema
  <2>5. InitialTables["match_external_ids"] = ModelSchema["match_external_ids"]
    BY DEF InitialTables, ModelSchema
  <2> QED
    BY <2>1, <2>2, <2>3, <2>4, <2>5 DEF InitialNames
<1>7. \A t \in InitialNames \cup {StatsTable} : third[t] = ModelSchema[t]
  BY <1>4, <1>5, <1>6, NullableCitiesTables
<1> HIDE DEF third
<1>8. third = ModelSchema
  BY <1>2, <1>3, <1>7
<1> QED
  BY <1>8 DEF third

\* The second downgrade undoes the second upgrade.
LEMMA RequiredCitiesUndoes ==
  RequiredCities(NullableCities(InitialTables)) = InitialTables
<1> DEFINE second == NullableCities(InitialTables)
           first  == RequiredCities(second)
<1>1. DOMAIN second = InitialNames /\ "teams" \in InitialNames /\ "venues" \in InitialNames
  BY TableNames DEF InitialNames
<1> HIDE DEF second
<1>2. first = [t \in InitialNames |-> first[t]]
  BY <1>1 DEF RequiredCities
<1>3. InitialTables = [t \in InitialNames |-> InitialTables[t]]
  BY TableNames DEF InitialTables
<1>4. \A t \in InitialNames \ {"teams", "venues"} : first[t] = second[t]
  BY <1>1 DEF RequiredCities
<1>5. first["venues"] = InitialTables["venues"]
  <2> DEFINE R == {"id", "name"}
             O == {"city", "capacity", "latitude", "longitude", "altitude_meters"}
  <2>1. second["venues"] = Table(R, O, {}, {}, {})
    BY NullableCitiesTables DEF ModelSchema, second
  <2>2. first["venues"] = WithRequired(second["venues"], "city")
    BY <1>1 DEF RequiredCities
  <2>3. /\ R \cup {"city"} = {"id", "name", "city"}
        /\ O \ {"city"} = {"capacity", "latitude", "longitude", "altitude_meters"}
    OBVIOUS
  <2> HIDE DEF R, O
  <2>4. first["venues"] = Table(R \cup {"city"}, O \ {"city"}, {}, {}, {})
    BY <2>1, <2>2 DEF WithRequired, Table
  <2> QED
    BY <2>3, <2>4 DEF InitialTables
<1>6. first["teams"] = InitialTables["teams"]
  <2> DEFINE R == {"id", "official_name", "short_name"}
             O == {"city", "state", "founded_year", "home_venue_id"}
             F == {<<"home_venue_id", "venues">>}
  <2>1. second["teams"] = Table(R, O, F, {}, {})
    BY NullableCitiesTables DEF ModelSchema, second
  <2>2. first["teams"] = WithoutColumn(WithRequired(second["teams"], "city"), "state")
    BY <1>1 DEF RequiredCities
  <2>3. /\ (R \cup {"city"}) \ {"state"} = {"id", "official_name", "short_name", "city"}
        /\ (O \ {"city"}) \ {"state"} = {"founded_year", "home_venue_id"}
    OBVIOUS
  <2> HIDE DEF R, O, F
  <2>4. WithRequired(second["teams"], "city") = Table(R \cup {"city"}, O \ {"city"}, F, {}, {})
    BY <2>1 DEF WithRequired, Table
  <2>5. first["teams"] = Table((R \cup {"city"}) \ {"state"}, (O \ {"city"}) \ {"state"},
                               F, {}, {})
    BY <2>2, <2>4 DEF WithoutColumn, Table
  <2> QED
    BY <2>3, <2>5 DEF InitialTables, F
<1>7. \A t \in InitialNames : first[t] = InitialTables[t]
  BY <1>4, <1>5, <1>6, NullableCitiesTables DEF second
<1> HIDE DEF first
<1> QED
  BY <1>2, <1>3, <1>7 DEF first, second

\* Each migration, up or down, turns one version's schema into the next one's.
LEMMA MigrationsFollowVersions ==
  ASSUME NEW v \in 0..2
  PROVE  /\ Upgraded(SchemaAt(v), v) = SchemaAt(v + 1)
         /\ Downgraded(SchemaAt(v + 1), v + 1) = SchemaAt(v)
<1>1. CASE v = 0
  <2>1. Upgraded(SchemaAt(0), 0) = SchemaAt(1)
    BY DEF Upgraded, SchemaAt
  <2>2. WithoutTables(InitialTables, DOMAIN InitialTables) = <<>>
    BY DEF WithoutTables
  <2>3. Downgraded(SchemaAt(1), 1) = SchemaAt(0)
    BY <2>2 DEF Downgraded, SchemaAt
  <2> QED
    BY <1>1, <2>1, <2>3
<1>2. CASE v = 1
  <2>1. Upgraded(SchemaAt(1), 1) = SchemaAt(2)
    BY DEF Upgraded, SchemaAt
  <2>2. Downgraded(SchemaAt(2), 2) = SchemaAt(1)
    BY RequiredCitiesUndoes DEF Downgraded, SchemaAt
  <2> QED
    BY <1>2, <2>1, <2>2
<1>3. CASE v = 2
  <2> DEFINE second == NullableCities(InitialTables)
  <2>1. Upgraded(SchemaAt(2), 2) = SchemaAt(3)
    BY DEF Upgraded, SchemaAt
  <2>2. WithoutTables(WithStats(second), {StatsTable}) = second
    <3>1. DOMAIN second = InitialNames /\ StatsTable \notin InitialNames
      BY TableNames
    <3>2. second = [t \in InitialNames |-> second[t]]
      BY <3>1, TableNames DEF NullableCities, InitialTables
    <3> HIDE DEF second
    <3> QED
      BY <3>1, <3>2 DEF WithoutTables, WithStats
  <2>3. Downgraded(SchemaAt(3), 3) = SchemaAt(2)
    BY <2>2 DEF Downgraded, SchemaAt
  <2> QED
    BY <1>3, <2>1, <2>3
<1> QED
  BY <1>1, <1>2, <1>3

\* Of the versions only the third has all the tables of the models.
LEMMA VersionTables ==
  /\ SchemaAt(3) = ModelSchema
  /\ \A v \in Versions : DOMAIN SchemaAt(v) \subseteq DOMAIN ModelSchema
  /\ \A v \in Versions : StatsTable \in DOMAIN SchemaAt(v) => v = 3
  /\ \A v \in Versions : v # 0 => InitialNames \subseteq DOMAIN SchemaAt(v)
<1>1. SchemaAt(3) = ModelSchema
  BY ThirdVersionIsModels DEF SchemaAt
<1>2. /\ DOMAIN SchemaAt(0) = {} /\ DOMAIN SchemaAt(1) = InitialNames
      /\ DOMAIN SchemaAt(2) = InitialNames
  BY TableNames DEF SchemaAt
<1>3. \A v \in Versions : v = 0 \/ v = 1 \/ v = 2 \/ v = 3
  BY DEF Versions, Latest
<1> QED
  BY <1>1, <1>2, <1>3, TableNames
-----------------------------------------------------------------------------
(* The version on record, and the rows *)

\* An import goes through, while the schema is a version's, only from the
\* second version on: it selects the clubs with their states.
LEMMA ImportsNeedCities ==
  ASSUME RevisionNamesSchema, counts.handChanges = 0, revision \in Versions,
         NEW importer \in Importers, NEW written, ~Breaks(importer, written)
  PROVE  revision >= 2
<1>1. schema = SchemaAt(revision)
  BY DEF RevisionNamesSchema
<1>2. "teams" \in Selects(importer)
  BY DEF Importers, Selects
<1>3. "teams" \in DOMAIN schema /\ "state" \in Columns(schema["teams"])
  <2>1. "state" \in Columns(ModelSchema["teams"])
    BY DEF ModelSchema, Columns, Table
  <2> QED
    BY <1>2, <2>1 DEF Breaks
<1>4. revision # 0
  BY <1>1, <1>3 DEF SchemaAt
<1>5. revision # 1
  <2>1. "state" \notin Columns(InitialTables["teams"])
    BY DEF InitialTables, Columns, Table
  <2> QED
    BY <1>1, <1>3, <2>1 DEF SchemaAt
<1> QED
  BY <1>4, <1>5 DEF Versions, Latest

\* Whatever an import writes, it writes clubs, or nothing but a season.
LEMMA ImportsWriteClubs ==
  ASSUME NEW importer \in Importers, NEW written \in Writes(importer)
  PROVE  /\ written \subseteq Selects(importer)
         /\ written \subseteq {"seasons"} \/ "teams" \in written
BY DEF Importers, Writes, Selects, StatsTable

\* What the migrations lock are tables of the models.
LEMMA TouchedTables ==
  ASSUME NEW from \in Versions, NEW to \in Versions, to = from + 1 \/ to = from - 1
  PROVE  /\ Touched(from, to) \subseteq DOMAIN ModelSchema
         /\ {from, to} = {1, 2} => "teams" \in Touched(from, to)
<1>1. \/ from = 0 /\ to = 1
      \/ from = 1 /\ to = 2
      \/ from = 2 /\ to = 3
      \/ from = 1 /\ to = 0
      \/ from = 2 /\ to = 1
      \/ from = 3 /\ to = 2
  BY DEF Versions, Latest
<1>2. \/ {from, to} = {0, 1}
      \/ {from, to} = {1, 2}
      \/ {from, to} = {2, 3}
  BY <1>1
<1>3. {0, 1} # {1, 2} /\ {0, 1} # {2, 3} /\ {1, 2} # {2, 3}
  OBVIOUS
<1>4. CASE {from, to} = {0, 1}
  BY <1>3, <1>4, TableNames DEF Touched
<1>5. CASE {from, to} = {1, 2}
  BY <1>3, <1>5, TableNames DEF Touched, InitialNames
<1>6. CASE {from, to} = {2, 3}
  BY <1>3, <1>6, TableNames DEF Touched, InitialNames
<1> QED
  BY <1>2, <1>4, <1>5, <1>6

\* The version on record and the one the command under way is at tell both
\* schemas, and rows other than those of seasons stand only from the second
\* version on.
MigrationInv ==
  /\ TypeOK
  /\ RevisionNamesSchema
  /\ MigratorKnowsSchema
  /\ RowsKeepCities

LEMMA MigrationInvInit == Init => MigrationInv
<1> SUFFICES ASSUME Init PROVE MigrationInv
  OBVIOUS
<1> USE DEF Init, NoMigrator, Idle, Versions, Latest, Stages
<1>1. TypeOK
  <2>1. DOMAIN schema = {}
    OBVIOUS
  <2>2. migrator \in [target : Versions, at : Versions, schema : {migrator.schema},
                      locked : SUBSET DOMAIN ModelSchema, busy : BOOLEAN]
    OBVIOUS
  <2>3. validator \in [at : Stages, todo : SUBSET ExpectedTables, matches : BOOLEAN,
                       passed : BOOLEAN]
    OBVIOUS
  <2>4. revision \in Versions /\ rows = {} /\ validator.at = "idle"
    OBVIOUS
  <2>5. counts \in [migrations : Nat, handChanges : Nat, validations : Nat]
    OBVIOUS
  <2>6. quiet \in BOOLEAN /\ sawHead \in BOOLEAN
    OBVIOUS
  <2> HIDE DEF Init, NoMigrator, Idle, Versions, Latest, Stages
  <2> QED
    BY <2>1, <2>2, <2>3, <2>4, <2>5, <2>6 DEF TypeOK
<1>2. RevisionNamesSchema
  BY DEF RevisionNamesSchema, SchemaAt
<1>3. MigratorKnowsSchema /\ RowsKeepCities
  BY DEF MigratorKnowsSchema, RowsKeepCities
<1> QED
  BY <1>1, <1>2, <1>3 DEF MigrationInv

\* What a command that begins knows.
LEMMA StartMigrationKeeps ==
  ASSUME MigrationInv, NEW target \in 0..Latest, StartMigration(target)
  PROVE  MigrationInv'
<1> USE DEF MigrationInv
<1>1. TypeOK'
  BY DEF TypeOK, StartMigration, Versions, Latest
<1>2. /\ counts.handChanges = 0 /\ counts'.handChanges = 0
      /\ migrator'.at = revision /\ migrator'.schema = schema
      /\ schema' = schema /\ revision' = revision /\ rows' = rows
  BY DEF TypeOK, StartMigration
<1>3. RevisionNamesSchema' /\ MigratorKnowsSchema'
  BY <1>2 DEF RevisionNamesSchema, MigratorKnowsSchema
<1>4. RowsKeepCities'
  BY <1>2 DEF TypeOK, RowsKeepCities, Versions, Latest
<1> QED
  BY <1>1, <1>3, <1>4

\* One migration: the private schema is the next version's, and the downgrade
\* to the first version finds no club.
LEMMA MigrationStepKeeps ==
  ASSUME MigrationInv, MigrationStep
  PROVE  MigrationInv'
<1> USE DEF MigrationInv
<1> DEFINE at == migrator.at
           to == Toward
<1>1. /\ at \in Versions /\ migrator.target \in Versions
      /\ to \in Versions
      /\ to = at + 1 \/ to = at - 1
      /\ to > at <=> to = at + 1
  BY DEF TypeOK, MigrationStep, Toward, Versions, Latest
<1>2. /\ migrator'.at = to
      /\ migrator'.schema = IF to > at THEN Upgraded(migrator.schema, at)
                                       ELSE Downgraded(migrator.schema, at)
      /\ migrator'.locked = migrator.locked \cup Touched(at, to)
      /\ migrator'.target = migrator.target
      /\ migrator'.busy = TRUE
      /\ migrator' = [target |-> migrator.target, at |-> to, schema |-> migrator'.schema,
                      locked |-> migrator.locked \cup Touched(at, to), busy |-> TRUE]
  BY DEF MigrationStep, TypeOK
<1>3. migrator.schema = SchemaAt(at) /\ counts.handChanges = 0
  BY DEF MigratorKnowsSchema, MigrationStep
<1>4. migrator'.schema = SchemaAt(to)
  <2>1. CASE to = at + 1
    BY <1>1, <1>2, <1>3, <2>1, MigrationsFollowVersions DEF Versions, Latest
  <2>2. CASE to = at - 1
    <3>1. to \in 0..2 /\ at = to + 1
      BY <1>1, <2>2 DEF Versions, Latest
    <3> QED
      BY <1>1, <1>2, <1>3, <2>2, <3>1, MigrationsFollowVersions
  <2> QED
    BY <1>1, <2>1, <2>2
<1>5. /\ Touched(at, to) \subseteq DOMAIN ModelSchema
      /\ {at, to} = {1, 2} => "teams" \in Touched(at, to)
  BY <1>1, TouchedTables
<1>6. TypeOK'
  <2>1. migrator' \in [target : Versions, at : Versions, schema : {migrator'.schema},
                       locked : SUBSET DOMAIN ModelSchema, busy : BOOLEAN]
    BY <1>1, <1>2, <1>5 DEF TypeOK
  <2> QED
    BY <2>1 DEF TypeOK, MigrationStep
<1>7. RevisionNamesSchema' /\ MigratorKnowsSchema'
  BY <1>2, <1>3, <1>4 DEF MigrationStep, RevisionNamesSchema, MigratorKnowsSchema
<1>8. RowsKeepCities'
  <2>1. rows' = rows /\ revision' = revision /\ counts' = counts /\ migrator.busy
    BY DEF MigrationStep
  <2>2. ASSUME to < 2
        PROVE  /\ rows \subseteq {"seasons"}
               /\ revision < 2 \/ "teams" \in migrator'.locked
    <3>1. CASE at < 2
      BY <1>2, <2>1, <3>1 DEF RowsKeepCities
    <3>2. CASE ~(at < 2)
      <4>1. at = 2 /\ to = 1
        BY <1>1, <2>2, <3>2 DEF Versions, Latest
      <4>2. CitylessTables = {}
        BY <4>1 DEF MigrationStep, RefusedByRows
      <4>3. rows \subseteq {"seasons"}
        BY <4>2 DEF CitylessTables, RowsKeepCities
      <4> QED
        BY <1>2, <1>5, <4>1, <4>3
    <3> QED
      BY <3>1, <3>2
  <2> QED
    BY <1>2, <2>1, <2>2 DEF RowsKeepCities
<1> QED
  BY <1>6, <1>7, <1>8

\* A commit makes the private schema and its version the database's.
LEMMA MigrationCommitKeeps ==
  ASSUME MigrationInv, MigrationCommit
  PROVE  MigrationInv'
<1> USE DEF MigrationInv
<1>1. /\ schema' = SchemaAt(revision') /\ revision' = migrator.at
      /\ revision' \in Versions
      /\ rows' = rows \cap DOMAIN schema'
      /\ ~migrator'.busy /\ counts' = counts /\ validator' = validator
  BY DEF MigrationCommit, MigratorKnowsSchema, TypeOK, NoMigrator
<1>2. TypeOK'
  <2>1. DOMAIN schema' \subseteq DOMAIN ModelSchema
    BY <1>1, VersionTables
  <2>2. migrator' \in [target : Versions, at : Versions, schema : {migrator'.schema},
                       locked : SUBSET DOMAIN ModelSchema, busy : BOOLEAN]
    BY DEF MigrationCommit, NoMigrator, Versions, Latest
  <2>3. quiet' \in BOOLEAN /\ sawHead' \in BOOLEAN
    BY DEF MigrationCommit, Observe, TypeOK
  <2> QED
    BY <1>1, <2>1, <2>2, <2>3 DEF TypeOK
<1>3. RevisionNamesSchema' /\ MigratorKnowsSchema'
  BY <1>1, VersionTables DEF RevisionNamesSchema, MigratorKnowsSchema, Latest
<1>4. RowsKeepCities'
  <2>1. CASE revision' < 2
    BY <1>1, <2>1 DEF RowsKeepCities, MigrationCommit
  <2>2. CASE ~(revision' < 2)
    <3>1. "teams" \in DOMAIN schema' /\ revision' >= 2
      BY <1>1, <2>2, VersionTables DEF InitialNames, Versions, Latest
    <3> QED
      BY <1>1, <3>1 DEF RowsKeepCities
  <2> QED
    BY <2>1, <2>2
<1> QED
  BY <1>2, <1>3, <1>4

\* An import finds the second version or a later one, and its clubs unlocked.
LEMMA ImportKeeps ==
  ASSUME MigrationInv, NEW importer \in Importers, Import(importer)
  PROVE  MigrationInv'
<1> USE DEF MigrationInv
<1>1. PICK written \in Writes(importer) :
        ~Breaks(importer, written) /\ rows' = rows \cup written
  BY DEF Import
<1>2. /\ UNCHANGED <<schema, revision, migrator, validator, counts, quiet, sawHead>>
      /\ Selects(importer) \cap migrator.locked = {}
  BY DEF Import
<1>3. /\ written \subseteq Selects(importer)
      /\ written \subseteq {"seasons"} \/ "teams" \in written
      /\ "teams" \in Selects(importer)
  BY <1>1, ImportsWriteClubs DEF Importers, Selects
<1>4. TypeOK'
  <2>1. Selects(importer) \subseteq DOMAIN schema
    BY <1>1 DEF Breaks
  <2> QED
    BY <1>1, <1>2, <1>3, <2>1 DEF TypeOK
<1>5. RevisionNamesSchema' /\ MigratorKnowsSchema'
  BY <1>2 DEF RevisionNamesSchema, MigratorKnowsSchema
<1>6. counts.handChanges = 0 => revision >= 2
  BY <1>1, ImportsNeedCities DEF TypeOK
<1>7. RowsKeepCities'
  <2>1. rows' \subseteq {"seasons"} \/ "teams" \in rows'
    BY <1>1, <1>3 DEF RowsKeepCities
  <2>2. ~(migrator.busy /\ migrator.at < 2)
    BY <1>2, <1>3, <1>6 DEF RowsKeepCities, MigratorKnowsSchema, TypeOK, Versions, Latest
  <2> QED
    BY <1>2, <1>6, <2>1, <2>2 DEF RowsKeepCities
<1> QED
  BY <1>4, <1>5, <1>7

\* Whatever is done by hand, rows keep their tables and the tables their names.
HandStep ==
  \/ \E t \in DOMAIN ModelSchema : ChangeByHand(t) \/ DropByHand(t)
  \/ CreateByHand

LEMMA HandStepKeepsTables ==
  ASSUME TypeOK, HandStep
  PROVE  /\ ByHand(schema')
         /\ DOMAIN schema' \subseteq DOMAIN ModelSchema \cup {Another}
         /\ rows \subseteq DOMAIN schema'
<1>1. CASE \E t \in DOMAIN ModelSchema : ChangeByHand(t)
  <2>1. PICK t \in DOMAIN ModelSchema : \E changed \in HandChanged(schema[t]) :
          ByHand([schema EXCEPT ![t] = changed])
    BY <1>1 DEF ChangeByHand
  <2>2. PICK changed \in HandChanged(schema[t]) : ByHand([schema EXCEPT ![t] = changed])
    BY <2>1
  <2>3. schema' = [schema EXCEPT ![t] = changed]
    BY <2>2 DEF ByHand
  <2> QED
    BY <2>2, <2>3 DEF TypeOK
<1>2. CASE \E t \in DOMAIN ModelSchema : DropByHand(t)
  <2>1. PICK t \in DOMAIN schema \ rows : ByHand(WithoutTables(schema, {t}))
    BY <1>2 DEF DropByHand
  <2>2. schema' = WithoutTables(schema, {t})
    BY <2>1 DEF ByHand
  <2> QED
    BY <2>1, <2>2 DEF TypeOK, WithoutTables
<1>3. CASE CreateByHand
  <2> DEFINE created == [t \in DOMAIN schema \cup {Another} |->
                           IF t = Another THEN Table({"id"}, {}, {}, {}, {}) ELSE schema[t]]
  <2>1. ByHand(created)
    BY <1>3 DEF CreateByHand
  <2>2. schema' = created
    BY <2>1 DEF ByHand
  <2> QED
    BY <2>1, <2>2 DEF TypeOK
<1> QED
  BY <1>1, <1>2, <1>3 DEF HandStep

\* After a change by hand no version is claimed.
LEMMA HandStepKeeps ==
  ASSUME MigrationInv, HandStep
  PROVE  MigrationInv'
<1> USE DEF MigrationInv
<1>1. /\ counts' = [counts EXCEPT !.handChanges = @ + 1]
      /\ UNCHANGED <<revision, rows, migrator, validator>>
      /\ ~migrator.busy
      /\ DOMAIN schema' \subseteq DOMAIN ModelSchema \cup {Another}
      /\ rows \subseteq DOMAIN schema'
      /\ quiet' \in BOOLEAN /\ sawHead' \in BOOLEAN
  BY HandStepKeepsTables DEF ByHand, Observe, TypeOK
<1>2. counts' \in [migrations : Nat, handChanges : Nat, validations : Nat]
      /\ counts'.handChanges # 0
  BY <1>1 DEF TypeOK
<1>3. TypeOK'
  BY <1>1, <1>2 DEF TypeOK
<1>4. RevisionNamesSchema' /\ MigratorKnowsSchema' /\ RowsKeepCities'
  BY <1>1, <1>2 DEF RevisionNamesSchema, MigratorKnowsSchema, RowsKeepCities
<1> QED
  BY <1>3, <1>4

\* The steps of the validator only read.
ValidatorStep == CheckTables \/ CheckColumns \/ CheckForeignKeys \/ CheckUniques \/ Report

LEMMA ValidatorStepKeeps ==
  ASSUME MigrationInv, ValidatorStep
  PROVE  MigrationInv'
<1> USE DEF MigrationInv
<1>1. /\ UNCHANGED <<schema, revision, rows, migrator>>
      /\ counts'.handChanges = counts.handChanges
      /\ counts' \in [migrations : Nat, handChanges : Nat, validations : Nat]
      /\ quiet' \in BOOLEAN /\ sawHead' \in BOOLEAN
  <2>1. CASE CheckTables
    BY <2>1 DEF CheckTables, TypeOK
  <2>2. CASE CheckColumns \/ CheckForeignKeys
    BY <2>2 DEF CheckColumns, CheckForeignKeys, Check, TypeOK
  <2>3. CASE CheckUniques \/ Report
    BY <2>3 DEF CheckUniques, Report, TypeOK
  <2> QED
    BY <2>1, <2>2, <2>3 DEF ValidatorStep
<1>2. /\ validator' \in [at : Stages, todo : SUBSET ExpectedTables, matches : BOOLEAN,
                         passed : BOOLEAN]
      /\ validator'.at \in {"references", "uniques"} => validator'.todo # {}
  <2>1. CASE CheckTables
    BY <2>1 DEF CheckTables, Stages
  <2>2. CASE CheckColumns
    BY <2>2 DEF CheckColumns, Check, TypeOK, Stages
  <2>3. CASE CheckForeignKeys
    BY <2>3 DEF CheckForeignKeys, Check, TypeOK, Stages
  <2>4. CASE CheckUniques
    BY <2>4 DEF CheckUniques, TypeOK, Stages
  <2>5. CASE Report
    BY <2>5 DEF Report, TypeOK, Stages
  <2> QED
    BY <2>1, <2>2, <2>3, <2>4, <2>5 DEF ValidatorStep
<1>3. TypeOK'
  BY <1>1, <1>2 DEF TypeOK
<1>4. RevisionNamesSchema' /\ MigratorKnowsSchema' /\ RowsKeepCities'
  BY <1>1 DEF RevisionNamesSchema, MigratorKnowsSchema, RowsKeepCities
<1> QED
  BY <1>3, <1>4

LEMMA MigrationInvStep == MigrationInv /\ [Next]_vars => MigrationInv'
<1> SUFFICES ASSUME MigrationInv, [Next]_vars PROVE MigrationInv'
  OBVIOUS
<1>1. CASE \E target \in 0..Latest : StartMigration(target)
  BY <1>1, StartMigrationKeeps
<1>2. CASE MigrationStep
  BY <1>2, MigrationStepKeeps
<1>3. CASE MigrationRollback
  <2>1. migrator' \in [target : Versions, at : Versions, schema : {migrator'.schema},
                       locked : SUBSET DOMAIN ModelSchema, busy : BOOLEAN]
    BY <1>3 DEF MigrationRollback, NoMigrator, Versions, Latest
  <2>2. ~migrator'.busy
    BY <1>3 DEF MigrationRollback, NoMigrator
  <2> QED
    BY <1>3, <2>1, <2>2 DEF MigrationRollback, MigrationInv, TypeOK, RevisionNamesSchema,
                            MigratorKnowsSchema, RowsKeepCities
<1>4. CASE MigrationCommit
  BY <1>4, MigrationCommitKeeps
<1>5. CASE \E importer \in Importers : Import(importer)
  BY <1>5, ImportKeeps
<1>6. CASE HandStep
  BY <1>6, HandStepKeeps
<1>7. CASE ValidatorStep
  BY <1>7, ValidatorStepKeeps
<1>8. CASE AllDone \/ UNCHANGED vars
  BY <1>8 DEF AllDone, vars, MigrationInv, TypeOK, RevisionNamesSchema,
              MigratorKnowsSchema, RowsKeepCities
<1> QED
  BY <1>1, <1>2, <1>3, <1>4, <1>5, <1>6, <1>7, <1>8 DEF Next, HandStep, ValidatorStep

\* At every moment the inductive invariant holds.
THEOREM MigrationInvariant == Spec => []MigrationInv
BY MigrationInvInit, MigrationInvStep, PTL DEF Spec

\* The state keeps its shape, and rows stand only in tables.
THEOREM MigrationTypes == Spec => []TypeOK
<1>1. MigrationInv => TypeOK
  BY DEF MigrationInv
<1> QED
  BY <1>1, MigrationInvariant, PTL

\* Whatever migrations were applied, undone, failed or killed, the version on
\* record tells the schema, and the last version is the models'.
THEOREM RevisionIsSchema == Spec => []RevisionNamesSchema
<1>1. MigrationInv => RevisionNamesSchema
  BY DEF MigrationInv
<1> QED
  BY <1>1, MigrationInvariant, PTL

\* No migration, up or down, loses a club or a fixture, nor a season that has
\* any.
THEOREM RowsSurviveMigrations == Spec => ClubsAndFixturesSurvive
<1> DEFINE Kept == rows \subseteq {"seasons"} \/ rows \ {StatsTable} \subseteq rows'
<1>1. ASSUME MigrationInv, [Next]_vars
      PROVE  [Kept]_vars
  <2>1. CASE MigrationCommit
    <3>1. /\ rows' = rows \cap DOMAIN SchemaAt(migrator.at)
          /\ migrator.at \in Versions
          /\ rows \subseteq InitialNames \cup {StatsTable}
      <4>1. schema = SchemaAt(revision) /\ revision \in Versions
        BY <1>1, <2>1 DEF MigrationInv, MigrationCommit, MigratorKnowsSchema,
           RevisionNamesSchema, TypeOK
      <4>2. rows \subseteq InitialNames \cup {StatsTable}
        BY <1>1, <4>1, TableNames, VersionTables DEF MigrationInv, TypeOK
      <4> QED
        BY <1>1, <2>1, <4>2 DEF MigrationInv, MigrationCommit, MigratorKnowsSchema, TypeOK
    <3>2. CASE migrator.at < 2
      <4>1. rows \subseteq {"seasons"}
        BY <1>1, <2>1, <3>2 DEF MigrationInv, RowsKeepCities, MigrationCommit
      <4> QED
        BY <4>1
    <3>3. CASE ~(migrator.at < 2)
      <4>1. InitialNames \subseteq DOMAIN SchemaAt(migrator.at)
        BY <3>1, <3>3, VersionTables DEF Versions, Latest
      <4> QED
        BY <3>1, <4>1
    <3> QED
      BY <3>2, <3>3
  <2>2. CASE \E importer \in Importers : Import(importer)
    BY <2>2 DEF Import
  <2>3. CASE ~MigrationCommit /\ ~(\E importer \in Importers : Import(importer))
    <3>1. rows' = rows
      BY <1>1, <2>3 DEF Next, vars, StartMigration, MigrationStep, MigrationRollback,
           ChangeByHand, DropByHand, CreateByHand, ByHand, CheckTables, CheckColumns, CheckForeignKeys, CheckUniques,
           Report, Check, AllDone
    <3> QED
      BY <3>1
  <2> QED
    BY <2>1, <2>2, <2>3
<1> QED
  BY <1>1, MigrationInvariant, PTL DEF Spec, ClubsAndFixturesSurvive

-----------------------------------------------------------------------------
(* A passing report has seen the models' schema *)

ExpectedNames == InitialNames \cup {StatsTable}

\* The validator looks for the tables of the models.
LEMMA ExpectedTablesAreModels == ExpectedTables = ExpectedNames
<1>1. ExpectedTables = {"match_external_ids", "matches", "season_teams", "seasons",
                        "team_external_ids", "team_season_stats_raw", "teams", "venues"}
  <2>1. DOMAIN SortedTables = 1..8
    BY DEF SortedTables
  <2>2. 1..8 = {1, 2, 3, 4, 5, 6, 7, 8}
    OBVIOUS
  <2>3. /\ SortedTables[1] = "match_external_ids" /\ SortedTables[2] = "matches"
        /\ SortedTables[3] = "season_teams" /\ SortedTables[4] = "seasons"
        /\ SortedTables[5] = "team_external_ids"
        /\ SortedTables[6] = "team_season_stats_raw"
        /\ SortedTables[7] = "teams" /\ SortedTables[8] = "venues"
    BY DEF SortedTables
  <2> QED
    BY <2>1, <2>2, <2>3 DEF ExpectedTables
<1> QED
  BY <1>1 DEF ExpectedNames, InitialNames, StatsTable

\* While the verdict stands and no one changes the schema by hand, the models'
\* schema has been there since the validation began.
PassingSawHead ==
  validator.at # "idle" /\ validator.passed /\ counts.handChanges = 0 => sawHead

LEMMA PassingSawHeadStep ==
  ASSUME MigrationInv, PassingSawHead, [Next]_vars
  PROVE  PassingSawHead'
<1> USE DEF MigrationInv
<1>1. CASE CheckTables
  <2> SUFFICES ASSUME validator'.passed, counts'.handChanges = 0
               PROVE  sawHead'
    BY DEF PassingSawHead
  <2>1. StatsTable \in DOMAIN schema /\ counts.handChanges = 0
    BY <1>1, ExpectedTablesAreModels DEF CheckTables, TypeOK, ExpectedNames
  <2>2. schema = ModelSchema
    BY <2>1, VersionTables DEF RevisionNamesSchema, TypeOK
  <2> QED
    BY <1>1, <2>2 DEF CheckTables
<1>2. CASE MigrationCommit
  BY <1>2 DEF MigrationCommit, Observe, PassingSawHead
<1>3. CASE HandStep
  BY <1>3, HandStepKeepsTables DEF ByHand, TypeOK, PassingSawHead
<1>4. CASE CheckColumns \/ CheckForeignKeys \/ CheckUniques \/ Report
  <2>1. /\ validator.at # "idle"
        /\ validator'.passed => validator.passed
        /\ UNCHANGED <<counts, sawHead>>
    BY <1>4 DEF CheckColumns, CheckForeignKeys, Check, CheckUniques, Report, TypeOK
  <2> QED
    BY <2>1 DEF PassingSawHead
<1>5. CASE \E target \in 0..Latest : StartMigration(target)
  BY <1>5 DEF StartMigration, TypeOK, PassingSawHead
<1>6. CASE \/ MigrationStep \/ MigrationRollback \/ AllDone \/ UNCHANGED vars
           \/ \E importer \in Importers : Import(importer)
  BY <1>6 DEF MigrationStep, MigrationRollback, AllDone, vars, Import, PassingSawHead
<1> QED
  BY <1>1, <1>2, <1>3, <1>4, <1>5, <1>6 DEF Next, HandStep

\* If the report passes, whatever migrated between its statements, the schema
\* was the models' at one moment of the validation.
THEOREM PassingReportSawHead == Spec => []PassedOnlyAtHead
<1>1. Init => PassingSawHead
  BY DEF Init, Idle, PassingSawHead
<1>2. MigrationInv /\ PassingSawHead /\ [Next]_vars => PassingSawHead'
  BY PassingSawHeadStep
<1>3. PassingSawHead => PassedOnlyAtHead
  BY DEF PassingSawHead, PassedOnlyAtHead
<1> QED
  BY <1>1, <1>2, <1>3, MigrationInvariant, PTL DEF Spec

-----------------------------------------------------------------------------
(* The verdict on a schema at rest *)

Agrees(t) == ColumnsAgree(t) /\ ReferencesAgree(t) /\ UniquesAgree(t)

\* Nothing that the validator looks at in the tables is wrong or doubtful.
Clean ==
  /\ ExpectedTables \subseteq DOMAIN schema
  /\ \A t \in ExpectedTables : Agrees(t) /\ ~RivalReferences(t)

\* The verdict so far: it stands only if all that was looked at agrees, and it
\* does stand if there is nothing to find.
VerdictSoFar ==
  quiet =>
    /\ validator.at # "idle"
    /\ validator.at \in {"columns", "references", "uniques"} =>
         /\ validator.matches <=> "matches" \in DOMAIN schema
         /\ validator.passed =>
              /\ ExpectedTables \subseteq DOMAIN schema
              /\ \A t \in ExpectedTables \ validator.todo : Agrees(t)
              /\ validator.at \in {"references", "uniques"} => ColumnsAgree(Current)
              /\ validator.at = "uniques" => ReferencesAgree(Current)
         /\ Clean => validator.passed
    /\ validator.at = "done" =>
         /\ validator.passed =>
              /\ ExpectedTables \subseteq DOMAIN schema
              /\ \A t \in ExpectedTables : Agrees(t)
              /\ HomeAwayChecked
         /\ Clean /\ HomeAwayChecked => validator.passed

\* The validator expects of a table of the models what the models declare, but
\* for its CHECKs.
OfTheModels(t) ==
  LET model == ModelSchema[t] IN
  /\ ExpectedSchema[t].required = model.required
  /\ ExpectedSchema[t].optional = model.optional
  /\ ExpectedSchema[t].refs = model.refs
  /\ ExpectedSchema[t].uniques = model.uniques
  /\ model.checks \ Unnoticed = IF t = "matches" THEN {"home and away distinct"} ELSE {}

LEMMA ModelTables == \A t \in DOMAIN ModelSchema : OfTheModels(t)
<1>1. OfTheModels("seasons")
  BY DEF OfTheModels, ModelSchema, ExpectedSchema, Expected, Links, Table
<1>2. OfTheModels("venues")
  BY DEF OfTheModels, ModelSchema, ExpectedSchema, Expected, Links, Table
<1>3. OfTheModels("teams")
  BY DEF OfTheModels, ModelSchema, ExpectedSchema, Expected, Links, Table
<1>4. OfTheModels("matches")
  <2>1. ModelSchema["matches"].checks \ Unnoticed = {"home and away distinct"}
    BY DEF ModelSchema, Table, Unnoticed
  <2> DEFINE model == ModelSchema["matches"]
             expected == ExpectedSchema["matches"]
  <2>2. /\ expected.required = model.required /\ expected.optional = model.optional
        /\ expected.refs = model.refs /\ expected.uniques = model.uniques
    BY DEF ModelSchema, ExpectedSchema, Expected, Table
  <2> QED
    BY <2>1, <2>2 DEF OfTheModels
<1>5. OfTheModels("season_teams")
  BY DEF OfTheModels, ModelSchema, ExpectedSchema, Expected, Links, Table
<1>6. OfTheModels("team_external_ids")
  BY DEF OfTheModels, ModelSchema, ExpectedSchema, Expected, Links, Table
<1>7. OfTheModels("match_external_ids")
  BY DEF OfTheModels, ModelSchema, ExpectedSchema, Expected, Links, Table
<1>8. OfTheModels("team_season_stats_raw")
  BY DEF OfTheModels, ModelSchema, ExpectedSchema, Expected, Links, Table
<1> QED
  BY <1>1, <1>2, <1>3, <1>4, <1>5, <1>6, <1>7, <1>8, TableNames DEF InitialNames, StatsTable

\* The loop is at one of the tables it has left.
LEMMA FirstIsAmong ==
  ASSUME NEW tables \in SUBSET ExpectedTables, tables # {}
  PROVE  FirstOf(tables) \in tables
<1> DEFINE First(i) == /\ SortedTables[i] \in tables
                       /\ \A j \in 1..(i - 1) : SortedTables[j] \notin tables
<1>1. DOMAIN SortedTables = 1..8
  BY DEF SortedTables
<1>2. \E i \in 1..8 : SortedTables[i] \in tables
  BY <1>1 DEF ExpectedTables
<1> HIDE DEF First
<1>3. \E i \in 1..8 : First(i)
  <2>1. CASE SortedTables[1] \in tables
    BY <2>1 DEF First
  <2>2. CASE SortedTables[1] \notin tables /\ SortedTables[2] \in tables
    BY <2>2 DEF First
  <2> QED
    BY <1>2, <2>1, <2>2 DEF First
<1> QED
  BY <1>1, <1>3 DEF FirstOf, First

\* What the validator would find changes with the schema only.
LEMMA FindingsKept ==
  ASSUME schema' = schema
  PROVE  /\ Clean' <=> Clean
         /\ HomeAwayChecked' <=> HomeAwayChecked
         /\ \A t \in ExpectedTables :
              /\ Agrees(t)' <=> Agrees(t)
              /\ ColumnsAgree(t)' <=> ColumnsAgree(t)
              /\ ReferencesAgree(t)' <=> ReferencesAgree(t)
BY DEF Clean, HomeAwayChecked, Agrees, ColumnsAgree, ReferencesAgree, UniquesAgree,
       RivalReferences, Found

\* A step that leaves the schema and the validator alone leaves the verdict.
LEMMA VerdictKept ==
  ASSUME TypeOK, VerdictSoFar, quiet' => quiet /\ UNCHANGED <<schema, validator>>
  PROVE  VerdictSoFar'
<1> SUFFICES ASSUME quiet' PROVE VerdictSoFar'
  BY DEF VerdictSoFar
<1>1. /\ schema' = schema /\ validator' = validator /\ quiet
      /\ Current' = Current
      /\ validator.at \in {"references", "uniques"} => Current \in ExpectedTables
  BY FirstIsAmong DEF Current, TypeOK
<1> QED
  BY <1>1, FindingsKept DEF VerdictSoFar

LEMMA VerdictStep ==
  ASSUME MigrationInv, VerdictSoFar, [Next]_vars
  PROVE  VerdictSoFar'
<1> USE DEF MigrationInv
<1>0. /\ validator \in [at : Stages, todo : SUBSET ExpectedTables, matches : BOOLEAN,
                        passed : BOOLEAN]
      /\ quiet \in BOOLEAN
      /\ validator.todo # {} => Current \in validator.todo
  BY FirstIsAmong DEF TypeOK, Current
<1> DEFINE Rest == ExpectedTables \ validator.todo
           All  == ExpectedTables \subseteq DOMAIN schema
<1>1. CASE CheckTables
  <2>1. /\ schema' = schema
        /\ validator' = [at |-> "columns", todo |-> ExpectedTables \cap DOMAIN schema,
                         matches |-> "matches" \in DOMAIN schema, passed |-> All]
    BY <1>1 DEF CheckTables
  <2>2. All => ExpectedTables \ validator'.todo = {}
    BY <2>1
  <2>3. Clean => All
    BY DEF Clean
  <2> QED
    BY <2>1, <2>2, <2>3, FindingsKept DEF VerdictSoFar
<1>2. CASE CheckColumns
  <2>1. /\ UNCHANGED <<schema, quiet>>
        /\ validator.at = "columns" /\ validator'.at = "references"
        /\ validator'.todo = validator.todo /\ validator'.matches = validator.matches
        /\ validator'.passed <=> validator.passed /\ ColumnsAgree(Current)
        /\ Current' = Current /\ Current \in ExpectedTables
    BY <1>0, <1>2 DEF CheckColumns, Check, Current
  <2>2. Clean => ColumnsAgree(Current)
    BY <2>1 DEF Clean, Agrees
  <2> QED
    BY <2>1, <2>2, FindingsKept DEF VerdictSoFar
<1>3. CASE CheckForeignKeys
  <2>1. /\ UNCHANGED <<schema, quiet>>
        /\ validator.at = "references" /\ validator'.at = "uniques"
        /\ validator'.todo = validator.todo /\ validator'.matches = validator.matches
        /\ validator'.passed => validator.passed /\ ReferencesAgree(Current)
        /\ validator.passed /\ ReferencesAgree(Current) /\ ~RivalReferences(Current)
             => validator'.passed
        /\ Current' = Current /\ Current \in ExpectedTables
    BY <1>0, <1>3 DEF CheckForeignKeys, Check, Current
  <2>2. Clean => ReferencesAgree(Current) /\ ~RivalReferences(Current)
    BY <2>1 DEF Clean, Agrees
  <2> QED
    BY <2>1, <2>2, FindingsKept DEF VerdictSoFar
<1>4. CASE CheckUniques
  <2>1. /\ UNCHANGED <<schema, quiet>>
        /\ validator.at = "uniques" /\ validator'.at = "columns"
        /\ validator'.todo = validator.todo \ {Current}
        /\ validator'.matches = validator.matches
        /\ validator'.passed <=> validator.passed /\ UniquesAgree(Current)
        /\ Current \in validator.todo
    BY <1>0, <1>4 DEF CheckUniques
  <2>2. ExpectedTables \ validator'.todo = Rest \cup {Current} /\ Current \in ExpectedTables
    BY <1>0, <2>1
  <2>3. Clean => UniquesAgree(Current)
    BY <2>2 DEF Clean, Agrees
  <2>4. quiet /\ validator'.passed => Agrees(Current)
    BY <2>1 DEF Agrees, VerdictSoFar
  <2> QED
    BY <2>1, <2>2, <2>3, <2>4, FindingsKept DEF VerdictSoFar
<1>5. CASE Report
  <2>1. /\ UNCHANGED <<schema, quiet>>
        /\ validator.at = "columns" /\ validator'.at = "done" /\ Rest = ExpectedTables
        /\ validator'.passed <=> /\ validator.passed
                                 /\ validator.matches => HomeAwayChecked
    BY <1>0, <1>5 DEF Report
  <2>2. "matches" \in ExpectedTables
    BY ExpectedTablesAreModels DEF ExpectedNames, InitialNames
  <2> QED
    BY <2>1, <2>2, FindingsKept DEF VerdictSoFar
<1>6. CASE MigrationCommit
  BY <1>6, VerdictKept DEF MigrationCommit, Observe
<1>7. CASE HandStep
  BY <1>7, HandStepKeepsTables, VerdictKept DEF ByHand, Observe
<1>8. CASE \/ \E target \in 0..Latest : StartMigration(target)
           \/ \E importer \in Importers : Import(importer)
           \/ MigrationStep \/ MigrationRollback \/ AllDone \/ UNCHANGED vars
  BY <1>8, VerdictKept DEF StartMigration, Import, MigrationStep, MigrationRollback,
     AllDone, vars
<1> QED
  BY <1>1, <1>2, <1>3, <1>4, <1>5, <1>6, <1>7, <1>8 DEF Next, HandStep

\* What the validator looks at agrees exactly where all that the models declare
\* is there.
LEMMA AgreementIsExact ==
  (/\ ExpectedTables \subseteq DOMAIN schema
   /\ \A t \in ExpectedTables : Agrees(t)
   /\ HomeAwayChecked)
  <=> Meets(schema, Unnoticed)
<1>1. ExpectedTables = DOMAIN ModelSchema /\ "matches" \in ExpectedTables
  BY ExpectedTablesAreModels, TableNames DEF ExpectedNames, InitialNames
<1>2. ASSUME NEW t \in ExpectedTables, t \in DOMAIN schema
      PROVE  Agrees(t) <=>
               /\ ModelSchema[t].required \subseteq schema[t].required
               /\ ModelSchema[t].optional \subseteq schema[t].optional
               /\ ModelSchema[t].refs \subseteq schema[t].refs
               /\ ModelSchema[t].uniques \subseteq schema[t].uniques
  <2>1. OfTheModels(t) /\ Found(t) = schema[t]
    BY <1>1, <1>2, ModelTables DEF Found
  <2> QED
    BY <2>1 DEF OfTheModels, Agrees, ColumnsAgree, ReferencesAgree, UniquesAgree
<1>3. ASSUME ExpectedTables \subseteq DOMAIN schema
      PROVE  HomeAwayChecked <=>
               \A t \in ExpectedTables : ModelSchema[t].checks \ Unnoticed \subseteq schema[t].checks
  <2>1. Found("matches") = schema["matches"]
    BY <1>1, <1>3 DEF Found
  <2>2. \A t \in ExpectedTables :
          ModelSchema[t].checks \ Unnoticed
            = IF t = "matches" THEN {"home and away distinct"} ELSE {}
    BY <1>1, ModelTables DEF OfTheModels
  <2> QED
    BY <1>1, <2>1, <2>2 DEF HomeAwayChecked
<1> QED
  BY <1>1, <1>2, <1>3 DEF Meets

\* Of a schema at rest, after any changes by hand, the report passes only if all
\* that the models declare is there, but for the two CHECKs it does not look
\* for, and it does pass then unless a column has a second foreign key.
THEOREM ReportIsExact == Spec => []VerdictIsExact
<1>1. Init => VerdictSoFar
  BY DEF Init, VerdictSoFar
<1>2. MigrationInv /\ VerdictSoFar /\ [Next]_vars => VerdictSoFar'
  BY VerdictStep
<1>3. VerdictSoFar => VerdictIsExact
  BY AgreementIsExact DEF VerdictSoFar, VerdictIsExact, Clean
<1> QED
  BY <1>1, <1>2, <1>3, MigrationInvariant, PTL DEF Spec
=============================================================================
