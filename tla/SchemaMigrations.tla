-------------------------- MODULE SchemaMigrations --------------------------
(***************************************************************************)
(* The three migrations of alembic/versions, run by alembic/env.py, the    *)
(* models the importers use, and src/data/schema_validation.py, which      *)
(* compares what is in the database with a list of its own.  The schema is *)
(* thus written down three times.                                          *)
(*                                                                         *)
(* A table is its NOT NULL and its nullable columns, its foreign keys      *)
(* <<column, table>>, its UNIQUE column sets and its CHECKs.  Column types *)
(* and plain indexes are left out: nothing here looks at them.  So are the *)
(* primary keys, on which all three agree, and the names of constraints.   *)
(***************************************************************************)
EXTENDS Naturals, Sequences, FiniteSets

CONSTANTS MaxMigrations, MaxHandChanges, MaxValidations,   \* bounds
          HandColumns   \* bound: columns dropped or made UNIQUE by hand

ASSUME MigrationsAssumption ==
  /\ MaxMigrations \in Nat
  /\ MaxHandChanges \in Nat
  /\ MaxValidations \in Nat

VARIABLES schema,    \* the tables in the database
          revision,  \* alembic_version: how many migrations are applied
          rows,      \* the tables that hold rows
          migrator,  \* the alembic command under way
          validator, \* the validate_schema under way
          counts,    \* of migrations, hand changes, validations, for the bounds
          quiet,     \* history: the schema has not changed since validation began
          sawHead    \* history: it has been the models' since validation began

vars == <<schema, revision, rows, migrator, validator, counts, quiet, sawHead>>

Table(required, optional, refs, uniques, checks) ==
  [required |-> required, optional |-> optional, refs |-> refs,
   uniques |-> uniques, checks |-> checks]

Columns(table) == table.required \cup table.optional

Links(entity, entities) ==
  Table({"id", entity, "source", "external_id"}, {}, {<<entity, entities>>},
        {{entity, "source"}, {"source", "external_id"}}, {})

-----------------------------------------------------------------------------
(* The migrations *)

InitialTables ==
  [seasons |-> Table({"id", "year", "start_date", "status"}, {"end_date"}, {}, {{"year"}}, {}),
   venues |-> Table({"id", "name", "city"},
                    {"capacity", "latitude", "longitude", "altitude_meters"}, {}, {}, {}),
   teams |-> Table({"id", "official_name", "short_name", "city"},
                   {"founded_year", "home_venue_id"},
                   {<<"home_venue_id", "venues">>}, {}, {}),
   matches |-> Table(
     {"id", "season_id", "matchday", "scheduled_at", "home_team_id",
      "away_team_id", "status", "result_type", "leg"},
     {"venue_id", "replay_of_match_id", "home_score", "away_score"},
     {<<"season_id", "seasons">>, <<"home_team_id", "teams">>,
      <<"away_team_id", "teams">>, <<"venue_id", "venues">>,
      <<"replay_of_match_id", "matches">>},
     {{"season_id", "matchday", "home_team_id", "away_team_id", "leg"}},
     {"result_type valid", "status valid", "home and away distinct"}),
   season_teams |-> Table({"id", "season_id", "team_id"}, {"confirmed_at", "source"},
                          {<<"season_id", "seasons">>, <<"team_id", "teams">>},
                          {{"season_id", "team_id"}}, {}),
   team_external_ids |-> Links("team_id", "teams"),
   match_external_ids |-> Links("match_id", "matches")]

WithNullable(table, column) ==
  Table(table.required \ {column}, table.optional \cup {column},
        table.refs, table.uniques, table.checks)
WithRequired(table, column) ==
  Table(table.required \cup {column}, table.optional \ {column},
        table.refs, table.uniques, table.checks)
WithoutColumn(table, column) ==
  Table(table.required \ {column}, table.optional \ {column},
        table.refs, table.uniques, table.checks)

\* 8710345d53dc
NullableCities(s) ==
  [s EXCEPT !["teams"] = WithNullable(WithNullable(@, "state"), "city"),
            !["venues"] = WithNullable(@, "city")]

RequiredCities(s) ==
  [s EXCEPT !["venues"] = WithRequired(@, "city"),
            !["teams"] = WithoutColumn(WithRequired(@, "city"), "state")]

\* e4ee33db31c0
StatsTable == "team_season_stats_raw"

WithStats(s) ==
  [t \in DOMAIN s \cup {StatsTable} |->
     IF t = StatsTable
       THEN Table({"id", "team_id", "season_id", "source", "raw_json", "fetched_at"}, {},
                  {<<"season_id", "seasons">>, <<"team_id", "teams">>},
                  {{"team_id", "season_id", "source"}}, {})
       ELSE s[t]]

WithoutTables(s, tables) == [t \in DOMAIN s \ tables |-> s[t]]

Latest == 3

Upgraded(s, from) ==
  CASE from = 0 -> InitialTables
    [] from = 1 -> NullableCities(s)
    [] from = 2 -> WithStats(s)

Downgraded(s, from) ==
  CASE from = 1 -> WithoutTables(s, DOMAIN InitialTables)
    [] from = 2 -> RequiredCities(s)
    [] from = 3 -> WithoutTables(s, {StatsTable})

\* The tables a migration locks, for it alters, drops or refers to them.
Touched(from, to) ==
  CASE {from, to} = {0, 1} -> DOMAIN InitialTables
    [] {from, to} = {1, 2} -> {"teams", "venues"}
    [] {from, to} = {2, 3} -> {StatsTable, "seasons", "teams"}

\* Every row the importers write has no city.
CitylessTables == rows \cap {"teams", "venues"}

\* Faulty variant: the downgrade does not look at the rows.
NeverRefused(from, to) == FALSE

\* SET NOT NULL fails over a NULL.
RefusedByRows(from, to) == from = 2 /\ to = 1 /\ CitylessTables # {}

-----------------------------------------------------------------------------
(* The models, src/data/models.py *)

ModelSchema ==
  [seasons |-> Table({"id", "year", "start_date", "status"}, {"end_date"}, {}, {{"year"}}, {}),
   venues |-> Table({"id", "name"}, {"city", "capacity", "latitude", "longitude",
                                     "altitude_meters"}, {}, {}, {}),
   teams |-> Table({"id", "official_name", "short_name"},
                   {"city", "state", "founded_year", "home_venue_id"},
                   {<<"home_venue_id", "venues">>}, {}, {}),
   season_teams |-> Table({"id", "season_id", "team_id"}, {"confirmed_at", "source"},
                          {<<"season_id", "seasons">>, <<"team_id", "teams">>},
                          {{"season_id", "team_id"}}, {}),
   matches |-> Table(
     {"id", "season_id", "matchday", "scheduled_at", "home_team_id",
      "away_team_id", "status", "result_type", "leg"},
     {"venue_id", "replay_of_match_id", "home_score", "away_score"},
     {<<"season_id", "seasons">>, <<"home_team_id", "teams">>,
      <<"away_team_id", "teams">>, <<"venue_id", "venues">>,
      <<"replay_of_match_id", "matches">>},
     {{"season_id", "matchday", "home_team_id", "away_team_id", "leg"}},
     {"home and away distinct", "status valid", "result_type valid"}),
   team_external_ids |-> Links("team_id", "teams"),
   match_external_ids |-> Links("match_id", "matches"),
   team_season_stats_raw |-> Table(
     {"id", "team_id", "season_id", "source", "raw_json", "fetched_at"}, {},
     {<<"team_id", "teams">>, <<"season_id", "seasons">>},
     {{"team_id", "season_id", "source"}}, {})]

\* The tables each importer reads, and those it may leave rows in.
Importers == {"mapper", "bootstrap", "ingest"}

Selects(importer) ==
  CASE importer = "mapper" -> {"seasons", "teams", "venues", "matches",
                               "team_external_ids", "match_external_ids"}
    [] importer = "bootstrap" -> {"seasons", "teams", "venues", "matches", "season_teams"}
    [] importer = "ingest" -> {"seasons", "teams", "team_external_ids", StatsTable}

\* What an import that writes has added rows to, from an empty database on.  Of
\* a report in which no fixture has a matchday the mapper keeps the season
\* alone; the provider may have no venues, and no statistics.
Writes(importer) ==
  CASE importer = "mapper" -> {Selects(importer), Selects(importer) \ {"venues"}, {"seasons"}}
    [] importer = "bootstrap" -> {Selects(importer)}
    [] importer = "ingest" ->
         IF "seasons" \in rows THEN {Selects(importer), Selects(importer) \ {StatsTable}}
                               ELSE {}

\* The nullable columns no importer fills.
LeftNull == {"city", "founded_year", "home_venue_id", "capacity", "latitude", "longitude",
             "altitude_meters", "replay_of_match_id", "confirmed_at"}

\* A SELECT names every column of the model; an INSERT names them too, but
\* leaves some NULL.
Breaks(importer, written) ==
  \/ \E t \in Selects(importer) :
       t \notin DOMAIN schema \/ ~(Columns(ModelSchema[t]) \subseteq Columns(schema[t]))
  \/ \E t \in written :
       schema[t].required \ (Columns(ModelSchema[t]) \ LeftNull) # {}

-----------------------------------------------------------------------------
(* What schema_validation.py expects *)

Expected(required, optional, refs, uniques) ==
  Table(required, optional, refs, uniques, {})

ExpectedSchema ==
  [teams |-> Expected({"id", "official_name", "short_name"},
                      {"city", "state", "founded_year", "home_venue_id"},
                      {<<"home_venue_id", "venues">>}, {}),
   seasons |-> Expected({"id", "year", "start_date", "status"}, {"end_date"}, {}, {{"year"}}),
   venues |-> Expected({"id", "name"},
                       {"city", "capacity", "latitude", "longitude", "altitude_meters"},
                       {}, {}),
   season_teams |-> Expected({"id", "season_id", "team_id"}, {"confirmed_at", "source"},
                             {<<"season_id", "seasons">>, <<"team_id", "teams">>},
                             {{"season_id", "team_id"}}),
   matches |-> Expected(
     {"id", "season_id", "matchday", "scheduled_at", "home_team_id",
      "away_team_id", "status", "result_type", "leg"},
     {"venue_id", "replay_of_match_id", "home_score", "away_score"},
     {<<"season_id", "seasons">>, <<"home_team_id", "teams">>,
      <<"away_team_id", "teams">>, <<"venue_id", "venues">>,
      <<"replay_of_match_id", "matches">>},
     {{"season_id", "matchday", "home_team_id", "away_team_id", "leg"}}),
   team_external_ids |-> Expected({"id", "team_id", "source", "external_id"}, {},
     {<<"team_id", "teams">>}, {{"team_id", "source"}, {"source", "external_id"}}),
   match_external_ids |-> Expected({"id", "match_id", "source", "external_id"}, {},
     {<<"match_id", "matches">>}, {{"match_id", "source"}, {"source", "external_id"}}),
   team_season_stats_raw |-> Expected(
     {"id", "team_id", "season_id", "source", "raw_json", "fetched_at"}, {},
     {<<"team_id", "teams">>, <<"season_id", "seasons">>},
     {{"team_id", "season_id", "source"}})]

\* Faulty variant: the table of the last migration is not expected.
SortedTablesOfOld == <<"match_external_ids", "matches", "season_teams", "seasons",
                       "team_external_ids", "teams", "venues">>

\* EXPECTED_TABLES, sorted.
SortedTables == <<"match_external_ids", "matches", "season_teams", "seasons",
                  "team_external_ids", "team_season_stats_raw", "teams", "venues">>

ExpectedTables == {SortedTables[i] : i \in DOMAIN SortedTables}

\* The first of some of them.
FirstOf(tables) ==
  SortedTables[CHOOSE i \in DOMAIN SortedTables :
                 /\ SortedTables[i] \in tables
                 /\ \A j \in 1..(i - 1) : SortedTables[j] \notin tables]

\* What the queries about a table that is not there return.
NoTable == Table({}, {}, {}, {}, {})
Found(t) == IF t \in DOMAIN schema THEN schema[t] ELSE NoTable

\* Faulty variant: a column may be nullable whether or not it should be.
ColumnsPresent(t) == Columns(ExpectedSchema[t]) \subseteq Columns(Found(t))

\* _check_columns, _check_foreign_keys and _check_unique_constraints report
\* nothing.
ColumnsAgree(t) ==
  /\ ExpectedSchema[t].required \subseteq Found(t).required
  /\ ExpectedSchema[t].optional \subseteq Found(t).optional
ReferencesAgree(t) == ExpectedSchema[t].refs \subseteq Found(t).refs
UniquesAgree(t) == ExpectedSchema[t].uniques \subseteq Found(t).uniques

\* Two foreign keys on a column that should have one.
RivalReferences(t) ==
  \E expected \in ExpectedSchema[t].refs, found \in Found(t).refs :
    found[1] = expected[1] /\ found # expected

HomeAwayChecked == "home and away distinct" \in Found("matches").checks

-----------------------------------------------------------------------------
(* alembic upgrade and downgrade *)

NoMigrator == [target |-> Latest, at |-> Latest, schema |-> <<>>, locked |-> {}, busy |-> FALSE]

Observe(s) ==
  /\ quiet' = (quiet /\ s = schema)
  /\ sawHead' = (sawHead \/ s = ModelSchema)

\* Nobody migrates a database whose schema was changed by hand.
StartMigration(target) ==
  /\ ~migrator.busy
  /\ counts.migrations < MaxMigrations
  /\ counts.handChanges = 0
  /\ target # revision
  /\ migrator' = [target |-> target, at |-> revision, schema |-> schema,
                  locked |-> {}, busy |-> TRUE]
  /\ counts' = [counts EXCEPT !.migrations = @ + 1]
  /\ UNCHANGED <<schema, revision, rows, validator, quiet, sawHead>>

Toward == IF migrator.target > migrator.at THEN migrator.at + 1 ELSE migrator.at - 1

\* One migration, in the one transaction env.py opens for all of them.
MigrationStep ==
  /\ migrator.busy
  /\ migrator.at # migrator.target
  /\ ~RefusedByRows(migrator.at, Toward)
  /\ migrator' =
       [migrator EXCEPT
          !.at = Toward,
          !.schema = IF Toward > migrator.at THEN Upgraded(@, migrator.at)
                     ELSE Downgraded(@, migrator.at),
          !.locked = @ \cup Touched(migrator.at, Toward)]
  /\ UNCHANGED <<schema, revision, rows, validator, counts, quiet, sawHead>>

\* A statement fails, or the command is killed: the transaction rolls back.
MigrationRollback ==
  /\ migrator.busy
  /\ migrator' = NoMigrator
  /\ UNCHANGED <<schema, revision, rows, validator, counts, quiet, sawHead>>

\* Faulty variant: every migration is committed by itself, the version at the end.
CommitEachMigration ==
  /\ migrator.busy
  /\ schema' = migrator.schema
  /\ rows' = rows \cap DOMAIN migrator.schema
  /\ Observe(migrator.schema)
  /\ revision' = IF migrator.at = migrator.target THEN migrator.at ELSE revision
  /\ migrator' = IF migrator.at = migrator.target THEN NoMigrator ELSE migrator
  /\ UNCHANGED <<validator, counts>>

\* The rows of a dropped table go with it.
MigrationCommit ==
  /\ migrator.busy
  /\ migrator.at = migrator.target
  /\ schema' = migrator.schema
  /\ revision' = migrator.at
  /\ rows' = rows \cap DOMAIN migrator.schema
  /\ Observe(migrator.schema)
  /\ migrator' = NoMigrator
  /\ UNCHANGED <<validator, counts>>

\* An import of one of the importers, as one step; it waits for the locks of a
\* migration.  If the schema breaks it, it leaves nothing.  A constraint added
\* by hand may stop it or not.
Import(importer) ==
  /\ Selects(importer) \cap migrator.locked = {}
  /\ \E written \in Writes(importer) :
       ~Breaks(importer, written) /\ rows' = rows \cup written
  /\ UNCHANGED <<schema, revision, migrator, validator, counts, quiet, sawHead>>

-----------------------------------------------------------------------------
(* Changes by hand, in psql *)

\* A column, a CHECK or a table that the models do not know.
Another == "another"

\* DROP COLUMN takes the constraints on the column with it.
ChecksOn(column) ==
  CASE column = "status" -> {"status valid"}
    [] column = "result_type" -> {"result_type valid"}
    [] column \in {"home_team_id", "away_team_id"} -> {"home and away distinct"}
    [] OTHER -> {}
Dropped(table, column) ==
  [WithoutColumn(table, column) EXCEPT
     !.refs = {r \in @ : r[1] # column},
     !.uniques = {u \in @ : column \notin u},
     !.checks = @ \ ChecksOn(column)]

\* A table with one thing about it changed: a CHECK, a UNIQUE or a foreign key
\* dropped, added or pointed elsewhere, a NOT NULL given or taken, a column
\* dropped or added.
HandChanged(table) ==
  {[table EXCEPT !.checks = @ \ {c}] : c \in table.checks}
  \cup {[table EXCEPT !.checks = @ \cup {Another}]}
  \cup {[table EXCEPT !.uniques = @ \ {u}] : u \in table.uniques}
  \cup {[table EXCEPT !.uniques = @ \cup {{c}}] : c \in Columns(table) \cap HandColumns}
  \cup {[table EXCEPT !.refs = @ \ {r}] : r \in table.refs}
  \cup {[table EXCEPT !.refs = @ \cup {<<r[1], "seasons">>}] : r \in table.refs}
  \cup {[table EXCEPT !.refs = (@ \ {r}) \cup {<<r[1], "seasons">>}] : r \in table.refs}
  \cup {WithNullable(table, c) : c \in table.required \ {"id"}}
  \cup {WithRequired(table, c) : c \in table.optional}
  \cup {Dropped(table, c) : c \in (Columns(table) \cap HandColumns) \ {"id"}}
  \cup {WithNullable(table, Another), WithRequired(table, Another)}

ByHand(s) ==
  /\ counts.handChanges < MaxHandChanges
  /\ ~migrator.busy
  /\ schema' = s
  /\ Observe(s)
  /\ counts' = [counts EXCEPT !.handChanges = @ + 1]
  /\ UNCHANGED <<revision, rows, migrator, validator>>

\* On a table with rows NOT NULL is refused where they have, or would get, a
\* NULL; a foreign key needs its table.
ChangeByHand(t) ==
  /\ t \in DOMAIN schema
  /\ \E changed \in HandChanged(schema[t]) \ {schema[t]} :
       /\ t \in rows => changed.required \subseteq schema[t].required
       /\ \A r \in changed.refs : r[2] \in DOMAIN schema
       /\ ByHand([schema EXCEPT ![t] = changed])

CreateByHand ==
  /\ Another \notin DOMAIN schema
  /\ ByHand([t \in DOMAIN schema \cup {Another} |->
               IF t = Another THEN Table({"id"}, {}, {}, {}, {}) ELSE schema[t]])

\* A table no foreign key refers to; nobody drops one with rows.
DropByHand(t) ==
  /\ t \in DOMAIN schema \ rows
  /\ \A u \in DOMAIN schema \ {t} : \A r \in schema[u].refs : r[2] # t
  /\ ByHand(WithoutTables(schema, {t}))

-----------------------------------------------------------------------------
(* validate_schema: one statement after another, each with its own snapshot *)

Idle == [at |-> "idle", todo |-> {}, matches |-> FALSE, passed |-> FALSE]

\* Faulty variant: every table found is gone through, expected or not.
CheckTablesFound ==
  /\ validator.at \in {"idle", "done"}
  /\ counts.validations < MaxValidations
  /\ validator' = [at |-> "columns", todo |-> DOMAIN schema,
                   matches |-> "matches" \in DOMAIN schema,
                   passed |-> ExpectedTables \subseteq DOMAIN schema]
  /\ counts' = [counts EXCEPT !.validations = @ + 1]
  /\ quiet' = TRUE
  /\ sawHead' = (schema = ModelSchema)
  /\ UNCHANGED <<schema, revision, rows, migrator>>

\* _check_tables_exist
CheckTables ==
  /\ validator.at \in {"idle", "done"}
  /\ counts.validations < MaxValidations
  /\ validator' = [at |-> "columns", todo |-> ExpectedTables \cap DOMAIN schema,
                   matches |-> "matches" \in DOMAIN schema,
                   passed |-> ExpectedTables \subseteq DOMAIN schema]
  /\ counts' = [counts EXCEPT !.validations = @ + 1]
  /\ quiet' = TRUE
  /\ sawHead' = (schema = ModelSchema)
  /\ UNCHANGED <<schema, revision, rows, migrator>>

\* The table the loop is at.
Current == FirstOf(validator.todo)

Check(stage, verdicts, next) ==
  /\ validator.at = stage
  /\ validator.todo # {}
  /\ \E agrees \in verdicts :
       validator' = [validator EXCEPT !.at = next, !.passed = @ /\ agrees]
  /\ UNCHANGED <<schema, revision, rows, migrator, counts, quiet, sawHead>>

CheckColumns == Check("columns", {ColumnsAgree(Current)}, "references")

\* Of two foreign keys on a column, whichever comes first is looked at.
CheckForeignKeys ==
  Check("references",
        {ReferencesAgree(Current), ReferencesAgree(Current) /\ ~RivalReferences(Current)},
        "uniques")

CheckUniques ==
  /\ validator.at = "uniques"
  /\ validator.todo # {}
  /\ validator' = [validator EXCEPT !.at = "columns", !.todo = @ \ {Current},
                                    !.passed = @ /\ UniquesAgree(Current)]
  /\ UNCHANGED <<schema, revision, rows, migrator, counts, quiet, sawHead>>

\* The CHECK of matches, if the table was there, and the report.
Report ==
  /\ validator.at = "columns"
  /\ validator.todo = {}
  /\ validator' = [validator EXCEPT !.at = "done",
                                    !.passed = @ /\ (validator.matches => HomeAwayChecked)]
  /\ UNCHANGED <<schema, revision, rows, migrator, counts, quiet, sawHead>>

-----------------------------------------------------------------------------
Init ==
  /\ schema = <<>> /\ revision = 0 /\ rows = {}
  /\ migrator = NoMigrator
  /\ validator = Idle
  /\ counts = [migrations |-> 0, handChanges |-> 0, validations |-> 0]
  /\ quiet = FALSE /\ sawHead = FALSE

AllDone ==
  /\ ~migrator.busy /\ validator.at = "done" /\ counts.validations = MaxValidations
  /\ UNCHANGED vars

Next ==
  \/ \E target \in 0..Latest : StartMigration(target)
  \/ MigrationStep \/ MigrationRollback \/ MigrationCommit
  \/ \E importer \in Importers : Import(importer)
  \/ \E t \in DOMAIN ModelSchema : ChangeByHand(t) \/ DropByHand(t)
  \/ CreateByHand
  \/ CheckTables \/ CheckColumns \/ CheckForeignKeys \/ CheckUniques \/ Report
  \/ AllDone

Spec == Init /\ [][Next]_vars

-----------------------------------------------------------------------------
(* Properties *)

\* Shapes of the state; rows are only in tables.
Versions == 0..Latest
Stages == {"idle", "columns", "references", "uniques", "done"}
TypeOK ==
  /\ DOMAIN schema \subseteq DOMAIN ModelSchema \cup {Another}
  /\ revision \in Versions
  /\ rows \subseteq DOMAIN schema
  /\ migrator \in [target : Versions, at : Versions, schema : {migrator.schema},
                  locked : SUBSET DOMAIN ModelSchema, busy : BOOLEAN]
  /\ validator \in [at : Stages, todo : SUBSET ExpectedTables, matches : BOOLEAN,
                   passed : BOOLEAN]
  /\ validator.at \in {"references", "uniques"} => validator.todo # {}
  /\ counts \in [migrations : Nat, handChanges : Nat, validations : Nat]
  /\ quiet \in BOOLEAN /\ sawHead \in BOOLEAN

\* Whatever upgrades, downgrades, failures and kills came before, the version
\* on record tells the schema: each downgrade undoes its upgrade to the last
\* column, a command of several migrations that fails half-way has done none
\* of them, and the last version is what the models were written for.
SchemaAt(version) ==
  CASE version = 0 -> <<>>
    [] version = 1 -> InitialTables
    [] version = 2 -> NullableCities(InitialTables)
    [] version = 3 -> WithStats(NullableCities(InitialTables))

RevisionNamesSchema ==
  counts.handChanges = 0 =>
    /\ schema = SchemaAt(revision)
    /\ revision = Latest => schema = ModelSchema

\* The same of the private schema of the command under way.
MigratorKnowsSchema ==
  migrator.busy => counts.handChanges = 0 /\ migrator.schema = SchemaAt(migrator.at)

\* What the importers have written of clubs and fixtures is never lost, since
\* the second downgrade trips over the clubs' missing cities; only the
\* statistics go, with the third.  Seasons that stand alone, for none of their
\* fixtures had a matchday, are not protected and go with the first.
ClubsAndFixturesSurvive ==
  [][rows \subseteq {"seasons"} \/ rows \ {StatsTable} \subseteq rows']_vars

\* Why they survive: all rows but seasons come with clubs, which below the
\* second version nothing can have written, nor can anything while a command is
\* on its way there, which it has the clubs locked for or set out from.
RowsKeepCities ==
  /\ rows \subseteq {"seasons"} \/ "teams" \in rows
  /\ counts.handChanges = 0 => rows \subseteq {"seasons"} \/ revision >= 2
  /\ migrator.busy /\ migrator.at < 2 =>
       /\ rows \subseteq {"seasons"}
       /\ revision < 2 \/ "teams" \in migrator.locked

\* The report comes from some 25 statements, and migrations may commit between
\* any two.  If it passes, the schema was the models' at one moment at least of
\* the validation, though no longer necessarily by its end.
PassedOnlyAtHead ==
  validator.at = "done" /\ validator.passed /\ counts.handChanges = 0 => sawHead

\* All that the models declare is there, with the NOT NULLs they say; of the
\* CHECKs, some may be missing.
Meets(s, missing) ==
  \A t \in DOMAIN ModelSchema :
    /\ t \in DOMAIN s
    /\ ModelSchema[t].required \subseteq s[t].required
    /\ ModelSchema[t].optional \subseteq s[t].optional
    /\ ModelSchema[t].refs \subseteq s[t].refs
    /\ ModelSchema[t].uniques \subseteq s[t].uniques
    /\ ModelSchema[t].checks \ missing \subseteq s[t].checks

\* Of a schema at rest, after any changes by hand, the report passes only if
\* everything the models declare is there, but for two CHECKs of matches that
\* it does not look for; and then it does pass, unless a second foreign key on
\* a column takes the place of the right one.  What was added to the models'
\* schema, be it a NOT NULL column that breaks every import, passes unnoticed.
Unnoticed == {"status valid", "result_type valid"}

VerdictIsExact ==
  validator.at = "done" /\ quiet =>
    /\ validator.passed => Meets(schema, Unnoticed)
    /\ Meets(schema, Unnoticed) /\ ~(\E t \in ExpectedTables : RivalReferences(t)) =>
         validator.passed

\* schema_validation.py: "it also catches drift between the ORM models and what
\* was actually applied to the database": what passes has all they declare.
CatchesDrift ==
  validator.at = "done" /\ quiet /\ validator.passed => Meets(schema, {})
=============================================================================
