# A TLA+ model of predictex's data ingestion

predictex collects Brazilian football data from three sources into one PostgreSQL
schema. What exists at this commit is its ingestion: two HTTP clients with their
limits, three importers, the schema and its migrations. The packages `features`,
`models` and `api` are still empty. This directory specifies the ingestion in
TLA+, model-checks it with TLC and proves, with TLAPS, every safety property that holds in
the runs.

Paths below are relative to the repository (`src/...`).

## 1. The system

| Component | Code | State | Operations |
|---|---|---|---|
| Rate limiter | `src/ingestion/rate_limiter.py` | deque of call times | `wait_if_needed`, `_evict_expired` |
| football-data.org client | `src/ingestion/football_data_client.py` | its limiter; the attempt of the current request | `_request` (`get_matches`) |
| API-Football client | `src/ingestion/api_football_client.py` | its limiter, its quota guard, the attempt | `_request` (`get_teams`, `get_team_statistics`) |
| Daily quota guard | `src/ingestion/quota_guard.py` | last known remaining calls, and the UTC date of that knowledge | `check_before_request`, `update_from_remaining` |
| Core schema | `src/data/models.py` | seasons, teams, venues, matches, external ids, season teams, raw statistics | the constraints a flush checks |
| Fixture mapper | `src/ingestion/football_data_mapper.py` | one transaction, five dictionaries | `import_matches` |
| Historical bootstrap | `src/ingestion/bootstrap_historical.py` | one transaction, five lookups | `import_historical_data` |
| Statistics ingest | `src/ingestion/api_football_ingest.py` | one transaction across many HTTP calls | `ingest_team_season_stats` |
| Schema validation, migrations | `src/data/schema_validation.py`, `alembic/versions` | the live schema, its revision | `validate_schema`, `upgrade`, `downgrade` |
| Engine, settings, logging, exceptions | `src/db.py`, `src/config.py`, ... | none | |

How they interact. Each client owns one limiter and calls `wait_if_needed` before
every attempt; the API-Football client also asks its guard once per request and
feeds it from the header of 2xx responses. The command line of each importer runs
once and ends: an exception anywhere ends the process and, since an importer
commits once at its end, undoes its transaction. The importers meet only in the
database. The mapper and the ingest recognise teams by external id and then by
case-folded name; the bootstrap recognises them by exact name; matches are
recognised by external id (mapper) and by the natural key (mapper and bootstrap).
PostgreSQL forbids two rows with one natural key and two links of one source for
one row, but not two teams or venues with one name.

What is hard here, and what would be correct:

* Limiter and client: calls stamped before they are sent, sleeps of any extra
  length, retries that take a slot of the window each. No window may hold more
  calls than allowed, nobody may wait without cause or for ever.
* Quota: what is known is a header of a past response, lost with the process,
  not refreshed by failures, and possibly of the day before. Calls below the
  buffer must be bounded; refusals must be justified.
* Mapper: dictionaries read once and maintained by hand, a fallback between two
  identities of a fixture, failures on any row, the same season imported again and
  again while fixtures move. Committed rows must be what was reported last, all or
  nothing, with no duplicated club, stadium or fixture.
* Ingest: one transaction over one request per team. All or nothing whatever call
  fails, no second row for a club two other importers have spelled, enough quota for
  a league.
* Several importers on one database, each a long READ COMMITTED transaction that
  decides by what it read at its start: duplicates no constraint forbids, refused
  runs, deadlocks, stale season bounds, fixtures mixed from two reports.
* Schema: written down in the models, in the migrations and in the validator. The
  version must tell the schema through failures half-way, rows must survive
  downgrades, and the validator's verdict must be right while it all moves.

`PROJECT.json` lists each hazard at its line with the properties that cover it.

## 2. Modules

| Module | Models | Notes |
|---|---|---|
| `SlidingWindow` | abstract promise of a limiter | a call only while fewer than `Limit` calls lie in the last `Span` ticks |
| `RateLimiter` | the limiter | `GrantAtOnce` and `Sleep` are the two ways into `wait_if_needed`, `Wake` is what follows `time.sleep` |
| `FootballDataClient` | `_request` over the limiter (extends `RateLimiter`) | `LimiterSleeps`, `LimiterGrants`, `Arrive`, `NetworkError`, `Respond`, `Resume` follow the loop body; `ArriveOverdue` is the network's |
| `FootballDataClient_proofs` | theorems about limiter and client | section 5 |
| `APIFootballClient` | `_request` with the quota guard, midnight and restarts | the limiter's wait is only a place where time may pass |
| `CoreSchema` | rows and constraints | used by every importer |
| `CoreSchema_proofs` | lemmas on rows, ids and constraints | section 5 |
| `FixtureStore` | abstract promise of importing fixtures | a report replaces what it speaks of, atomically |
| `FootballDataMapper` | `import_matches` | `Open` is everything before the loop, `SkipRow`/`ImportRow`/`RowRaises` one turn of it, then `Commit` |
| `FootballDataMapper_proofs` | theorems about it | section 5 |
| `MCFootballDataMapper` | feeds and starting databases for TLC | |
| `FixtureArchive` | abstract promise of importing history | an archive that only grows; what is in it stays |
| `BootstrapHistorical` | `import_historical_data` | `Open` is download, parsing and lookups, `ImportRow` one turn of the loop (season, teams, venue, participants, match), then `Commit` |
| `BootstrapHistorical_proofs` | theorems about it | section 5 |
| `MCBootstrapHistorical` | editions of the CSV and starting databases for TLC | |
| `TeamStatistics` | what one entry of the provider's list does to a session | `ResolveTeam`, `UpsertStats` |
| `ApiFootballIngest` | `ingest_team_season_stats` over `APIFootballClient` and `TeamStatistics` (both extended) | the client's actions, each with the stage of the ingest it belongs to |
| `ApiFootballIngest_proofs` | theorems about `APIFootballClient` and `ApiFootballIngest` | section 5 |
| `MCApiFootballIngest` | lists of teams and a starting database for TLC | |
| `ConcurrentImports` | mapper and bootstrap runs as transactions on one PostgreSQL database | operators of both importers' modules, instantiated; statements, locks and commits here |
| `ConcurrentImports_proofs` | theorems about them | section 5 |
| `UndisturbedImports_proofs` | theorems about the columns they update, on those of `ConcurrentImports_proofs` | section 5 |
| `MCConcurrentImports` | feeds, editions and starting databases for TLC | |
| `SchemaMigrations` | the three revisions, `env.py`'s transaction, the models, `validate_schema` | statement by statement for the validator, migration by migration for alembic |
| `SchemaMigrations_proofs` | theorems about it | section 5 |

### State and actions against the code

*RateLimiter.* `timestamps` is `_call_timestamps`, `now` is `time.monotonic()` in
whole ticks, `phase`/`wakeAt` stand for a thread inside `time.sleep`. `grants` is a
history variable: when each call of `wait_if_needed` returned. The eviction loop is
described by where it stops (`Evicts(n)`). A sleep lasts at least as long as asked
(what Python and the monotonic clock promise) and may last longer. One thread uses
a limiter; the class has no lock and its clients are sequential.

*FootballDataClient.* `arrivals` records when calls reach the server, which is some
time after the limiter stamped them. A network error may come before or after the
call arrived: `httpx.RequestError` includes the timeouts of reading and writing, which do
not call back what was sent. A call given up before it arrived is `astray` and reaches the
server at any later time (`ArriveOverdue`, recorded as `overdue`), or never. A body that is
not JSON raises out of `_request` and is one of the `Final` answers.

*APIFootballClient.* `serverLeft` is the provider's own counter, which it may or may
not advance for calls it fails. A call given up as a network error and not counted yet is
`astray` and may be counted at any later time, on a later day too (`CountLate`). `answer`
carries the header and the day it was issued, so that a response may be overtaken by
midnight. `below`, `allowances` and `stale` are history variables. Any exception ends the process, as it does in the
ingest, and a process may also be killed at any point (`NewClient`). `Unknown` is the guard
that knows nothing and the response without the header; it is no number. (The `None` of
`CoreSchema` is SQL's NULL and no id either.)

*FootballDataMapper.* `session` is the transaction's private view: the rows with
the run's own flushes, and the five dictionaries. The guard of `ImportRow` is that
every constraint holds after the turn; the code may learn of a violation only at
the next flush, at most one turn later or at the commit, with the same outcome.
Kick-offs are counted in slots of three hours so that a night match falls on one
day in UTC and on the day before in Brazil. Raw texts, `_clean_text` and `lower`
are given as functions. Dictionaries over duplicated keys pick any row (a `SELECT`
without `ORDER BY`): `LinkedTeams`, `FoldedTeams`, `NamedVenues`, `LinkedMatches` and
`KeyedMatches` name the five. `leg` and `result_type` are left out: every importer writes 1
and `played`. The counters of `ImportSummary` and all logging are left out.

The feeds are an assumption about football-data.org: the whole season in every
report; a fixture keeps its sides, and its matchday but for reports that leave the
matchday out, and those it leaves out for open fixtures only. That a fixture also
keeps its id is assumed in one run only.

*BootstrapHistorical.* A raw row is a record of fields that parse or are `Bad`;
`Malformed` lists the reasons of `_parse_row`. The season of a match is the calendar
year of its date, as in the code. `rows` are the parsed rows by their line in the file, `todo`
the lines the loop has yet to come to, `last` the rows of the last commit. The guard-free
`ImportRow` is justified by `FlushesSucceed`. Left out: the warnings and counters, the states of the clubs, the
check that the companion CSV can be reached, and summer time (a Brazilian day is
three hours behind UTC all year).

*ApiFootballIngest.* `stage` is where `ingest_team_season_stats` stands; `pc`, `remaining`
and the rest are the client's, moved by the client's own actions, so that the quota, the
retries and midnight are those of `APIFootballClient` and not a copy. Links and
statistics wait unflushed in `session`; a new team's flush and the commit are the two
places where a constraint can raise (`FlushRaises`, `CommitRaises`). `NewRun` is the next
process, also when the last was killed inside its transaction. `began` is the day a run began
and what the provider would still grant it then for certain, the calls astray taken as
counted. `raw_json` and
`fetched_at` are one payload. `Owner` in the properties assumes a link for every team
with statistics, which the ingest makes.

*ConcurrentImports.* A run is its open transaction: `session` is what SQLAlchemy's identity
map and the importer's dictionaries hold, `flushed` what the database has been told of
it, `queue` the statements of the flush under way, `sent` those the server has taken. Each
`SELECT` is a step on the committed rows, so two dictionaries of one run may stem from
different moments. `Turn` is one lookup of the loop body (team, venue, ...), because a flush
lies between two of them. `Statements` sends inserts whole and of known rows the changed
columns only, as the unit of work does. A queue is a set; `Precedes` is the order it is sent
in: parents before children, of a table the updates before the inserts, then by id. The
server: an insert waits for an open transaction with the same unique key and fails
(`Violates`) on a committed one, or on the CHECK on a match's sides; an update waits for
one of the same row; of two that wait for one another one is aborted. The ids of a run come
from a range of its own (`IdsPerRun` wide), as those of a PostgreSQL sequence are given to
nobody else; rows found at the start have the ids below. References take no lock that an
update of other columns would meet. The rows of a link are read with the link in one step.

*SchemaMigrations.* A table is its columns by nullability, foreign keys, UNIQUE sets and
CHECKs, written three times from the three places that say so. `env.py` opens one
transaction for all migrations of a command: `migrator` is its private schema. Imports are
one step here, guarded by whether the models' SELECTs and INSERTs work on the schema
and wait for the locks of a migration (`Breaks`, `Touched`). The validator's `todo` are the
tables its loop has yet to look at. The validator runs in one
connection but sees each statement's own snapshot. The CHECK it looks for by its text is here
the one of that meaning. Of two foreign keys on one column its query returns either first,
which leaves the verdict open (`RivalReferences`).

An import leaves rows in one of the sets of tables `Writes` lists: all it selects from, or
less. A report in which no fixture has a matchday leaves a season alone, since the mapper
adds the season before it skips the fixtures.

A change by hand is one thing done to one table, and nobody migrates after it: a column (nullable
or not), a UNIQUE, a foreign key, a CHECK or a table added or dropped, a NOT NULL given or
taken, a foreign key pointed elsewhere. A dropped column takes its constraints along, NOT NULL
is refused over NULLs, and only empty tables nobody refers to are dropped. An import that meets
an added constraint may succeed or fail.

## 3. Runs

| Run | Asks | Result |
|---|---|---|
| `limiter` | window limit over the whole history, no needless wait, every sleeper let through, refinement of `SlidingWindow` | holds |
| `football_data_client` | what the server sees, retry spacing, termination | holds, with `max_calls + 1` and the calls given up on top |
| `api_football_quota` | how far below the buffer calls can go; justified refusals; retry discipline; termination | holds |
| `quota_buffer` | "refusing to make another call once the remaining quota drops below a safety buffer" | violated |
| `quota_midnight` | "resets at 00:00 UTC" | violated |
| `mapper` | consistency of committed data over repeated runs, refinement of `FixtureStore` | holds |
| `bootstrap` | consistency over overlapping editions of the CSV, refinement of `FixtureArchive` | holds |
| `mapper_reissued_id` | that no import fails, when a fixture gets a new id | violated |
| `statistics_ingest` | all or nothing of what was fetched, no second row for a club, which lists are refused, how much quota a league takes | holds |
| `concurrent_imports` | mapper and bootstrap in turn and at once: who is refused, where twins, lost bounds and mixed fixtures come from | holds |
| `migrations` | the version tells the schema, clubs and fixtures survive, the validator's verdict | holds |
| `migrations_drift` | "it also catches drift between the ORM models and what was actually applied" | violated |

Properties worth knowing:

* `WindowLimit` speaks of all calls ever made, not of the deque the code counts.
* `ServerSeesWindow`: of the calls the client still waits for, the server gets at most
  `max_calls + 1` in any window. With exactly `max_calls` it does not hold: one slow call
  may arrive together with the calls of the next window. Calls the client has given up
  come on top, since they may arrive at any time.
* `OvershootBounded`: with less than the buffer left, a day sees at most
  `MaxAttempts` calls per process alive that day (and per answer without header).
* `RefusalIsJustified`: the late answer of `quota_midnight` is the only way to be
  refused with enough quota left.
* `DictionariesMirrorRows`: after every turn each dictionary answers what the rows
  of the session would.
* `CommitsWhatItFetched`: a run of the ingest commits at its end or never, and what it
  commits is exactly what it was answered, for the whole list.
* `RefusedOnlyWhenShort`: a run that begins a day with the buffer plus `MaxAttempts` calls
  for each request it has still to make is not refused that day. Calls given up before that
  may still be counted, so they are taken off what it begins with.
* `RefusedOnlyForNamesakes`: the constraints refuse a list only for two ids of one folded
  name; the mapper's `_resolve_team` is the same code.
* `ClubsStayOne`: two mappers at once never store a club twice, although no constraint
  guards its name: the link to its external id lets only one of them through.
* `TwinsOverlapped`, `CoversUnlessRivals`, `FixturesWholeUnlessRivals`: one exact name stored
  twice, a season whose bounds miss a fixture, a fixture mixed from two reports: each needs
  two runs that were open together and both committed. All three do happen then; the code
  has nothing against them, and no document promises otherwise. A night match counts by
  UTC for the mapper and by Brazil for the bootstrap, so the bounds are read in the kinder
  calendar.
* `RefusedOnlyByRival`: alone on the database, no import is ever refused, whatever the other
  importer and crashes have left, while fixture ids are stable.
* `RevisionNamesSchema`: a command of several migrations that fails half-way has done none.
* `ClubsAndFixturesSurvive`: the second downgrade trips over the missing cities of every club
  the importers write, which is what keeps their data from the first one. A season that stands
  alone in the database, imported from a report without matchdays, is not protected:
  downgrading to nothing drops it. The property leaves that case out and the hazards name it.
* `PassedOnlyAtHead`: the validator may report on a mixture of schemas, but a pass means that
  the schema was the models' at some moment of it.
* `VerdictIsExact`: at rest a pass means that everything the models declare is there, but for
  two CHECKs, and then the validator does pass, unless two foreign keys on one column compete.
  It says no more: the validator goes through what it expects, and an added column, UNIQUE,
  foreign key, CHECK or table passes unnoticed, even a NOT NULL column that no import fills.
* `FlushesSucceed`: the bootstrap consults lookups of its own and never the
  database, and still no constraint of `models.py` is ever violated.
* `ImplementsArchive`: the bootstrap adds what is missing and overrules nobody;
  `ImplementsStore` is the opposite policy, where the last report wins.
* `ImplementsStore`: from outside, all runs, failures and crashes come to atomic
  replacements of facts per fixture.

### Bounds, and why they are enough

`limiter`: 2 calls per 3 ticks, 6 calls, free idling until tick 8; after it the clock
still runs for whoever sleeps, so that the bound never traps a sleeper. Six calls
fill and empty the window three times, with every spacing. `football_data_client`:
the same window with 5 calls and idling until tick 5, 3 attempts and requests started while
3 more calls fit; any of the calls may be given up and arrive late.
`api_football_quota`: a quota of 5 with a buffer of 3 lets a process go from plenty
to nothing, over two midnights and one restart, with two calls astray at a time
(`MaxAstray`; one given up beyond that is lost or counted at once). `mapper`: two fixtures of three
clubs (so that one club occurs twice in a feed), in 4 and 3 versions that differ in
status, kick-off, venue, score and a missing matchday, either of two starting
databases, a reissued id, and three runs: one to create, one to change, one to
repeat or to meet the damage. `bootstrap`: 26 editions of up to three rows,
with a corrected and a repeated fixture, two seasons, a row of 2026 and rows broken
in every way `_parse_row` knows, on an empty database and on one the mapper filled;
three runs, so that a partial edition, a full one and a rerun can follow each other.
In these two ids are never compared for order, and rolled-back
ids are reused, which nobody can observe.

`statistics_ingest`: a quota of 4 with a buffer of 1 and two attempts lets a run of three
clubs be refused at each of its requests, over one midnight and two processes, with one call
astray at a time; lists with a
repeated entry, an entry without an id, a club under a new id, two clubs without a name; a
season that is missing; a database where one club is stored under two spellings.
`concurrent_imports`: three runs out of five jobs on two workers, on an empty database and
on a season under way. Two runs suffice for every anomaly (all of them, and the server's
abort of a deadlock, are reached); the third shows what a later run makes of it. 100 ids are
set aside for each run, 20 for each row of its feed. The workers are symmetric. `migrations`: three commands reach every revision twice and fail in
between, over every set of tables the importers may have filled, with one change by hand and
one validation. `HandColumns` are the columns dropped or made UNIQUE by hand: one of each kind
the checks tell apart (plain, nullable, unique, with a CHECK, with a foreign key).

### Fairness

`RateLimiter`: the clock advances and an expired sleep returns. `FootballDataClient`:
also, httpx ends a call within its 30 s timeout and the loop goes on. No fairness is
assumed of the caller, nor of calls given up. `APIFootballClient`: a call under way is answered or fails and
the client handles it; nothing is assumed of midnight, restarts or new requests.
The importers, the ingest included, state no liveness of their own: a run is a finite loop
over requests that end (`RequestEnds`), its steps never return to an earlier state, and a
wait for a lock ends with the transaction it waits for or in the server's deadlock check.

## 4. Where code and documents disagree

* `quota_buffer`: `quota_guard.py` promises to refuse a call below the buffer
  "before the call happens". The check stands before the retry loop and failures
  teach the guard nothing, so a request admitted at the buffer retries below it.
* `quota_midnight`: the guard's count "resets at 00:00 UTC", but a count issued
  just before midnight and received just after it is stored under the new date.
  The process then refuses every request of that day.
* `mapper_reissued_id`: the docstring of `import_matches` promises an update in
  place through the natural key. If the row found is already linked, the second link
  violates `uq_match_external_ids_match_source` and the import fails, every time.

* `migrations_drift`: `validate_schema` promises to catch drift between the models and what was
  applied, but of the three CHECKs of `matches` it looks for one; a database without those of
  `status` and `result_type`, which the models declare, passes. (That it does not look for
  what was added is another matter: it promises nothing of that.)

## 5. Proofs

Every theorem holds for all values of the constants within the assumption of its module: the
numbers are naturals, the files and reports are sequences, and the databases at the start are
sound (`Sound`: they satisfy `models.py` and refer to no missing row). What a theorem assumes
beyond that is a hypothesis of its statement. The hypotheses are listed below with their
reason; the runs `mapper`, `bootstrap`, `statistics_ingest` and `concurrent_imports` satisfy
all of them.

### FootballDataClient_proofs

The limiter:

* `LimiterInvariant`: `LimiterInv` is invariant;
* `LimiterWindow`: `WindowLimit`;
* `LimiterWaitsForCause`: `NoNeedlessWait`;
* `LimiterRefinesWindow`: the limiter implements `SlidingWindow`.

`WindowLimit` is not inductive: a step appends to the history after
looking at the deque only. `DequeIsRecentHistory` links the two: the deque is the
end of the history, everything it has dropped is at least `Period` old, it holds
at most `MaxCalls` entries, and a sleeper waits for exactly its first. Then a call
that returns with fewer than `MaxCalls` entries left (`ReturnKeepsInv`) finds the
call `MaxCalls` places back among the dropped ones (`EvictedLeftWindow`). The code
does not look at the length after a sleep; `RoomAfterSleep` shows that it need not.
The refinement counts the calls in the window by the interval of indices that
contains them (`RoomInDequeIsRoomInWindow`).

The client:

* `ClientInvariant`: `ClientInv` is invariant;
* `ClientTypes`: `ClientTypeOK`;
* `RetriesKeepDistance`: `RetriesAreSpaced`;
* `ServerWindowHolds`: `ServerSeesWindow`.

Every step of the client is a step of its limiter or leaves it alone (`ClientMovesLimiter`), so
`LimiterInv` carries over. Two facts of the client's own join it. The attempts are numbered as
the loop numbers them and a back-off ends no earlier than it should, which gives the spacing.
And the arrivals the client still waited for (`Timely`) can be given different grants, in order,
such that each has arrived when the grant after its own is made (`ArrivesBeforeNextGrant`). Those
that reach the server in a window are then granted in it but for at most one
(`TimelyFitTheWindow`), hence `MaxCalls + 1`. Of the overdue ones nothing is known but that
they have arrived; the property counts them one by one.

### ApiFootballIngest_proofs: the client

* `QuotaTypes`: `TypeOK`;
* `RetryDiscipline`: `RetriesOnlyTransient`;
* `QuotaInvariant`: `QuotaInv`, the inductive invariant of the guard;
* `QuotaOvershoot`: `OvershootBounded`;
* `QuotaRefusals`: `RefusalIsJustified`.

They are about the client alone and use nothing of the ingest.

Retries: a request has made one call per attempt
(`VerdictsFollowAttempts`), so the client never loses count of what it sent.
Overshoot: `OvershootBounded` counts calls already made, and a step can add one, so
the invariant also counts those still to come: `Ahead` is what the request under
way, or the next one if the guard would let it pass, may still send, and
`AllowancesCoverAhead` says that the allowances pay for both. The one step where
`Ahead` grows with no new allowance is the receipt of a header above the buffer;
since the provider's count never rises within a day, such a header proves that no call
of that day was made below the buffer, so a whole allowance is still unused. A call counted
late only lowers that count, by one, and needs no more of the argument.
Refusals: `BeliefIsOfToday` says that what the guard knows of today bounds what the
server has left, unless it is stale.

### SchemaMigrations_proofs

* `MigrationInvariant`: `MigrationInv` is invariant;
* `MigrationTypes`: `TypeOK`;
* `RevisionIsSchema`: `RevisionNamesSchema`;
* `RowsSurviveMigrations`: `ClubsAndFixturesSurvive`;
* `PassingReportSawHead`: `PassedOnlyAtHead`;
* `ReportIsExact`: `VerdictIsExact`.

`RevisionNamesSchema` needs to know that the uncommitted schema of the migrator is that of the
revision it has reached (`MigratorKnowsSchema`), and the survival of rows that all but seasons
alone come with clubs, and clubs without a city exist only where the column may be null
(`RowsKeepCities`): such rows make the second downgrade fail before it can reach the first.
The validator: `PassingSawHead` says what a validation without complaint so far has seen.
`VerdictSoFar` relates its verdict to the tables done, in both directions: a validation without
complaint has found each of them in agreement, and one of a schema with nothing to find
(`Clean`) has no complaint. Nothing is used of how the schema came about: `AgreementIsExact`
compares the validator's list with the models, table by table (`ModelTables`), and finds that
the agreement of every table is what the models declare but for the two CHECKs. The theorem
holds for any number of changes by hand.

### CoreSchema_proofs

Lemmas for the importers. That a finite set of integers has a highest and a lowest member is
proved by a minimal counterexample in the strict-subset order, since induction over
data is not available. Others: the next free id is free, rows added under it keep every
constraint (`RowAddedKeepsIds`, `RowsAddedKeepIds`), the same rows satisfy the
same constraints (`SameRowsHold`), and a session within the constraints commits to a sound
database (`CommittedIsSound`).

### BootstrapHistorical_proofs

* `BootstrapInvariant`: `BootstrapInv` is invariant;
* `BootstrapTypes`: `TypeOK`;
* `NoFlushFails`: `FlushesSucceed`;
* `SeasonTeamsHavePlayed`: `ParticipantsPlayed`. Hypothesis: in the databases at the start who is
  on record for a season has a match in it (`PlayedIn`); no other program writes the table;
* `RerunsAreIdle`: `RerunChangesNothing`, and
* `ImporterKeepsArchive`: `ImplementsArchive`. Hypothesis of both: no two clubs and no two stadiums
  have one name at the start (`NamesUnique`). Between two of them the order of a
  `SELECT` would choose, anew in every run.

`FlushesSucceed` is about one turn ahead, so the invariant says why it succeeds: in an open
session each of the five lookups answers what the session's own rows say (`LookupsMirrorRows`). The
turn is taken apart into its lookups (`WithTeamHolds`, `WithVenueHolds`, ...), each of which
keeps lookups and constraints; `Turn` collects what a whole turn did. On it stand
`RowsRecorded` (every line done has its match in the session), `SameAgain` (a rerun has
changed nothing so far) and `ArchiveSoFar` (the session is the database and the first
row of every new fixture among the lines done), which at the commit is the step of the
archive.

### ApiFootballIngest_proofs: the ingest

* `IngestInvariant`: `IngestInv` is invariant;
* `IngestTypes`: `IngestTypeOK`;
* `LeaguesFit`: `RefusedOnlyWhenShort`;
* `ClubsKeepOneRow`: `NoTwinIsAdded`;
* `NamesakesAreRefused`: `RefusedOnlyForNamesakes`;
* `RunsStoreWhatTheyFetched`: `CommitsWhatItFetched`. Hypothesis: the statistics at the start are
  this provider's and of linked teams (`StatsLinked`), since no run writes others.

Every step of the ingest is a step of its client (`ClientStep`), so `QuotaInv` holds without a new
proof; `StageHolds` and `SpentBounded` (at most `MaxAttempts` calls per request answered)
turn it into the bound for a league. `IngestInv` says that the three dictionaries of the
session answer what its rows say and that the entries done are linked. For clubs,
`NewTeamsAlone` (the folded name of a team the run added is nobody else's) and `LinksFollow`
(which links the entries done have made). The proof of
`NamesakesAreRefused` first failed, for a good reason: a list may give one id twice under two
names, and only the first of the two is looked up by name. `Namesakes` says so now, and the
checked lists have such a pair. `StatisticsFollow` says that the rows of the
session are the fetched ones where the run was answered, and the old ones elsewhere.

### FootballDataMapper_proofs

* `MapperInvariant`: `MapperInv` is invariant;
* `MapperTypes`: `TypeOK`;
* `RowsAreKept`: `NothingIsLost`;
* `DictionariesFollowRows`: `DictionariesMirrorRows`. Hypothesis: no two clubs with one folded name, no
  two stadiums with one name at the start. Neither column is unique in `models.py`, and of two
  namesakes a dictionary hides one;
* `ReimportsAreSafe`: `ReimportIsSafe`. Hypothesis: no two stadiums with one name at the start;
* `ReplacesWhatIsReported`: `ImplementsStore`. Hypotheses: no match is linked to football-data.org at the
  start (the store starts empty), a report uses an id for one fixture
  (`IdsReportedOnce`) and every report uses it for the same one (`IdsKeepFixtures`), which is what
  the code takes the id for;
* `FinishedSeasonsAreOver`: `FinishedSeasonIsOver`. Hypotheses: no such links and only settled
  matches at the start (the bootstrap writes no others), `IdsKeepFixtures`, and a report whose
  matches are all settled names every fixture that any report of the season names
  (`FinishedReportsAreWhole`); otherwise a season is closed over a fixture that was left out.

`MapperInv` adds to soundness that in an open session the dictionaries answer what its rows say
(`DictionariesHold`), that the session satisfies the schema and that it keeps every committed row.
One turn of the loop is the composition of `_resolve_team` twice, `_resolve_venue` and
the upsert; `TurnIsTaken` says of the four together that rows only grow, that one match is written
and says what the raw match says, and that no natural key moves. The later results use that
lemma and no longer the code: `ReimportInv` (the committed rows of a season say what the last
raw match of each id said, and a rerun has changed nothing so far), `StoreInv` with `CommitImports`
(what the run touched is what was reported, the step of the store), and `OverInv` (an open match
has a link, hence a report).

### ConcurrentImports_proofs

* `ImportsInvariant`: `ImportsInv` is invariant;
* `ImportsTypes`: `TypeOK`, with the committed rows within `models.py` whatever interleaves;
* `TwinsOverlap`: `TwinsOverlapped`. Hypothesis `StartsUntwinned`: no two clubs and no two
  stadiums have one name at the start (neither column is unique);
* `MappersStoreClubsOnce`: `ClubsStayOne`. Hypotheses `StartsClubsOne` (no two spellings of one
  club at the start) and `OneIdPerClub`: what the feeds call by one name, after cleaning and
  folding, has one id in all of them. Without it two mappers link the club under two ids and no
  constraint objects (`football_data_mapper.py:78`, among the hazards);
* `LoneImportsPass`: `RefusedOnlyByRival`. Hypotheses `OneIdPerClub`; `OneIdPerFixture`: the
  API gives a fixture (season, matchday, sides) one id; `SidesDiffer`: nobody plays itself, which
  the CHECK refuses (the API names two ids, and `_parse_row` drops such rows);
  and `StartsFit`: the links found at the start agree with what the feeds report. Without them
  a lone import is refused, as it should be: a second id for a linked club or fixture violates
  a unique key that no lookup asks for.

The run `concurrent_imports` satisfies these hypotheses and those of the next section.

`ImportsInv` says of the database that it is within the schema and that a row's id names the run
that committed it; of the history, that it records who is open; and of each open run
(`RunRight`) where it stands in its transaction, that its ids are in its range, that each row of
its session is its own or a committed one, that what it has told the database (`flushed`) is
its session up to what is pending, and that `sent` and `queue` together are the way from the
rows it read to `flushed` (`StatementsRight`). Two facts relate runs: statements of two open runs
have no unique key in common (`SentApart`, from the locks), and a committed row that a
run has not seen is of a run that was open with it (`UnseenOverlap`, since a `SELECT` sees
everything committed before it). A row that a run knows may have changed since: `Alike` says
that no update touches the columns a key is made of, which is what makes the keys
of a stale copy worth comparing.

The hard step is `Commit`: `CommitRight` (the rows after the statements are the run's own and
the old ones, altered but alike, and satisfy the constraints by `SentApart` and by what
`Violates` has let through), `CommitSurprisesNobody` and `OthersMayCommit` (every other run
keeps its invariant on the new database). The two properties about clubs are then short:
of two rows of one name, the run that committed later had not seen the other row, or its
dictionaries would have found it; and two mappers that both stored a club would both have sent
a link with one external id, which `SentApart` and the constraint exclude.

`LoneImportsPass` needs an invariant of its own, `CleanInv`. The links in the database fit
what the feeds report (`LinksFit`): they keep fitting because a commit adds the links of its
session, made for names and sides in its feed. Each open run is clean (`CleanRun`): the rows of
its session have distinct unique keys and its dictionaries answer exactly what these rows say
(`SessionClean`), so that a lookup that finds nothing inserts no key twice; a row is inserted by
one statement; and, as long as no run that was open with it has committed (`Undisturbed`), the
session has every committed row of the tables it has selected (`Complete`). `LoneRunPasses` draws
the conclusion: the key of a new row is then neither in the database nor among what the run has
sent. `AfterClean`, one lookup at a time, and `CommitFits` are the long parts.

### UndisturbedImports_proofs

* `DatesCoverUnlessRivals`: `CoversUnlessRivals`, and `FactsWholeUnlessRivals`:
  `FixturesWholeUnlessRivals`. Hypotheses of both: those of `LoneImportsPass`, and their
  converses `OneClubPerId` (what the feeds report under a club's id has one folded name) and
  `OneFixturePerId` (what they report under a fixture's id, matchday given, is one season,
  matchday and pair of sides), which the links at the start agree with (`StartsTold`). An id that
  moves on to another fixture sends the report of it to the row of the first, in another season
  perhaps, whose dates nobody widens. For the dates also `StartsCovered`: at the start each
  season covers its matches.

The columns a run updates are what `ImportsInv` and `CleanInv` leave open (`Alike`), since under
interleaving anything may have happened to them. `ExactInv` adds what holds of them while a run
is undisturbed. `Replays`: the committed rows and the statements sent and queued make exactly
the rows of the last flush, column by column, by the last statement that sets it. The long part
is `FlushReplays`, that a flush which sends changed columns only keeps this so. Then a commit
leaves the database as its session has it (`CommitStores`), which is `World`: the rows of the
session and the committed ones it has not loaded. `World` is carried through the loop, one
lookup at a time: if the dates cover the matches and the facts are whole in the database, they
are so in `World`. That needs the links to tell which fixture a report is about (`LinksTell`,
kept by `AfterTold`) and a mapper's season to cover its feed from the start (`FeedCovered`). A
disturbed run needs nothing: when it commits it makes two rivals.

### Model-checked only

* Liveness (`SleeperIsGranted`, `RequestEnds`): fairness and `ENABLED` are beyond the prover.
* The violations of section 4, where a counterexample is the point.

Nothing that is proved about depends on a `RECURSIVE` operator.

## 6. Not modelled

* The ingest at the same time as other importers. It shares no unique key with them; what it
  could do with them is what `TwinsOverlapped` describes: store a club both find missing.
* Several processes under one rate limit: each has a deque of its own and nothing says that
  they should share the limit.
* The offline mode of `env.py`, plain indexes, primary keys, column types and lengths, states of
  the clubs, short names, the counters of the summaries. The names of constraints: they are
  taken to differ, as those in the migrations do; the validator joins on them.
* Command-line parsing, logging, settings, the engine: no state of their own.
* `time.sleep` returning early, clocks running backwards, several threads on one limiter, and
  feeds in which a fixture changes its sides: excluded by assumption.

## 7. Plan

Modelled and checked: everything of section 2. Proved: every safety property, action property
and refinement of the runs that pass. Open: the gaps of section 6, first of all the ingest
beside the other importers.
