----------------------------- MODULE CoreSchema -----------------------------
(***************************************************************************)
(* src/data/models.py: the rows the importers read and write, and the      *)
(* constraints PostgreSQL enforces on them.  A database is a record of row *)
(* sets.  result_type and leg are left out: every importer writes 'played' *)
(* and 1.  Dates and kick-off times are numbers, see below.                *)
(***************************************************************************)
EXTENDS Integers, FiniteSets

CONSTANT None   \* SQL NULL, and the None of a dict.get

ASSUME NoneIsNoId == None \notin Nat

FootballData == "football-data.org"
ApiFootball  == "api-football"

EmptyDB == [seasons   |-> {},   \* [id, year, start, end, status]
            teams     |-> {},   \* [id, name]
            teamLinks |-> {},   \* [id, team, source, ext]
            venues    |-> {},   \* [id, name]
            matches   |-> {},   \* [id, season, matchday, home,
                                  \*  away, at, venue, status, score]
            matchLinks |-> {},  \* [id, match, source, ext]
            seasonTeams |-> {}, \* [id, season, team]
            stats     |-> {}]   \* [id, team, season, source, payload]

Tables == DOMAIN EmptyDB

-----------------------------------------------------------------------------
Lowest(S)  == CHOOSE x \in S : \A y \in S : x <= y
Highest(S) == CHOOSE x \in S : \A y \in S : x >= y

\* A kick-off is counted in slots of three hours: eight slots make a UTC day,
\* and a Brazilian day (UTC-3) ends one slot after the UTC day does.
UtcDate(slot)   == slot \div 8
LocalDate(slot) == (slot - 1) \div 8

-----------------------------------------------------------------------------
\* UniqueConstraint: two rows that agree on the columns are one row.
UniqueOn(rows, Columns(_)) ==
  \A r, s \in rows : Columns(r) = Columns(s) => r = s

NaturalKey(m) == <<m.season, m.matchday, m.home, m.away>>

SeasonsUnique(db) == UniqueOn(db.seasons, LAMBDA s : s.year)

TeamLinksUnique(db) ==
  /\ UniqueOn(db.teamLinks, LAMBDA l : <<l.team, l.source>>)
  /\ UniqueOn(db.teamLinks, LAMBDA l : <<l.source, l.ext>>)

MatchesUnique(db) == UniqueOn(db.matches, NaturalKey)

MatchLinksUnique(db) ==
  /\ UniqueOn(db.matchLinks, LAMBDA l : <<l.match, l.source>>)
  /\ UniqueOn(db.matchLinks, LAMBDA l : <<l.source, l.ext>>)

SeasonTeamsUnique(db) == UniqueOn(db.seasonTeams, LAMBDA p : <<p.season, p.team>>)

StatsUnique(db) == UniqueOn(db.stats, LAMBDA r : <<r.team, r.season, r.source>>)

\* ck_matches_home_away_distinct
SidesDistinct(db) == \A m \in db.matches : m.home # m.away

\* What a flush checks; a violation is the IntegrityError that ends the import.
SchemaHolds(db) ==
  /\ SeasonsUnique(db)
  /\ TeamLinksUnique(db)
  /\ MatchesUnique(db)
  /\ MatchLinksUnique(db)
  /\ SeasonTeamsUnique(db)
  /\ StatsUnique(db)
  /\ SidesDistinct(db)

\* The foreign keys, of rows nobody ever deletes.
IdsOf(rows) == {r.id : r \in rows}

ReferencesHold(db) ==
  /\ \A l \in db.teamLinks : l.team \in IdsOf(db.teams)
  /\ \A l \in db.matchLinks : l.match \in IdsOf(db.matches)
  /\ \A m \in db.matches :
       /\ m.season \in IdsOf(db.seasons)
       /\ {m.home, m.away} \subseteq IdsOf(db.teams)
       /\ m.venue \in IdsOf(db.venues) \cup {None}
  /\ \A p \in db.seasonTeams \cup db.stats :
       p.season \in IdsOf(db.seasons) /\ p.team \in IdsOf(db.teams)

\* The row with an id; the name in it, where there is a row at all.
RowOf(rows, id) == CHOOSE r \in rows : r.id = id
NameOf(rows, id) == IF id = None THEN None ELSE RowOf(rows, id).name

-----------------------------------------------------------------------------
(* What every importer does with it *)

\* A dictionary over rows: the last row of a key wins, in an order the SELECT
\* does not fix.
DictOf(rows, Key(_), Value(_)) ==
  {d \in [{Key(r) : r \in rows} -> {Value(r) : r \in rows}] :
     \A k \in DOMAIN d : \E r \in rows : Key(r) = k /\ Value(r) = d[k]}

\* d[key] = value, and two records of different fields as one.
Put(d, key, value) ==
  [k \in DOMAIN d \cup {key} |-> IF k = key THEN value ELSE d[k]]
Joined(f, g) ==
  [k \in DOMAIN f \cup DOMAIN g |-> IF k \in DOMAIN f THEN f[k] ELSE g[k]]

\* Ids come from sequences, here one for all tables, and gaps are of no account.
\* A rollback does not rewind them, but nobody has seen the ids it wastes,
\* and the model hands them out again.
Ids(db) == UNION {IdsOf(db[t]) : t \in Tables}
FirstFreeId(db) == IF Ids(db) = {} THEN 1 ELSE Highest(Ids(db)) + 1

\* The primary keys.
KeysHold(db) ==
  /\ Ids(db) \subseteq Nat /\ IsFiniteSet(Ids(db))
  /\ \A t \in Tables : UniqueOn(db[t], LAMBDA r : r.id)

\* The columns of the rows that importers update in place.  The dates of a
\* season may be NULL in models.py; every importer that inserts one sets both.
ColumnsHold(db) ==
  /\ \A s \in db.seasons :
       /\ s = [id |-> s.id, year |-> s.year, start |-> s.start, end |-> s.end,
               status |-> s.status]
       /\ s.start \in Int /\ s.end \in Int
  /\ \A m \in db.matches :
       m = [id |-> m.id, season |-> m.season, matchday |-> m.matchday, home |-> m.home,
            away |-> m.away, at |-> m.at, venue |-> m.venue, status |-> m.status,
            score |-> m.score]
  /\ \A r \in db.stats :
       r = [id |-> r.id, team |-> r.team, season |-> r.season, source |-> r.source,
            payload |-> r.payload]

\* A database as a run may find it.
Sound(db) ==
  /\ db = [t \in Tables |-> db[t]]
  /\ KeysHold(db) /\ ColumnsHold(db)
  /\ SchemaHolds(db) /\ ReferencesHold(db)

\* A season's dates cover its fixtures.  The mapper dates a night match in UTC
\* and the bootstrap in Brazil, so each bound is read in the calendar that is
\* kinder to it.
DatesCoverMatches(db) ==
  \A m \in db.matches :
    LET s == RowOf(db.seasons, m.season)
    IN s.start <= UtcDate(m.at) /\ LocalDate(m.at) <= s.end
=============================================================================
