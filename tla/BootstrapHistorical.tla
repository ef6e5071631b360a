------------------------ MODULE BootstrapHistorical ------------------------
(***************************************************************************)
(* src/ingestion/bootstrap_historical.py: import_historical_data, run on   *)
(* one edition after another of the CSV of closed seasons.                 *)
(*                                                                         *)
(* One run parses the whole file, then works through the rows it kept in   *)
(* one transaction.  `session` is that transaction's view of the database  *)
(* with the five lookups the run made of it and keeps up by hand.          *)
(***************************************************************************)
EXTENDS CoreSchema, Naturals, Sequences

CONSTANTS Files,     \* what the CSV may be: sequences of raw rows
          StartDBs,  \* databases the first run may find
          MaxRuns,   \* bound: runs in a behaviour
          Cleaned,   \* _clean_text, per raw text
          Garbled,   \* cleaned texts with control characters in them
          YearOf,    \* the calendar year of a date
          Bad        \* a field that does not parse

ASSUME BootstrapAssumption ==
  /\ MaxRuns \in Nat
  /\ \A db \in StartDBs : Sound(db)
  /\ \A file \in Files :
       /\ DOMAIN file \subseteq Nat /\ IsFiniteSet(DOMAIN file)
       /\ \A i \in DOMAIN file : /\ file[i].date \in Int \cup {Bad}
                                /\ file[i].time \in Int \cup {None, Bad}

VARIABLES db,       \* the committed rows
          session,  \* the running import's view
          pc,       \* "idle", "rows" in the loop
          rows,     \* parsed_rows, each under its line of the file
          todo,     \* the lines the loop has yet to come to
          runs,     \* runs started so far
          last      \* history: the parsed rows of the last run that committed, if any

vars == <<db, session, pc, rows, todo, runs, last>>

NoSession == [open |-> FALSE]
Rows(s) == [t \in Tables |-> s[t]]

-----------------------------------------------------------------------------
(* Parsing *)

CurrentSeasonYear == 2026
DefaultKickoff    == 5      \* 16:00 lies in the sixth slot of a Brazilian day

\* _parse_row gives up on the row.
Malformed(raw) ==
  LET texts == {Cleaned[raw.home], Cleaned[raw.away], Cleaned[raw.arena]}
  IN \/ Bad \in {raw.date, raw.time, raw.matchday, raw.score}
     \/ "" \in texts
     \/ Cleaned[raw.home] = Cleaned[raw.away]
     \/ texts \cap Garbled # {}
     \/ raw.score = None

\* The local date and time as a kick-off in slots: UtcDate and LocalDate of
\* CoreSchema read it back.
KickOff(raw) ==
  8 * raw.date + 1 + (IF raw.time = None THEN DefaultKickoff ELSE raw.time)

\* The season of a match is the calendar year it was played in.
Parsed(raw) ==
  [year |-> YearOf[raw.date], matchday |-> raw.matchday, at |-> KickOff(raw),
   home |-> Cleaned[raw.home], away |-> Cleaned[raw.away],
   venue |-> Cleaned[raw.arena], score |-> raw.score]

\* Rows of the season in progress belong to football-data.org.
Kept(raw) == ~Malformed(raw) /\ YearOf[raw.date] < CurrentSeasonYear
ParsedRows(file) == [i \in {i \in DOMAIN file : Kept(file[i])} |-> Parsed(file[i])]

-----------------------------------------------------------------------------
(* One parsed row *)

\* season_bounds: of a season, over the rows of this file.
DatesOf(parsed, year) ==
  {LocalDate(parsed[i].at) : i \in {i \in DOMAIN parsed : parsed[i].year = year}}

\* The season: inserted as finished, or widened to what this file knows of it.
WithSeason(s, parsed, r) ==
  LET start == Lowest(DatesOf(parsed, r.year))
      end   == Highest(DatesOf(parsed, r.year))
      known == r.year \in DOMAIN s.seasonByYear
      Widen(season) == [id |-> season.id, year |-> season.year,
                        start |-> Lowest({season.start, start}),
                        end |-> Highest({season.end, end}), status |-> season.status]
  IN IF known
       THEN [s EXCEPT !.seasons = {IF q.id = s.seasonByYear[r.year] THEN Widen(q) ELSE q
                                     : q \in @}]
       ELSE [s EXCEPT
               !.seasons = @ \cup {[id |-> s.nextId, year |-> r.year, start |-> start,
                                    end |-> end, status |-> "finished"]},
               !.nextId = @ + 1,
               !.seasonByYear = Put(@, r.year, s.nextId)]

\* A team, by its exact cleaned name.
WithTeam(s, name) ==
  IF name \in DOMAIN s.teamByName THEN s
  ELSE [s EXCEPT
          !.teams = @ \cup {[id |-> s.nextId, name |-> name]},
          !.nextId = @ + 1,
          !.teamByName = Put(@, name, s.nextId)]

\* Faulty variant: the new venue is not added to the session.
WithVenueUnadded(s, name) ==
  IF name \in DOMAIN s.venueByName THEN s
  ELSE [s EXCEPT !.nextId = @ + 1, !.venueByName = Put(@, name, s.nextId)]

\* The venue, by its exact cleaned name.
WithVenue(s, name) ==
  IF name \in DOMAIN s.venueByName THEN s
  ELSE [s EXCEPT
          !.venues = @ \cup {[id |-> s.nextId, name |-> name]},
          !.nextId = @ + 1,
          !.venueByName = Put(@, name, s.nextId)]

\* Faulty variant: the new participant is not noted.
WithParticipantForgotten(s, season, team) ==
  IF <<season, team>> \in s.seasonTeamKeys THEN s
  ELSE [s EXCEPT
          !.seasonTeams = @ \cup {[id |-> s.nextId, season |-> season, team |-> team]},
          !.nextId = @ + 1]

\* A side of the match takes part in the season.
WithParticipant(s, season, team) ==
  IF <<season, team>> \in s.seasonTeamKeys THEN s
  ELSE [s EXCEPT
          !.seasonTeams = @ \cup {[id |-> s.nextId, season |-> season, team |-> team]},
          !.nextId = @ + 1,
          !.seasonTeamKeys = @ \cup {<<season, team>>}]

\* Faulty variant: a match that exists is overwritten.
WithMatchUpdated(s, r, season, home, away) ==
  LET key == <<season, r.matchday, home, away>>
      old == {m \in s.matches : NaturalKey(m) = key}
      id  == IF old = {} THEN s.nextId ELSE (CHOOSE m \in old : TRUE).id
  IN [s EXCEPT
        !.matches = (@ \ old) \cup
          {[id |-> id, season |-> season, matchday |-> r.matchday, home |-> home,
            away |-> away, at |-> r.at, venue |-> s.venueByName[r.venue],
            status |-> "finished", score |-> r.score]},
        !.nextId = @ + 1]

\* The match, unless one with its natural key exists, which is left as it is.
WithMatch(s, r, season, home, away) ==
  LET key == <<season, r.matchday, home, away>>
  IN IF key \in s.matchKeys THEN s
     ELSE [s EXCEPT
             !.matches = @ \cup {[id |-> s.nextId, season |-> season,
                                  matchday |-> r.matchday, home |-> home, away |-> away,
                                  at |-> r.at, venue |-> s.venueByName[r.venue],
                                  status |-> "finished", score |-> r.score]},
             !.nextId = @ + 1,
             !.matchKeys = @ \cup {key}]

\* Faulty variant: only the home side is put on record.
AfterRowHomeOnly(s, parsed, r) ==
  LET t == WithVenue(WithTeam(WithTeam(WithSeason(s, parsed, r), r.home), r.away), r.venue)
      season == t.seasonByYear[r.year]
      home == t.teamByName[r.home]
  IN WithMatch(WithParticipant(t, season, home), r, season, home, t.teamByName[r.away])

\* One turn of the loop.
AfterRow(s, parsed, r) ==
  LET t == WithVenue(WithTeam(WithTeam(WithSeason(s, parsed, r), r.home), r.away), r.venue)
      season == t.seasonByYear[r.year]
      home == t.teamByName[r.home]
      away == t.teamByName[r.away]
  IN WithMatch(WithParticipant(WithParticipant(t, season, home), season, away),
               r, season, home, away)

-----------------------------------------------------------------------------
(* The run *)

Init ==
  /\ db \in StartDBs
  /\ session = NoSession
  /\ pc = "idle" /\ rows = <<>> /\ todo = {}
  /\ runs = 0
  /\ last = <<>>

\* An id by year, and an id by name: of rows that share a name, of any one.
SeasonIds(seasons) == DictOf(seasons, LAMBDA s : s.year, LAMBDA s : s.id)
NameIds(named)     == DictOf(named, LAMBDA r : r.name, LAMBDA r : r.id)

\* Faulty variant: the venues of the database are not read.
LookupsWithoutVenues(d) ==
  {[seasonByYear |-> seasons, teamByName |-> teams, venueByName |-> <<>>,
    matchKeys |-> {NaturalKey(m) : m \in d.matches},
    seasonTeamKeys |-> {<<p.season, p.team>> : p \in d.seasonTeams}] :
     seasons \in SeasonIds(d.seasons),
     teams \in NameIds(d.teams)}

\* The lookups a session opens with.
Lookups(d) ==
  {[seasonByYear |-> seasons, teamByName |-> teams, venueByName |-> venues,
    matchKeys |-> {NaturalKey(m) : m \in d.matches},
    seasonTeamKeys |-> {<<p.season, p.team>> : p \in d.seasonTeams}] :
     seasons \in SeasonIds(d.seasons),
     teams \in NameIds(d.teams),
     venues \in NameIds(d.venues)}

\* Download, parse, read the tables.
Open(file) ==
  /\ pc = "idle"
  /\ runs < MaxRuns
  /\ ParsedRows(file) # <<>>
  /\ rows' = ParsedRows(file)
  /\ \E lookups \in Lookups(db) :
       session' = Joined([open |-> TRUE, nextId |-> FirstFreeId(db)], Joined(lookups, db))
  /\ todo' = DOMAIN rows'
  /\ pc' = "rows"
  /\ runs' = runs + 1
  /\ UNCHANGED <<db, last>>

\* A file without a usable row opens no session.
NothingToImport(file) ==
  /\ pc = "idle"
  /\ runs < MaxRuns
  /\ ParsedRows(file) = <<>>
  /\ runs' = runs + 1
  /\ UNCHANGED <<db, session, pc, rows, todo, last>>

\* No flush of a turn is ever refused: see FlushesSucceed.
ImportRow ==
  /\ pc = "rows"
  /\ todo # {}
  /\ session' = AfterRow(session, rows, rows[Lowest(todo)])
  /\ todo' = todo \ {Lowest(todo)}
  /\ UNCHANGED <<db, pc, rows, runs, last>>

Commit ==
  /\ pc = "rows"
  /\ todo = {}
  /\ db' = Rows(session)
  /\ last' = rows
  /\ session' = NoSession
  /\ pc' = "idle"
  /\ UNCHANGED <<rows, todo, runs>>

\* The process or its connection dies; the server rolls the transaction back.
Crash ==
  /\ pc = "rows"
  /\ session' = NoSession
  /\ pc' = "idle"
  /\ UNCHANGED <<db, rows, todo, runs, last>>

Done == pc = "idle" /\ runs = MaxRuns /\ UNCHANGED vars

Next ==
  \/ \E file \in Files : Open(file) \/ NothingToImport(file)
  \/ ImportRow \/ Commit \/ Crash \/ Done

Spec == Init /\ [][Next]_vars

-----------------------------------------------------------------------------
(* Properties *)

\* Shapes of the state; what is committed has no dangling reference.
TypeOK ==
  /\ DOMAIN db = Tables /\ ReferencesHold(db)
  /\ pc \in {"idle", "rows"}
  /\ session.open <=> pc = "rows"
  /\ session.open => ReferencesHold(Rows(session))
  /\ runs \in 0..MaxRuns
  /\ todo \subseteq DOMAIN rows

\* The loop asks its lookups before it inserts, never the database: they must
\* be right for every constraint of models.py, or a flush fails and the whole
\* file with it.  They are, on a database the mapper has filled too, and
\* through duplicated rows and editions that overlap.
FlushesSucceed == session.open => SchemaHolds(Rows(session))

\* season_teams: whoever is on record for a season has a match in it, and the
\* sides of every row of the last file are on record, those of matches that
\* existed before included.
Sides(d) == UNION {{<<m.season, m.home>>, <<m.season, m.away>>} : m \in d.matches}
OnRecord(year, name) ==
  \E p \in db.seasonTeams :
    RowOf(db.seasons, p.season).year = year /\ RowOf(db.teams, p.team).name = name

ParticipantsPlayed ==
  /\ {<<p.season, p.team>> : p \in db.seasonTeams} \subseteq Sides(db)
  /\ \A i \in DOMAIN last :
       OnRecord(last[i].year, last[i].home) /\ OnRecord(last[i].year, last[i].away)

\* "Idempotent": committing again the file committed last changes no row.
RerunChangesNothing == [][rows = last /\ pc = "rows" => db' = db]_vars

\* Fixture by fixture, under the names and the year it is known by, a run adds
\* what is missing and overrules nobody: not an older edition, not the mapper.
FixtureOf(d, m) ==
  [year |-> RowOf(d.seasons, m.season).year, matchday |-> m.matchday,
   home |-> NameOf(d.teams, m.home), away |-> NameOf(d.teams, m.away)]
FactsOf(d, m) ==
  [at |-> m.at, venue |-> NameOf(d.venues, m.venue), status |-> m.status,
   score |-> m.score]
Archived(d) ==
  [fixture \in {FixtureOf(d, m) : m \in d.matches} |->
     FactsOf(d, CHOOSE m \in d.matches : FixtureOf(d, m) = fixture)]

\* Of two rows for one fixture the first counts.
NamedIn(r) ==
  [year |-> r.year, matchday |-> r.matchday, home |-> r.home, away |-> r.away]
FactsIn(r) ==
  [at |-> r.at, venue |-> r.venue, status |-> "finished", score |-> r.score]
ReportOf(parsed) ==
  [fixture \in {NamedIn(parsed[i]) : i \in DOMAIN parsed} |->
     FactsIn(parsed[Lowest({i \in DOMAIN parsed : NamedIn(parsed[i]) = fixture})])]

FileReports == {ReportOf(ParsedRows(file)) : file \in Files}
FoundArchives == {Archived(d) : d \in StartDBs}

Archive == INSTANCE FixtureArchive
             WITH Starts <- FoundArchives, Reports <- FileReports,
                  archive <- Archived(db)
ImplementsArchive == Archive!Spec
=============================================================================
