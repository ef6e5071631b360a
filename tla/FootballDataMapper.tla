------------------------- MODULE FootballDataMapper -------------------------
(***************************************************************************)
(* src/ingestion/football_data_mapper.py: import_matches, run again and    *)
(* again with what football-data.org reports for a season.                 *)
(*                                                                         *)
(* One run is one transaction.  Its private view of the database is the    *)
(* record `session`: the rows as its own flushes left them, and the five   *)
(* dictionaries it built from them when it opened and keeps up by hand.    *)
(* A run commits that view or drops it.                                    *)
(***************************************************************************)
EXTENDS CoreSchema, Naturals, Sequences

CONSTANTS Feeds,       \* what the API may report: records [year, rows]
          StartDBs,    \* databases the first run may find
          MaxRuns,     \* bound: runs in a behaviour
          Cleaned,     \* _clean_text, per raw text
          Lowered      \* str.lower, per cleaned text

ASSUME MapperAssumption ==
  /\ MaxRuns \in Nat
  /\ \A d \in StartDBs : Sound(d)
  /\ None \notin Feeds
  /\ \A f \in Feeds : /\ f.rows \in Seq({f.rows[i] : i \in DOMAIN f.rows})
                      /\ \A i \in DOMAIN f.rows : f.rows[i].at \in Int

VARIABLES db,       \* the committed rows
          session,  \* the running import's view
          pc,       \* "idle", "rows" in the loop, "raised" after an IntegrityError
          row,      \* the raw match the loop is at
          feed,     \* raw_matches and season_year of the run
          runs,     \* runs started so far
          last      \* history: the feed of the last run that committed

vars == <<db, session, pc, row, feed, runs, last>>

NoSession == [open |-> FALSE]
Rows(s) == [t \in Tables |-> s[t]]

-----------------------------------------------------------------------------
(* Statuses *)

ScheduledInApi == {"SCHEDULED", "TIMED", "IN_PLAY", "PAUSED", "EXTRA_TIME",
                   "PENALTY_SHOOTOUT"}

\* _map_status: an unknown status counts as scheduled.
MapStatus(raw) ==
  CASE raw \in ScheduledInApi            -> "scheduled"
    [] raw \in {"FINISHED", "AWARDED"}   -> "finished"
    [] raw = "POSTPONED"                 -> "postponed"
    [] raw \in {"SUSPENDED", "CANCELLED"} -> "cancelled"
    [] OTHER                             -> "scheduled"

NonTerminal == {"scheduled", "postponed"}

-----------------------------------------------------------------------------
(* Opening the session: the season, then the dictionaries *)

\* The dates and the status the whole batch implies, rows the loop will skip
\* included.
BatchRows(f) == {f.rows[i] : i \in DOMAIN f.rows}
BatchDates(f) == {UtcDate(r.at) : r \in BatchRows(f)}
\* Faulty variant: in progress only while every fixture is open.
BatchStatusOfAll(f) ==
  IF \A r \in BatchRows(f) : MapStatus(r.status) \in NonTerminal
    THEN "in_progress" ELSE "finished"

BatchStatus(f) ==
  IF \E r \in BatchRows(f) : MapStatus(r.status) \in NonTerminal
    THEN "in_progress" ELSE "finished"

\* Faulty variant: the end of a known season is never moved.
SeasonNeverExtended(f, nextId) ==
  LET known == {s \in db.seasons : s.year = f.year}
      new   == [id |-> nextId, year |-> f.year, status |-> BatchStatus(f),
                start |-> Lowest(BatchDates(f)), end |-> Highest(BatchDates(f))]
  IN IF known = {} THEN new
     ELSE LET s == CHOOSE s \in known : TRUE
          IN [s EXCEPT !.start = Lowest({@, new.start}), !.status = new.status]

\* The season row of the run: inserted, or widened and given the batch's status.
SeasonAfter(f, nextId) ==
  LET known == {s \in db.seasons : s.year = f.year}
      new   == [id |-> nextId, year |-> f.year, status |-> BatchStatus(f),
                start |-> Lowest(BatchDates(f)), end |-> Highest(BatchDates(f))]
  IN IF known = {} THEN new
     ELSE LET s == CHOOSE s \in known : TRUE
          IN [id |-> s.id, year |-> s.year, status |-> new.status,
              start |-> Lowest({s.start, new.start}), end |-> Highest({s.end, new.end})]

\* Faulty variant: the links of the other provider.
OfOtherSource(links) == {l \in links : l.source = ApiFootball}

\* .where(TeamExternalId.source == SOURCE), and the same for matches.
OfSource(links) == {l \in links : l.source = FootballData}

-----------------------------------------------------------------------------
(* One raw match *)

\* Faulty variant: the new team is not entered in the dictionary of names.
ResolveTeamUnnamed(s, api) ==
  IF api.id \in DOMAIN s.teamByExt THEN s
  ELSE LET name  == Cleaned[api.name]
           key   == Lowered[name]
           known == key \in DOMAIN s.teamByName
           team  == IF known THEN s.teamByName[key] ELSE s.nextId
       IN [s EXCEPT
             !.teams = IF known THEN @ ELSE @ \cup {[id |-> team, name |-> name]},
             !.nextId = @ + 2,
             !.teamLinks = @ \cup {[id |-> s.nextId + 1, team |-> team,
                                   source |-> FootballData, ext |-> api.id]},
             !.teamByExt = Put(@, api.id, team)]

\* Faulty variant: a team found by name is renamed to what the API calls it.
ResolveTeamRenaming(s, api) ==
  IF api.id \in DOMAIN s.teamByExt THEN s
  ELSE LET name  == Cleaned[api.name]
           key   == Lowered[name]
           known == key \in DOMAIN s.teamByName
           team  == IF known THEN s.teamByName[key] ELSE s.nextId
       IN [s EXCEPT
             !.teams = {t \in @ : t.id # team} \cup {[id |-> team, name |-> name]},
             !.nextId = @ + 2,
             !.teamByName = Put(@, key, team),
             !.teamLinks = @ \cup {[id |-> s.nextId + 1, team |-> team,
                                   source |-> FootballData, ext |-> api.id]},
             !.teamByExt = Put(@, api.id, team)]

\* Faulty variant: the team is not linked to the external id.
ResolveTeamUnlinked(s, api) ==
  IF api.id \in DOMAIN s.teamByExt THEN s
  ELSE LET name  == Cleaned[api.name]
           key   == Lowered[name]
           known == key \in DOMAIN s.teamByName
           team  == IF known THEN s.teamByName[key] ELSE s.nextId
       IN [s EXCEPT
             !.teams = IF known THEN @ ELSE @ \cup {[id |-> team, name |-> name]},
             !.nextId = @ + 1,
             !.teamByName = Put(@, key, team),
             !.teamByExt = Put(@, api.id, team)]

\* _resolve_team: by external id, else by name, else a new team; found by name
\* or new, it is linked to the external id.
ResolveTeam(s, api) ==
  IF api.id \in DOMAIN s.teamByExt THEN s
  ELSE LET name  == Cleaned[api.name]
           key   == Lowered[name]
           known == key \in DOMAIN s.teamByName
           team  == IF known THEN s.teamByName[key] ELSE s.nextId
       IN [s EXCEPT
             !.teams = IF known THEN @ ELSE @ \cup {[id |-> team, name |-> name]},
             !.nextId = @ + 2,
             !.teamByName = Put(@, key, team),
             !.teamLinks = @ \cup {[id |-> s.nextId + 1, team |-> team,
                                   source |-> FootballData, ext |-> api.id]},
             !.teamByExt = Put(@, api.id, team)]

\* A venue is given only by a text with something in it.
Venueless(raw) == raw = None \/ Cleaned[raw] = ""

\* Faulty variant: the new venue is not added to the session.
ResolveVenueUnadded(s, raw) ==
  IF Venueless(raw) \/ Cleaned[raw] \in DOMAIN s.venueByName THEN s
  ELSE [s EXCEPT
          !.nextId = @ + 1,
          !.venueByName = Put(@, Cleaned[raw], s.nextId)]

\* _resolve_venue: by exact cleaned name.
ResolveVenue(s, raw) ==
  IF Venueless(raw) \/ Cleaned[raw] \in DOMAIN s.venueByName THEN s
  ELSE [s EXCEPT
          !.venues = @ \cup {[id |-> s.nextId, name |-> Cleaned[raw]]},
          !.nextId = @ + 1,
          !.venueByName = Put(@, Cleaned[raw], s.nextId)]

VenueId(s, raw) == IF Venueless(raw) THEN None ELSE s.venueByName[Cleaned[raw]]

\* Faulty variant: the venue of a match that exists is left as it was.
OverwrittenButVenue(m, s, raw) ==
  [m EXCEPT !.status = MapStatus(raw.status), !.at = raw.at, !.score = raw.score]

\* The fields a run overwrites in a match that exists; matchday and teams stay.
Overwritten(m, s, raw) ==
  [id |-> m.id, season |-> m.season, matchday |-> m.matchday, home |-> m.home, away |-> m.away,
   at |-> raw.at, venue |-> VenueId(s, raw.venue), status |-> MapStatus(raw.status),
   score |-> raw.score]

\* The tail of the loop body: update the match linked to the external id, else
\* link and update the one with the natural key, else insert and link.
UpsertMatch(s, raw) ==
  LET home == s.teamByExt[raw.home.id]
      away == s.teamByExt[raw.away.id]
      key  == <<s.season, raw.matchday, home, away>>
      linked == raw.id \in DOMAIN s.matchByExt
      found  == linked \/ key \in DOMAIN s.matchByKey
      match  == IF linked THEN s.matchByExt[raw.id]
                ELSE IF found THEN s.matchByKey[key] ELSE s.nextId
      new == [id |-> match, season |-> s.season, matchday |-> raw.matchday,
              home |-> home, away |-> away, at |-> raw.at,
              venue |-> VenueId(s, raw.venue),
              status |-> MapStatus(raw.status), score |-> raw.score]
  IN [s EXCEPT
        !.matches = IF found
                      THEN {IF m.id = match THEN Overwritten(m, s, raw) ELSE m : m \in @}
                      ELSE @ \cup {new},
        !.nextId = @ + 2,
        !.matchByKey = IF found THEN @ ELSE Put(@, key, match),
        !.matchLinks = IF linked THEN @
                       ELSE @ \cup {[id |-> s.nextId + 1, match |-> match,
                                     source |-> FootballData, ext |-> raw.id]},
        !.matchByExt = Put(@, raw.id, match)]

\* One turn of the loop over a row that has a matchday.
AfterRow(s, raw) ==
  UpsertMatch(
    ResolveVenue(ResolveTeam(ResolveTeam(s, raw.home), raw.away), raw.venue), raw)

-----------------------------------------------------------------------------
(* The run *)

Init ==
  /\ db \in StartDBs
  /\ session = NoSession
  /\ pc = "idle"
  /\ row = 1
  /\ feed = None
  /\ runs = 0
  /\ last = None

\* The five dictionaries.
LinkedTeams(links)   == DictOf(links, LAMBDA l : l.ext, LAMBDA l : l.team)
FoldedTeams(teams)   == DictOf(teams, LAMBDA t : Lowered[t.name], LAMBDA t : t.id)
NamedVenues(venues)  == DictOf(venues, LAMBDA v : v.name, LAMBDA v : v.id)
LinkedMatches(links) == DictOf(links, LAMBDA l : l.ext, LAMBDA l : l.match)
KeyedMatches(matches) == DictOf(matches, NaturalKey, LAMBDA m : m.id)

\* Those of a session over the rows d it has read.
Dictionaries(d) ==
  {[teamByExt |-> teamByExt, teamByName |-> teamByName, venueByName |-> venueByName,
    matchByExt |-> matchByExt, matchByKey |-> matchByKey] :
     teamByExt \in LinkedTeams(OfSource(d.teamLinks)), teamByName \in FoldedTeams(d.teams),
     venueByName \in NamedVenues(d.venues),
     matchByExt \in LinkedMatches(OfSource(d.matchLinks)),
     matchByKey \in KeyedMatches(d.matches)}

\* import_matches up to the loop.
Open(f) ==
  /\ pc = "idle"
  /\ runs < MaxRuns
  /\ f.rows # <<>>
  /\ LET season == SeasonAfter(f, FirstFreeId(db)) IN
     \E dictionaries \in Dictionaries(db) :
       session' =
         Joined([open |-> TRUE, season |-> season.id,
                 nextId |-> Highest({FirstFreeId(db), season.id + 1})],
                Joined(dictionaries,
                       [db EXCEPT !.seasons = {s \in @ : s.id # season.id} \cup {season}]))
  /\ feed' = f
  /\ row' = 1
  /\ pc' = "rows"
  /\ runs' = runs + 1
  /\ UNCHANGED <<db, last>>

\* A run called with no matches returns before it opens a session.
NothingToImport(f) ==
  /\ pc = "idle"
  /\ runs < MaxRuns
  /\ f.rows = <<>>
  /\ runs' = runs + 1
  /\ UNCHANGED <<db, session, pc, row, feed, last>>

InLoop == pc = "rows" /\ row <= Len(feed.rows)

\* A fixture without a matchday is passed over.
SkipRow ==
  /\ InLoop
  /\ feed.rows[row].matchday = None
  /\ row' = row + 1
  /\ UNCHANGED <<db, session, pc, feed, runs, last>>

\* The flushes of one turn go through.
ImportRow ==
  /\ InLoop
  /\ feed.rows[row].matchday # None
  /\ SchemaHolds(AfterRow(session, feed.rows[row]))
  /\ session' = AfterRow(session, feed.rows[row])
  /\ row' = row + 1
  /\ UNCHANGED <<db, pc, feed, runs, last>>

\* A flush is refused: the exception leaves the with block, which rolls back.
RowRaises ==
  /\ InLoop
  /\ feed.rows[row].matchday # None
  /\ ~SchemaHolds(AfterRow(session, feed.rows[row]))
  /\ pc' = "raised"
  /\ session' = NoSession
  /\ UNCHANGED <<db, row, feed, runs, last>>

Commit ==
  /\ pc = "rows"
  /\ row > Len(feed.rows)
  /\ db' = Rows(session)
  /\ last' = feed
  /\ session' = NoSession
  /\ pc' = "idle"
  /\ UNCHANGED <<row, feed, runs>>

\* The process or its connection dies; the server rolls the transaction back.
Crash ==
  /\ pc = "rows"
  /\ session' = NoSession
  /\ pc' = "idle"
  /\ UNCHANGED <<db, row, feed, runs, last>>

\* The traceback ends the process; the operator may run the import again.
GiveUp ==
  /\ pc = "raised"
  /\ pc' = "idle"
  /\ UNCHANGED <<db, session, row, feed, runs, last>>

Done == pc = "idle" /\ runs = MaxRuns /\ UNCHANGED vars

Next ==
  \/ \E f \in Feeds : Open(f) \/ NothingToImport(f)
  \/ SkipRow \/ ImportRow \/ RowRaises
  \/ Commit \/ Crash \/ GiveUp \/ Done

Spec == Init /\ [][Next]_vars

-----------------------------------------------------------------------------
(* Properties *)

\* Committed data satisfy models.py, and nothing is seen of an open session.
TypeOK ==
  /\ DOMAIN db = Tables
  /\ SchemaHolds(db) /\ ReferencesHold(db)
  /\ pc \in {"idle", "rows", "raised"}
  /\ session.open <=> pc = "rows"
  /\ runs \in 0..MaxRuns
  /\ feed \in Feeds \cup {None} /\ last \in Feeds \cup {None}
  /\ pc = "rows" => row \in 1..(Len(feed.rows) + 1)

\* The five dictionaries, filled once and kept up by hand through the loop, say
\* at every turn what the session's own rows say: a lookup neither misses a row
\* the run has written nor answers with another's.
DictionariesMirrorRows ==
  session.open =>
    /\ \A l \in OfSource(session.teamLinks) :
         l.ext \in DOMAIN session.teamByExt /\ session.teamByExt[l.ext] = l.team
    /\ \A t \in session.teams :
         /\ Lowered[t.name] \in DOMAIN session.teamByName
         /\ session.teamByName[Lowered[t.name]] = t.id
    /\ \A v \in session.venues :
         v.name \in DOMAIN session.venueByName /\ session.venueByName[v.name] = v.id
    /\ \A l \in OfSource(session.matchLinks) :
         l.ext \in DOMAIN session.matchByExt /\ session.matchByExt[l.ext] = l.match
    /\ \A m \in session.matches :
         /\ NaturalKey(m) \in DOMAIN session.matchByKey
         /\ session.matchByKey[NaturalKey(m)] = m.id
    /\ DOMAIN session.teamByExt = {l.ext : l \in OfSource(session.teamLinks)}
    /\ DOMAIN session.matchByExt = {l.ext : l \in OfSource(session.matchLinks)}

\* A season is marked finished only when none of its fixtures is still open.
FinishedSeasonIsOver ==
  \A m \in db.matches :
    RowOf(db.seasons, m.season).status = "finished" => m.status \notin NonTerminal

\* "Idempotent": importing again what was imported last neither fails nor
\* changes a committed row, whatever crashed in between.
ReimportIsSafe ==
  [][feed = last /\ pc = "rows" => pc' # "raised" /\ db' = db]_vars

\* No run, committed or not, loses a row, gives one to another club or fixture,
\* or touches the links of another provider.
NothingIsLost ==
  [][/\ db.teams \subseteq db'.teams /\ db.venues \subseteq db'.venues
     /\ db.teamLinks \subseteq db'.teamLinks
     /\ db.matchLinks \subseteq db'.matchLinks
     /\ \A m \in db.matches : \E n \in db'.matches :
          n.id = m.id /\ NaturalKey(n) = NaturalKey(m)]_vars

\* What is committed is, fixture by fixture, what the API reported last, teams
\* and venue by their own names: the run's flushes, dictionaries, retries and
\* rollbacks come to one atomic replacement.
TeamExt(d, team) ==
  (CHOOSE l \in OfSource(d.teamLinks) : l.team = team).ext
LinkedMatch(d, ext) ==
  RowOf(d.matches, (CHOOSE l \in OfSource(d.matchLinks) : l.ext = ext).match)

FactsOf(d, m) ==
  [year |-> RowOf(d.seasons, m.season).year, matchday |-> m.matchday,
   home |-> TeamExt(d, m.home), away |-> TeamExt(d, m.away), at |-> m.at,
   venue |-> NameOf(d.venues, m.venue), status |-> m.status, score |-> m.score]

StoredFacts(d) ==
  [ext \in {l.ext : l \in OfSource(d.matchLinks)} |-> FactsOf(d, LinkedMatch(d, ext))]

Reported(f, r) ==
  [year |-> f.year, matchday |-> r.matchday, home |-> r.home.id, away |-> r.away.id,
   at |-> r.at, venue |-> IF Venueless(r.venue) THEN None ELSE Cleaned[r.venue],
   status |-> MapStatus(r.status), score |-> r.score]

ReportedRows(f) == {r \in BatchRows(f) : r.matchday # None}
ReportOf(f) ==
  [ext \in {r.id : r \in ReportedRows(f)} |->
     Reported(f, CHOOSE r \in ReportedRows(f) : r.id = ext)]

FeedReports == {ReportOf(f) : f \in Feeds}

Store == INSTANCE FixtureStore WITH Reports <- FeedReports, store <- StoredFacts(db)
ImplementsStore == Store!Spec

\* The docstring: a fixture not yet linked falls back to the natural key and
\* updates the row in place, so that importing what the API reports does not
\* fail on rows that are already there.
ImportNeverRaises == pc # "raised"
=============================================================================
