--------------------- MODULE BootstrapHistorical_proofs ---------------------
(***************************************************************************)
(* Theorems of BootstrapHistorical, for every file and every sound         *)
(* database it may find: no flush of an import fails.                      *)
(***************************************************************************)
EXTENDS BootstrapHistorical, CoreSchema_proofs

-----------------------------------------------------------------------------
(* A session that is right *)

SessionFields == Tables \cup {"open", "nextId", "seasonByYear", "teamByName",
                              "venueByName", "matchKeys", "seasonTeamKeys"}

\* The five lookups say what the session's own rows say.
LookupsMirrorRows(s) ==
  /\ DOMAIN s.seasonByYear = {q.year : q \in s.seasons}
  /\ \A q \in s.seasons : s.seasonByYear[q.year] = q.id
  /\ DOMAIN s.teamByName = {t.name : t \in s.teams}
  /\ \A n \in DOMAIN s.teamByName :
       \E t \in s.teams : t.name = n /\ t.id = s.teamByName[n]
  /\ DOMAIN s.venueByName = {v.name : v \in s.venues}
  /\ \A n \in DOMAIN s.venueByName :
       \E v \in s.venues : v.name = n /\ v.id = s.venueByName[n]
  /\ s.matchKeys = {NaturalKey(m) : m \in s.matches}
  /\ s.seasonTeamKeys = {<<p.season, p.team>> : p \in s.seasonTeams}

SessionHolds(s) ==
  /\ DOMAIN s = SessionFields
  /\ IdsBelow(s)
  /\ \A t \in Tables : UniqueOn(s[t], LAMBDA r : r.id)
  /\ ColumnsHold(s) /\ SchemaHolds(s) /\ ReferencesHold(s)
  /\ LookupsMirrorRows(s)

\* A team is found, or added with its name.
LEMMA WithTeamHolds ==
  ASSUME NEW s, SessionHolds(s), NEW name
  PROVE  SessionHolds(WithTeam(s, name)) /\ name \in DOMAIN WithTeam(s, name).teamByName
<1> DEFINE t == WithTeam(s, name)
           new == [id |-> s.nextId, name |-> name]
<1>1. CASE name \in DOMAIN s.teamByName
  BY <1>1 DEF WithTeam
<1>2. CASE name \notin DOMAIN s.teamByName
  <2> USE TableNames DEF SessionHolds
  <2>1. /\ DOMAIN t = SessionFields
        /\ t.teams = s.teams \cup {new}
        /\ t.nextId = s.nextId + 1
        /\ t.teamByName = Put(s.teamByName, name, s.nextId)
        /\ \A f \in SessionFields \ {"teams", "nextId", "teamByName"} : t[f] = s[f]
    BY <1>2 DEF WithTeam, SessionFields
  <2>2. /\ t.seasons = s.seasons /\ t.teamLinks = s.teamLinks /\ t.venues = s.venues
        /\ t.matches = s.matches /\ t.matchLinks = s.matchLinks
        /\ t.seasonTeams = s.seasonTeams /\ t.stats = s.stats
        /\ t.seasonByYear = s.seasonByYear /\ t.venueByName = s.venueByName
        /\ t.matchKeys = s.matchKeys /\ t.seasonTeamKeys = s.seasonTeamKeys
    BY <2>1 DEF SessionFields
  <2> HIDE DEF t
  <2>3. RowAdded(s, t, "teams", new)
    BY <2>1, <2>2 DEF RowAdded
  <2>8. /\ DOMAIN t.teamByName = DOMAIN s.teamByName \cup {name}
        /\ t.teamByName[name] = s.nextId
        /\ \A n \in DOMAIN s.teamByName : n # name => t.teamByName[n] = s.teamByName[n]
    BY <2>1 DEF Put
  <2>0. new.id = s.nextId /\ new.name = name
    OBVIOUS
  <2> HIDE DEF new
  <2>4. IdsBelow(t) /\ \A u \in Tables : UniqueOn(t[u], LAMBDA r : r.id)
    BY <2>3, RowAddedKeepsIds
  <2>5. ColumnsHold(t) /\ SchemaHolds(t)
    BY <2>2 DEF ColumnsHold, SchemaHolds, SeasonsUnique, TeamLinksUnique, MatchesUnique,
       MatchLinksUnique, SeasonTeamsUnique, StatsUnique, SidesDistinct
  <2>6. ReferencesHold(t)
    <3>1. IdsOf(s.teams) \subseteq IdsOf(t.teams)
      BY <2>1 DEF IdsOf
    <3> QED
      BY <2>2, <3>1 DEF ReferencesHold
  <2>7. LookupsMirrorRows(t)
    <3>1. DOMAIN t.teamByName = {u.name : u \in t.teams}
      BY <2>0, <2>1, <2>8 DEF LookupsMirrorRows
    <3>2. \A n \in DOMAIN t.teamByName :
            \E u \in t.teams : u.name = n /\ u.id = t.teamByName[n]
      BY <2>0, <2>1, <2>8 DEF LookupsMirrorRows
    <3> QED
      BY <2>2, <3>1, <3>2 DEF LookupsMirrorRows
  <2> QED
    BY <2>1, <2>4, <2>5, <2>6, <2>7, <2>8 DEF t
<1> QED
  BY <1>1, <1>2

\* A venue, likewise.
LEMMA WithVenueHolds ==
  ASSUME NEW s, SessionHolds(s), NEW name
  PROVE  SessionHolds(WithVenue(s, name)) /\ name \in DOMAIN WithVenue(s, name).venueByName
<1> DEFINE t == WithVenue(s, name)
           new == [id |-> s.nextId, name |-> name]
<1>1. CASE name \in DOMAIN s.venueByName
  BY <1>1 DEF WithVenue
<1>2. CASE name \notin DOMAIN s.venueByName
  <2> USE TableNames DEF SessionHolds
  <2>1. /\ DOMAIN t = SessionFields
        /\ t.venues = s.venues \cup {new}
        /\ t.nextId = s.nextId + 1
        /\ t.venueByName = Put(s.venueByName, name, s.nextId)
        /\ \A f \in SessionFields \ {"venues", "nextId", "venueByName"} : t[f] = s[f]
    BY <1>2 DEF WithVenue, SessionFields
  <2>2. /\ t.seasons = s.seasons /\ t.teamLinks = s.teamLinks /\ t.teams = s.teams
        /\ t.matches = s.matches /\ t.matchLinks = s.matchLinks
        /\ t.seasonTeams = s.seasonTeams /\ t.stats = s.stats
        /\ t.seasonByYear = s.seasonByYear /\ t.teamByName = s.teamByName
        /\ t.matchKeys = s.matchKeys /\ t.seasonTeamKeys = s.seasonTeamKeys
    BY <2>1 DEF SessionFields
  <2> HIDE DEF t
  <2>3. RowAdded(s, t, "venues", new)
    BY <2>1, <2>2 DEF RowAdded
  <2>4. /\ DOMAIN t.venueByName = DOMAIN s.venueByName \cup {name}
        /\ t.venueByName[name] = s.nextId
        /\ \A n \in DOMAIN s.venueByName : n # name => t.venueByName[n] = s.venueByName[n]
    BY <2>1 DEF Put
  <2>5. new.id = s.nextId /\ new.name = name
    OBVIOUS
  <2> HIDE DEF new
  <2>6. IdsBelow(t) /\ \A u \in Tables : UniqueOn(t[u], LAMBDA r : r.id)
    BY <2>3, RowAddedKeepsIds
  <2>7. ColumnsHold(t) /\ SchemaHolds(t)
    BY <2>2 DEF ColumnsHold, SchemaHolds, SeasonsUnique, TeamLinksUnique, MatchesUnique,
       MatchLinksUnique, SeasonTeamsUnique, StatsUnique, SidesDistinct
  <2>8. ReferencesHold(t)
    <3>1. IdsOf(s.venues) \subseteq IdsOf(t.venues)
      BY <2>1 DEF IdsOf
    <3> QED
      BY <2>2, <3>1 DEF ReferencesHold
  <2>9. LookupsMirrorRows(t)
    <3>1. DOMAIN t.venueByName = {u.name : u \in t.venues}
      BY <2>1, <2>4, <2>5 DEF LookupsMirrorRows
    <3>2. \A n \in DOMAIN t.venueByName :
            \E u \in t.venues : u.name = n /\ u.id = t.venueByName[n]
      BY <2>1, <2>4, <2>5 DEF LookupsMirrorRows
    <3> QED
      BY <2>2, <3>1, <3>2 DEF LookupsMirrorRows
  <2> QED
    BY <2>1, <2>4, <2>6, <2>7, <2>8, <2>9 DEF t
<1> QED
  BY <1>1, <1>2

\* A side of a match takes part in its season, once.
LEMMA WithParticipantHolds ==
  ASSUME NEW s, SessionHolds(s),
         NEW season \in IdsOf(s.seasons), NEW team \in IdsOf(s.teams)
  PROVE  SessionHolds(WithParticipant(s, season, team))
<1> DEFINE t == WithParticipant(s, season, team)
           new == [id |-> s.nextId, season |-> season, team |-> team]
<1>1. CASE <<season, team>> \in s.seasonTeamKeys
  BY <1>1 DEF WithParticipant
<1>2. CASE <<season, team>> \notin s.seasonTeamKeys
  <2> USE TableNames DEF SessionHolds
  <2>1. /\ DOMAIN t = SessionFields
        /\ t.seasonTeams = s.seasonTeams \cup {new}
        /\ t.nextId = s.nextId + 1
        /\ t.seasonTeamKeys = s.seasonTeamKeys \cup {<<season, team>>}
        /\ \A f \in SessionFields \ {"seasonTeams", "nextId", "seasonTeamKeys"} : t[f] = s[f]
    BY <1>2 DEF WithParticipant, SessionFields
  <2>2. /\ t.seasons = s.seasons /\ t.teamLinks = s.teamLinks /\ t.teams = s.teams
        /\ t.matches = s.matches /\ t.matchLinks = s.matchLinks
        /\ t.venues = s.venues /\ t.stats = s.stats
        /\ t.seasonByYear = s.seasonByYear /\ t.teamByName = s.teamByName
        /\ t.matchKeys = s.matchKeys /\ t.venueByName = s.venueByName
    BY <2>1 DEF SessionFields
  <2> HIDE DEF t
  <2>3. RowAdded(s, t, "seasonTeams", new)
    BY <2>1, <2>2 DEF RowAdded
  <2>4. new.season = season /\ new.team = team
    OBVIOUS
  <2> HIDE DEF new
  <2>5. IdsBelow(t) /\ \A u \in Tables : UniqueOn(t[u], LAMBDA r : r.id)
    BY <2>3, RowAddedKeepsIds
  <2>6. ColumnsHold(t)
    BY <2>2 DEF ColumnsHold
  <2>7. SchemaHolds(t)
    <3>1. SeasonTeamsUnique(t)
      BY <1>2, <2>1, <2>4 DEF LookupsMirrorRows, SchemaHolds, SeasonTeamsUnique, UniqueOn
    <3> QED
      BY <2>2, <3>1 DEF SchemaHolds, SeasonsUnique, TeamLinksUnique, MatchesUnique,
         MatchLinksUnique, StatsUnique, SidesDistinct
  <2>8. ReferencesHold(t)
    BY <2>1, <2>2, <2>4 DEF ReferencesHold
  <2>9. LookupsMirrorRows(t)
    BY <2>1, <2>2, <2>4 DEF LookupsMirrorRows
  <2> QED
    BY <2>1, <2>5, <2>6, <2>7, <2>8, <2>9 DEF t
<1> QED
  BY <1>1, <1>2

\* A match with a natural key of its own, or none.
LEMMA WithMatchHolds ==
  ASSUME NEW s, SessionHolds(s), NEW r, r.venue \in DOMAIN s.venueByName,
         NEW season \in IdsOf(s.seasons),
         NEW home \in IdsOf(s.teams), NEW away \in IdsOf(s.teams), home # away
  PROVE  SessionHolds(WithMatch(s, r, season, home, away))
<1> DEFINE t == WithMatch(s, r, season, home, away)
           key == <<season, r.matchday, home, away>>
           new == [id |-> s.nextId, season |-> season, matchday |-> r.matchday,
                   home |-> home, away |-> away, at |-> r.at,
                   venue |-> s.venueByName[r.venue], status |-> "finished",
                   score |-> r.score]
<1>1. CASE key \in s.matchKeys
  BY <1>1 DEF WithMatch
<1>2. CASE key \notin s.matchKeys
  <2> USE TableNames DEF SessionHolds
  <2>1. /\ DOMAIN t = SessionFields
        /\ t.matches = s.matches \cup {new}
        /\ t.nextId = s.nextId + 1
        /\ t.matchKeys = s.matchKeys \cup {key}
        /\ \A f \in SessionFields \ {"matches", "nextId", "matchKeys"} : t[f] = s[f]
    BY <1>2 DEF WithMatch, SessionFields
  <2>2. /\ t.seasons = s.seasons /\ t.teamLinks = s.teamLinks /\ t.teams = s.teams
        /\ t.seasonTeams = s.seasonTeams /\ t.matchLinks = s.matchLinks
        /\ t.venues = s.venues /\ t.stats = s.stats
        /\ t.seasonByYear = s.seasonByYear /\ t.teamByName = s.teamByName
        /\ t.seasonTeamKeys = s.seasonTeamKeys /\ t.venueByName = s.venueByName
    BY <2>1 DEF SessionFields
  <2> HIDE DEF t
  <2>3. RowAdded(s, t, "matches", new)
    BY <2>1, <2>2 DEF RowAdded
  <2>4. /\ new.season = season /\ new.home = home /\ new.away = away
        /\ new.venue = s.venueByName[r.venue] /\ NaturalKey(new) = key
        /\ new = [id |-> new.id, season |-> new.season, matchday |-> new.matchday,
                  home |-> new.home, away |-> new.away, at |-> new.at,
                  venue |-> new.venue, status |-> new.status, score |-> new.score]
    BY DEF NaturalKey
  <2> HIDE DEF new, key
  <2>5. IdsBelow(t) /\ \A u \in Tables : UniqueOn(t[u], LAMBDA q : q.id)
    BY <2>3, RowAddedKeepsIds
  <2>6. ColumnsHold(t)
    BY <2>1, <2>2, <2>4 DEF ColumnsHold
  <2>7. SchemaHolds(t)
    <3>1. MatchesUnique(t)
      BY <1>2, <2>1, <2>4 DEF LookupsMirrorRows, SchemaHolds, MatchesUnique, UniqueOn
    <3>2. SidesDistinct(t)
      BY <2>1, <2>4 DEF SchemaHolds, SidesDistinct
    <3> QED
      BY <2>2, <3>1, <3>2 DEF SchemaHolds, SeasonsUnique, TeamLinksUnique,
         SeasonTeamsUnique, MatchLinksUnique, StatsUnique
  <2>8. ReferencesHold(t)
    <3>1. s.venueByName[r.venue] \in IdsOf(s.venues)
      BY DEF LookupsMirrorRows, IdsOf
    <3>2. IdsOf(s.matches) \subseteq IdsOf(t.matches)
      BY <2>1 DEF IdsOf
    <3> QED
      BY <2>1, <2>2, <2>4, <3>1, <3>2 DEF ReferencesHold
  <2>9. LookupsMirrorRows(t)
    BY <2>1, <2>2, <2>4 DEF LookupsMirrorRows
  <2> QED
    BY <2>1, <2>5, <2>6, <2>7, <2>8, <2>9 DEF t
<1> QED
  BY <1>1, <1>2

-----------------------------------------------------------------------------
(* The season of a row *)

\* What the proofs use of the file a run has parsed.
Dated(parsed) ==
  /\ DOMAIN parsed \subseteq Nat /\ IsFiniteSet(DOMAIN parsed)
  /\ \A i \in DOMAIN parsed : parsed[i].at \in Int

WellParsed(parsed) ==
  Dated(parsed) /\ \A i \in DOMAIN parsed : parsed[i].home # parsed[i].away

RowsHold == WellParsed(rows)

LEMMA ParsedRowsHold ==
  ASSUME NEW file \in Files, BootstrapAssumption
  PROVE  WellParsed(ParsedRows(file))
<1> DEFINE parsed == ParsedRows(file)
<1>1. DOMAIN parsed \subseteq DOMAIN file
  BY DEF ParsedRows
<1>2. DOMAIN parsed \subseteq Nat /\ IsFiniteSet(DOMAIN parsed)
  BY <1>1, FS_Subset DEF BootstrapAssumption
<1>3. ASSUME NEW i \in DOMAIN parsed
      PROVE  parsed[i].home # parsed[i].away /\ parsed[i].at \in Int
  <2> DEFINE raw == file[i]
  <2>1. parsed[i] = Parsed(raw) /\ ~Malformed(raw)
    BY DEF ParsedRows, Kept
  <2>2. Cleaned[raw.home] # Cleaned[raw.away] /\ raw.date # Bad /\ raw.time # Bad
    BY <2>1 DEF Malformed
  <2>3. raw.date \in Int /\ raw.time \in Int \cup {None}
    BY <1>1, <2>2 DEF BootstrapAssumption
  <2>4. KickOff(raw) \in Int
    BY <2>3 DEF KickOff, DefaultKickoff
  <2> QED
    BY <2>1, <2>2, <2>4 DEF Parsed
<1> HIDE DEF parsed
<1> QED
  BY <1>2, <1>3 DEF WellParsed, Dated, parsed

\* A season some row is of has a first and a last date.
LEMMA SeasonBounds ==
  ASSUME NEW parsed, Dated(parsed), NEW i \in DOMAIN parsed
  PROVE  LET dates == DatesOf(parsed, parsed[i].year) IN
         /\ dates \subseteq Int
         /\ Lowest(dates) \in dates /\ \A d \in dates : Lowest(dates) <= d
         /\ Highest(dates) \in dates /\ \A d \in dates : d <= Highest(dates)
<1> DEFINE dates == DatesOf(parsed, parsed[i].year)
           lines == {j \in DOMAIN parsed : parsed[j].year = parsed[i].year}
           f == [j \in lines |-> LocalDate(parsed[j].at)]
<1>1. IsFiniteSet(lines) /\ i \in lines
  BY FS_Subset DEF Dated
<1>2. f \in Surjection(lines, dates)
  BY DEF Surjection, DatesOf
<1>3. IsFiniteSet(dates)
  BY <1>1, <1>2, FS_Surjection
<1>4. dates # {}
  BY <1>1, <1>2 DEF Surjection
<1>5. dates \subseteq Int
  <2>1. \A j \in lines : f[j] \in Int
    BY DEF Dated, LocalDate
  <2> QED
    BY <1>2, <2>1 DEF Surjection
<1> HIDE DEF dates
<1>6. Lowest(dates) \in dates /\ \A d \in dates : Lowest(dates) <= d
  BY <1>3, <1>4, <1>5, LowestOfFinite
<1>7. Highest(dates) \in dates /\ \A d \in dates : Highest(dates) >= d
  BY <1>3, <1>4, <1>5, HighestOfFinite
<1> QED
  BY <1>5, <1>6, <1>7 DEF dates

\* The season is found and widened, or added with the dates of the file.
LEMMA WithSeasonHolds ==
  ASSUME NEW s, SessionHolds(s), NEW parsed, Dated(parsed), NEW i \in DOMAIN parsed
  PROVE  /\ SessionHolds(WithSeason(s, parsed, parsed[i]))
         /\ parsed[i].year \in DOMAIN WithSeason(s, parsed, parsed[i]).seasonByYear
<1> DEFINE r == parsed[i]
           t == WithSeason(s, parsed, r)
           start == Lowest(DatesOf(parsed, r.year))
           end   == Highest(DatesOf(parsed, r.year))
<1>0. start \in Int /\ end \in Int
  BY SeasonBounds
<1> HIDE DEF start, end, r
<1> USE TableNames DEF SessionHolds
<1>1. CASE r.year \in DOMAIN s.seasonByYear
  <2> DEFINE id == s.seasonByYear[r.year]
             Widen(q) == [id |-> q.id, year |-> q.year, start |-> Lowest({q.start, start}),
                          end |-> Highest({q.end, end}), status |-> q.status]
             Now(q) == IF q.id = id THEN Widen(q) ELSE q
  <2>1. /\ DOMAIN t = SessionFields
        /\ t.seasons = {Now(q) : q \in s.seasons}
        /\ \A f \in SessionFields \ {"seasons"} : t[f] = s[f]
    BY <1>1 DEF WithSeason, SessionFields, start, end
  <2>2. /\ t.teams = s.teams /\ t.teamLinks = s.teamLinks /\ t.venues = s.venues
        /\ t.matches = s.matches /\ t.matchLinks = s.matchLinks
        /\ t.seasonTeams = s.seasonTeams /\ t.stats = s.stats /\ t.nextId = s.nextId
        /\ t.seasonByYear = s.seasonByYear /\ t.venueByName = s.venueByName
        /\ t.teamByName = s.teamByName
        /\ t.matchKeys = s.matchKeys /\ t.seasonTeamKeys = s.seasonTeamKeys
    BY <2>1 DEF SessionFields
  <2>3. ASSUME NEW q \in s.seasons
        PROVE  /\ Now(q).id = q.id /\ Now(q).year = q.year
               /\ Now(q) = [id |-> Now(q).id, year |-> Now(q).year, start |-> Now(q).start,
                            end |-> Now(q).end, status |-> Now(q).status]
               /\ Now(q).start \in Int /\ Now(q).end \in Int
    <3>1. /\ q = [id |-> q.id, year |-> q.year, start |-> q.start, end |-> q.end,
                  status |-> q.status]
          /\ q.start \in Int /\ q.end \in Int
      BY DEF ColumnsHold
    <3>2. Lowest({q.start, start}) \in Int /\ Highest({q.end, end}) \in Int
      BY <1>0, <3>1, BoundsOfTwo
    <3> QED
      BY <3>1, <3>2
  <2> HIDE DEF t, Now
  <2>4. IdsBelow(t)
    BY <2>1, <2>2, <2>3 DEF IdsBelow
  <2>5. \A u \in Tables : UniqueOn(t[u], LAMBDA q : q.id)
    BY <2>1, <2>2, <2>3 DEF UniqueOn
  <2>6. ColumnsHold(t)
    BY <2>1, <2>2, <2>3 DEF ColumnsHold
  <2>7. SchemaHolds(t)
    <3>1. SeasonsUnique(t)
      BY <2>1, <2>3 DEF SchemaHolds, SeasonsUnique, UniqueOn
    <3> QED
      BY <2>2, <3>1 DEF SchemaHolds, TeamLinksUnique, MatchesUnique,
       MatchLinksUnique, SeasonTeamsUnique, StatsUnique, SidesDistinct
  <2>8. IdsOf(t.seasons) = IdsOf(s.seasons)
    BY <2>1, <2>3 DEF IdsOf
  <2>9. ReferencesHold(t)
    BY <2>2, <2>8 DEF ReferencesHold
  <2>10. LookupsMirrorRows(t)
    BY <2>1, <2>2, <2>3 DEF LookupsMirrorRows
  <2> QED
    BY <1>1, <2>1, <2>2, <2>4, <2>5, <2>6, <2>7, <2>9, <2>10 DEF t, r
<1>2. CASE r.year \notin DOMAIN s.seasonByYear
  <2> DEFINE new == [id |-> s.nextId, year |-> r.year, start |-> start, end |-> end,
                     status |-> "finished"]
  <2>1. /\ DOMAIN t = SessionFields
        /\ t.seasons = s.seasons \cup {new}
        /\ t.nextId = s.nextId + 1
        /\ t.seasonByYear = Put(s.seasonByYear, r.year, s.nextId)
        /\ \A f \in SessionFields \ {"seasons", "nextId", "seasonByYear"} : t[f] = s[f]
    BY <1>2 DEF WithSeason, SessionFields, start, end
  <2>2. /\ t.teams = s.teams /\ t.teamLinks = s.teamLinks /\ t.venues = s.venues
        /\ t.matches = s.matches /\ t.matchLinks = s.matchLinks
        /\ t.seasonTeams = s.seasonTeams /\ t.stats = s.stats
        /\ t.venueByName = s.venueByName /\ t.teamByName = s.teamByName
        /\ t.matchKeys = s.matchKeys /\ t.seasonTeamKeys = s.seasonTeamKeys
    BY <2>1 DEF SessionFields
  <2> HIDE DEF t
  <2>3. RowAdded(s, t, "seasons", new)
    BY <2>1, <2>2 DEF RowAdded
  <2>4. /\ DOMAIN t.seasonByYear = DOMAIN s.seasonByYear \cup {r.year}
        /\ t.seasonByYear[r.year] = s.nextId
        /\ \A y \in DOMAIN s.seasonByYear : y # r.year => t.seasonByYear[y] = s.seasonByYear[y]
    BY <2>1 DEF Put
  <2>5. /\ new.id = s.nextId /\ new.year = r.year
        /\ new = [id |-> new.id, year |-> new.year, start |-> new.start, end |-> new.end,
                  status |-> new.status]
        /\ new.start \in Int /\ new.end \in Int
    BY <1>0
  <2> HIDE DEF new
  <2>6. IdsBelow(t) /\ \A u \in Tables : UniqueOn(t[u], LAMBDA q : q.id)
    BY <2>3, RowAddedKeepsIds
  <2>7. ColumnsHold(t)
    BY <2>1, <2>2, <2>5 DEF ColumnsHold
  <2>8. SchemaHolds(t)
    <3>1. SeasonsUnique(t)
      BY <1>2, <2>1, <2>5 DEF LookupsMirrorRows, SchemaHolds, SeasonsUnique, UniqueOn
    <3> QED
      BY <2>2, <3>1 DEF SchemaHolds, TeamLinksUnique, MatchesUnique,
       MatchLinksUnique, SeasonTeamsUnique, StatsUnique, SidesDistinct
  <2>9. ReferencesHold(t)
    <3>1. IdsOf(s.seasons) \subseteq IdsOf(t.seasons)
      BY <2>1 DEF IdsOf
    <3> QED
      BY <2>2, <3>1 DEF ReferencesHold
  <2>10. LookupsMirrorRows(t)
    <3>1. DOMAIN t.seasonByYear = {q.year : q \in t.seasons}
      BY <2>1, <2>4, <2>5 DEF LookupsMirrorRows
    <3>2. \A q \in t.seasons : t.seasonByYear[q.year] = q.id
      BY <1>2, <2>1, <2>4, <2>5 DEF LookupsMirrorRows
    <3> QED
      BY <2>2, <3>1, <3>2 DEF LookupsMirrorRows
  <2> QED
    BY <2>1, <2>4, <2>6, <2>7, <2>8, <2>9, <2>10 DEF t, r
<1> QED
  BY <1>1, <1>2

-----------------------------------------------------------------------------
(* What a turn of the loop leaves of the session it found *)

Keeps(f, g) == \A k \in DOMAIN f : k \in DOMAIN g /\ g[k] = f[k]

\* No row is lost and no lookup forgets; a season keeps its id and its year,
\* and its dates only spread.
Extends(s, t) ==
  /\ \A u \in Tables \ {"seasons"} : s[u] \subseteq t[u]
  /\ \A q \in s.seasons :
       \E w \in t.seasons : /\ w.id = q.id /\ w.year = q.year
                            /\ w.start <= q.start /\ q.end <= w.end
  /\ Keeps(s.seasonByYear, t.seasonByYear)
  /\ Keeps(s.teamByName, t.teamByName)
  /\ Keeps(s.venueByName, t.venueByName)

\* No two teams and no two stadiums share a name.
NamesUnique(d) ==
  /\ UniqueOn(d.teams, LAMBDA t : t.name)
  /\ UniqueOn(d.venues, LAMBDA v : v.name)

LEMMA ExtendsItself ==
  ASSUME NEW s, ColumnsHold(s)
  PROVE  Extends(s, s)
<1>1. \A q \in s.seasons : q.start <= q.start /\ q.end <= q.end
  BY DEF ColumnsHold
<1> QED
  BY <1>1 DEF Extends, Keeps

LEMMA ExtendsFurther ==
  ASSUME NEW s, NEW t, NEW u, ColumnsHold(s), ColumnsHold(t), ColumnsHold(u),
         Extends(s, t), Extends(t, u)
  PROVE  Extends(s, u)
<1>1. \A f \in Tables \ {"seasons"} : s[f] \subseteq u[f]
  BY DEF Extends
<1>2. ASSUME NEW q \in s.seasons
      PROVE  \E w \in u.seasons : /\ w.id = q.id /\ w.year = q.year
                                  /\ w.start <= q.start /\ q.end <= w.end
  <2>1. PICK v \in t.seasons : /\ v.id = q.id /\ v.year = q.year
                               /\ v.start <= q.start /\ q.end <= v.end
    BY DEF Extends
  <2>2. PICK w \in u.seasons : /\ w.id = v.id /\ w.year = v.year
                               /\ w.start <= v.start /\ v.end <= w.end
    BY DEF Extends
  <2>3. /\ {q.start, v.start, w.start} \subseteq Int
        /\ {q.end, v.end, w.end} \subseteq Int
    BY DEF ColumnsHold
  <2> QED
    BY <2>1, <2>2, <2>3
<1>3. /\ Keeps(s.seasonByYear, u.seasonByYear)
      /\ Keeps(s.teamByName, u.teamByName)
      /\ Keeps(s.venueByName, u.venueByName)
  BY DEF Extends, Keeps
<1> QED
  BY <1>1, <1>2, <1>3 DEF Extends

\* The tables a step may touch, one operator after the other.
LEMMA WithTeamTouches ==
  ASSUME NEW s, SessionHolds(s), NEW name
  PROVE  LET t == WithTeam(s, name) IN
         /\ \A f \in SessionFields \ {"teams", "nextId", "teamByName"} : t[f] = s[f]
         /\ name \in DOMAIN s.teamByName => t.teams = s.teams
         /\ name \notin DOMAIN s.teamByName =>
              t.teams = s.teams \cup {[id |-> s.nextId, name |-> name]}
         /\ Extends(s, t)
         /\ NamesUnique(s) => NamesUnique(t)
<1> DEFINE t == WithTeam(s, name)
<1> USE TableNames DEF SessionHolds
<1>1. CASE name \in DOMAIN s.teamByName
  BY <1>1, ExtendsItself DEF WithTeam
<1>2. CASE name \notin DOMAIN s.teamByName
  <2>1. /\ t.teams = s.teams \cup {[id |-> s.nextId, name |-> name]}
        /\ t.teamByName = Put(s.teamByName, name, s.nextId)
        /\ \A f \in SessionFields \ {"teams", "nextId", "teamByName"} : t[f] = s[f]
    BY <1>2 DEF WithTeam, SessionFields
  <2>2. Keeps(s.teamByName, t.teamByName)
    BY <1>2, <2>1 DEF Keeps, Put
  <2>3. /\ t.seasons = s.seasons /\ t.seasonByYear = s.seasonByYear
        /\ t.venueByName = s.venueByName
        /\ \A u \in Tables \ {"teams"} : t[u] = s[u]
    BY <2>1 DEF SessionFields
  <2> HIDE DEF t
  <2>4. Extends(s, t)
    BY <2>1, <2>2, <2>3, ExtendsItself DEF Extends
  <2>5. NamesUnique(s) => NamesUnique(t)
    <3>1. t.venues = s.venues
      BY <2>3
    <3> QED
      BY <1>2, <2>1, <3>1 DEF NamesUnique, UniqueOn, LookupsMirrorRows
  <2> QED
    BY <1>2, <2>1, <2>4, <2>5 DEF t
<1> QED
  BY <1>1, <1>2

LEMMA WithVenueTouches ==
  ASSUME NEW s, SessionHolds(s), NEW name
  PROVE  LET t == WithVenue(s, name) IN
         /\ \A f \in SessionFields \ {"venues", "nextId", "venueByName"} : t[f] = s[f]
         /\ name \in DOMAIN s.venueByName => t.venues = s.venues
         /\ name \notin DOMAIN s.venueByName =>
              t.venues = s.venues \cup {[id |-> s.nextId, name |-> name]}
         /\ Extends(s, t)
         /\ NamesUnique(s) => NamesUnique(t)
<1> DEFINE t == WithVenue(s, name)
<1> USE TableNames DEF SessionHolds
<1>1. CASE name \in DOMAIN s.venueByName
  BY <1>1, ExtendsItself DEF WithVenue
<1>2. CASE name \notin DOMAIN s.venueByName
  <2>1. /\ t.venues = s.venues \cup {[id |-> s.nextId, name |-> name]}
        /\ t.venueByName = Put(s.venueByName, name, s.nextId)
        /\ \A f \in SessionFields \ {"venues", "nextId", "venueByName"} : t[f] = s[f]
    BY <1>2 DEF WithVenue, SessionFields
  <2>2. Keeps(s.venueByName, t.venueByName)
    BY <1>2, <2>1 DEF Keeps, Put
  <2>3. /\ t.seasons = s.seasons /\ t.seasonByYear = s.seasonByYear
        /\ t.teamByName = s.teamByName
        /\ \A u \in Tables \ {"venues"} : t[u] = s[u]
    BY <2>1 DEF SessionFields
  <2> HIDE DEF t
  <2>4. Extends(s, t)
    BY <2>1, <2>2, <2>3, ExtendsItself DEF Extends
  <2>5. NamesUnique(s) => NamesUnique(t)
    <3>1. t.teams = s.teams
      BY <2>3
    <3> QED
      BY <1>2, <2>1, <3>1 DEF NamesUnique, UniqueOn, LookupsMirrorRows
  <2> QED
    BY <1>2, <2>1, <2>4, <2>5 DEF t
<1> QED
  BY <1>1, <1>2

PartNoted(s, t, season, team) ==
  /\ \A f \in SessionFields \ {"seasonTeams", "nextId", "seasonTeamKeys"} : t[f] = s[f]
  /\ t.seasonTeamKeys = s.seasonTeamKeys \cup {<<season, team>>}
  /\ Extends(s, t)

LEMMA WithParticipantTouches ==
  ASSUME NEW s, SessionHolds(s), NEW season, NEW team
  PROVE  PartNoted(s, WithParticipant(s, season, team), season, team)
<1> DEFINE t == WithParticipant(s, season, team)
<1> USE TableNames DEF SessionHolds
<1>1. CASE <<season, team>> \in s.seasonTeamKeys
  BY <1>1, ExtendsItself DEF WithParticipant, PartNoted
<1>2. CASE <<season, team>> \notin s.seasonTeamKeys
  <2>1. /\ s.seasonTeams \subseteq t.seasonTeams
        /\ t.seasonTeamKeys = s.seasonTeamKeys \cup {<<season, team>>}
        /\ \A f \in SessionFields \ {"seasonTeams", "nextId", "seasonTeamKeys"} : t[f] = s[f]
    BY <1>2 DEF WithParticipant, SessionFields
  <2>3. /\ t.seasons = s.seasons /\ t.seasonByYear = s.seasonByYear
        /\ t.teamByName = s.teamByName /\ t.venueByName = s.venueByName
        /\ \A u \in Tables \ {"seasonTeams"} : t[u] = s[u]
    BY <2>1 DEF SessionFields
  <2> HIDE DEF t
  <2>4. Extends(s, t)
    BY <2>1, <2>3, ExtendsItself DEF Extends
  <2> QED
    BY <1>2, <2>1, <2>4 DEF t, PartNoted
<1> QED
  BY <1>1, <1>2

LEMMA WithMatchTouches ==
  ASSUME NEW s, SessionHolds(s), NEW r, NEW season, NEW home, NEW away
  PROVE  LET t   == WithMatch(s, r, season, home, away)
             key == <<season, r.matchday, home, away>>
         IN
         /\ \A f \in SessionFields \ {"matches", "nextId", "matchKeys"} : t[f] = s[f]
         /\ key \in s.matchKeys => t.matches = s.matches
         /\ key \notin s.matchKeys =>
              t.matches = s.matches \cup
                {[id |-> s.nextId, season |-> season, matchday |-> r.matchday,
                  home |-> home, away |-> away, at |-> r.at,
                  venue |-> s.venueByName[r.venue], status |-> "finished",
                  score |-> r.score]}
         /\ t.matchKeys = s.matchKeys \cup {key}
         /\ Extends(s, t)
<1> DEFINE t   == WithMatch(s, r, season, home, away)
           key == <<season, r.matchday, home, away>>
           new == [id |-> s.nextId, season |-> season, matchday |-> r.matchday,
                   home |-> home, away |-> away, at |-> r.at,
                   venue |-> s.venueByName[r.venue], status |-> "finished",
                   score |-> r.score]
<1> USE TableNames DEF SessionHolds
<1>1. CASE key \in s.matchKeys
  BY <1>1, ExtendsItself DEF WithMatch
<1>2. CASE key \notin s.matchKeys
  <2>1. /\ t.matches = s.matches \cup {new}
        /\ t.matchKeys = s.matchKeys \cup {key}
        /\ \A f \in SessionFields \ {"matches", "nextId", "matchKeys"} : t[f] = s[f]
    BY <1>2 DEF WithMatch, SessionFields
  <2>2. /\ t.seasons = s.seasons /\ t.seasonByYear = s.seasonByYear
        /\ t.teamByName = s.teamByName /\ t.venueByName = s.venueByName
        /\ \A u \in Tables \ {"matches"} : t[u] = s[u]
    BY <2>1 DEF SessionFields
  <2> HIDE DEF t, new
  <2>3. Extends(s, t)
    BY <2>1, <2>2, ExtendsItself DEF Extends
  <2> QED
    BY <1>2, <2>1, <2>3 DEF t, new
<1> QED
  BY <1>1, <1>2

\* The season of a row covers the row's date, whether it was found or added.
LEMMA WithSeasonTouches ==
  ASSUME NEW s, SessionHolds(s), NEW parsed, Dated(parsed), NEW i \in DOMAIN parsed
  PROVE  LET t == WithSeason(s, parsed, parsed[i]) IN
         /\ \A f \in SessionFields \ {"seasons", "nextId", "seasonByYear"} : t[f] = s[f]
         /\ \E q \in t.seasons : /\ q.year = parsed[i].year
                                 /\ q.start <= LocalDate(parsed[i].at)
                                 /\ LocalDate(parsed[i].at) <= q.end
         /\ Extends(s, t)
<1> DEFINE r == parsed[i]
           t == WithSeason(s, parsed, r)
           start == Lowest(DatesOf(parsed, r.year))
           end   == Highest(DatesOf(parsed, r.year))
           day   == LocalDate(r.at)
<1>0. /\ start \in Int /\ end \in Int /\ day \in Int
      /\ start <= day /\ day <= end
  <2>1. day \in DatesOf(parsed, r.year)
    BY DEF DatesOf
  <2> QED
    BY <2>1, SeasonBounds
<1> HIDE DEF start, end, day, r
<1> USE TableNames DEF SessionHolds
<1>1. CASE r.year \in DOMAIN s.seasonByYear
  <2> DEFINE id == s.seasonByYear[r.year]
             Widen(q) == [id |-> q.id, year |-> q.year, start |-> Lowest({q.start, start}),
                          end |-> Highest({q.end, end}), status |-> q.status]
             Now(q) == IF q.id = id THEN Widen(q) ELSE q
  <2>1. /\ t.seasons = {Now(q) : q \in s.seasons}
        /\ \A f \in SessionFields \ {"seasons"} : t[f] = s[f]
    BY <1>1 DEF WithSeason, SessionFields, start, end
  <2>2. ASSUME NEW q \in s.seasons
        PROVE  /\ Now(q).id = q.id /\ Now(q).year = q.year
               /\ Now(q).start <= q.start /\ q.end <= Now(q).end
               /\ q.id = id => Now(q).start <= start /\ end <= Now(q).end
               /\ Now(q).start \in Int /\ Now(q).end \in Int
    <3>1. q.start \in Int /\ q.end \in Int
      BY DEF ColumnsHold
    <3> DEFINE low == Lowest({q.start, start})
               high == Highest({q.end, end})
    <3>2. low \in Int /\ low <= q.start /\ low <= start
      BY <1>0, <3>1, BoundsOfTwo
    <3>3. high = IF q.end >= end THEN q.end ELSE end
      BY <1>0, <3>1, BoundsOfTwo
    <3> HIDE DEF low, high
    <3>4. high \in Int /\ q.end <= high /\ end <= high
      BY <1>0, <3>1, <3>3
    <3>5. Now(q) = IF q.id = id
                     THEN [id |-> q.id, year |-> q.year, start |-> low, end |-> high,
                           status |-> q.status]
                     ELSE q
      BY DEF low, high
    <3> QED
      BY <3>1, <3>2, <3>4, <3>5
  <2>3. PICK q \in s.seasons : q.year = r.year /\ q.id = id
    BY <1>1 DEF LookupsMirrorRows
  <2>4. /\ t.seasonByYear = s.seasonByYear
        /\ t.teamByName = s.teamByName /\ t.venueByName = s.venueByName
        /\ \A u \in Tables \ {"seasons"} : t[u] = s[u]
    BY <2>1 DEF SessionFields
  <2> HIDE DEF t, Now, id
  <2>5. Now(q).start <= day /\ day <= Now(q).end
    BY <1>0, <2>2, <2>3
  <2>6. Extends(s, t)
    BY <2>1, <2>2, <2>4 DEF Extends, Keeps
  <2> QED
    BY <2>1, <2>2, <2>3, <2>5, <2>6 DEF t, r, day
<1>2. CASE r.year \notin DOMAIN s.seasonByYear
  <2> DEFINE new == [id |-> s.nextId, year |-> r.year, start |-> start, end |-> end,
                     status |-> "finished"]
  <2>1. /\ t.seasons = s.seasons \cup {new}
        /\ t.seasonByYear = Put(s.seasonByYear, r.year, s.nextId)
        /\ \A f \in SessionFields \ {"seasons", "nextId", "seasonByYear"} : t[f] = s[f]
    BY <1>2 DEF WithSeason, SessionFields, start, end
  <2>2. Keeps(s.seasonByYear, t.seasonByYear)
    BY <1>2, <2>1 DEF Keeps, Put
  <2>3. /\ t.teamByName = s.teamByName /\ t.venueByName = s.venueByName
        /\ \A u \in Tables \ {"seasons"} : t[u] = s[u]
    BY <2>1 DEF SessionFields
  <2>4. new.year = r.year /\ new.start <= day /\ day <= new.end
    BY <1>0
  <2> HIDE DEF t, new
  <2>5. Extends(s, t)
    BY <2>1, <2>2, <2>3, ExtendsItself DEF Extends
  <2> QED
    BY <2>1, <2>4, <2>5 DEF t, r, day
<1> QED
  BY <1>1, <1>2

\* A row is on record: under one season that covers its date, its two sides,
\* their part in the season, its stadium and its match.
Recorded(d, r) ==
  \E q \in d.seasons, h \in d.teams, a \in d.teams, v \in d.venues :
    /\ q.year = r.year /\ q.start <= LocalDate(r.at) /\ LocalDate(r.at) <= q.end
    /\ h.name = r.home /\ a.name = r.away /\ v.name = r.venue
    /\ \E p \in d.seasonTeams : p.season = q.id /\ p.team = h.id
    /\ \E p \in d.seasonTeams : p.season = q.id /\ p.team = a.id
    /\ \E m \in d.matches : NaturalKey(m) = <<q.id, r.matchday, h.id, a.id>>

LEMMA RecordedStays ==
  ASSUME NEW s, NEW t, Extends(s, t), ColumnsHold(s), ColumnsHold(t),
         NEW r, r.at \in Int, Recorded(s, r)
  PROVE  Recorded(t, r)
<1> DEFINE day == LocalDate(r.at)
<1>0. day \in Int
  BY DEF LocalDate
<1> HIDE DEF day
<1>1. PICK q \in s.seasons, h \in s.teams, a \in s.teams, v \in s.venues :
        /\ q.year = r.year /\ q.start <= day /\ day <= q.end
        /\ h.name = r.home /\ a.name = r.away /\ v.name = r.venue
        /\ \E p \in s.seasonTeams : p.season = q.id /\ p.team = h.id
        /\ \E p \in s.seasonTeams : p.season = q.id /\ p.team = a.id
        /\ \E m \in s.matches : NaturalKey(m) = <<q.id, r.matchday, h.id, a.id>>
  BY DEF Recorded, day
<1>2. PICK w \in t.seasons : /\ w.id = q.id /\ w.year = q.year
                             /\ w.start <= q.start /\ q.end <= w.end
  BY DEF Extends
<1>3. w.start <= day /\ day <= w.end
  <2>1. /\ q.start \in Int /\ q.end \in Int
        /\ w.start \in Int /\ w.end \in Int
    BY DEF ColumnsHold
  <2> QED
    BY <1>0, <1>1, <1>2, <2>1
<1>4. /\ s.teams \subseteq t.teams /\ s.venues \subseteq t.venues
      /\ s.seasonTeams \subseteq t.seasonTeams /\ s.matches \subseteq t.matches
  BY TableNames DEF Extends
<1> QED
  BY <1>1, <1>2, <1>3, <1>4 DEF Recorded, day

\* The two sides of a row are two teams.
LEMMA SidesDiffer ==
  ASSUME NEW s, SessionHolds(s), NEW x \in DOMAIN s.teamByName,
         NEW y \in DOMAIN s.teamByName, x # y
  PROVE  /\ s.teamByName[x] \in IdsOf(s.teams) /\ s.teamByName[y] \in IdsOf(s.teams)
         /\ s.teamByName[x] # s.teamByName[y]
<1>1. PICK u \in s.teams : u.name = x /\ u.id = s.teamByName[x]
  BY DEF SessionHolds, LookupsMirrorRows
<1>2. PICK v \in s.teams : v.name = y /\ v.id = s.teamByName[y]
  BY DEF SessionHolds, LookupsMirrorRows
<1>3. UniqueOn(s.teams, LAMBDA r : r.id)
  BY TableNames DEF SessionHolds
<1> QED
  BY <1>1, <1>2, <1>3 DEF UniqueOn, IdsOf

\* A turn of the loop in terms of the session it leaves.
Turn(s, t, r) ==
  /\ r.year \in DOMAIN t.seasonByYear /\ r.venue \in DOMAIN t.venueByName
  /\ {r.home, r.away} \subseteq DOMAIN t.teamByName
  /\ LET season == t.seasonByYear[r.year]
         home   == t.teamByName[r.home]
         away   == t.teamByName[r.away]
         key    == <<season, r.matchday, home, away>>
     IN /\ t.seasonTeamKeys = s.seasonTeamKeys \cup {<<season, home>>, <<season, away>>}
        /\ key \in t.matchKeys
        /\ key \in s.matchKeys => t.matches = s.matches
        /\ key \notin s.matchKeys =>
             \E id \in Nat :
               t.matches = s.matches \cup
                 {[id |-> id, season |-> season, matchday |-> r.matchday,
                   home |-> home, away |-> away, at |-> r.at,
                   venue |-> t.venueByName[r.venue], status |-> "finished",
                   score |-> r.score]}
  /\ \E q \in t.seasons : /\ q.year = r.year /\ q.start <= LocalDate(r.at)
                          /\ LocalDate(r.at) <= q.end

LEMMA AfterRowHolds ==
  ASSUME NEW s, SessionHolds(s), NEW parsed, WellParsed(parsed), NEW i \in DOMAIN parsed
  PROVE  LET t == AfterRow(s, parsed, parsed[i]) IN
         /\ SessionHolds(t) /\ Extends(s, t) /\ Turn(s, t, parsed[i]) /\ t.open = s.open
         /\ NamesUnique(s) => NamesUnique(t)
<1> DEFINE r  == parsed[i]
           s1 == WithSeason(s, parsed, r)
           s2 == WithTeam(s1, r.home)
           s3 == WithTeam(s2, r.away)
           s4 == WithVenue(s3, r.venue)
           season == s4.seasonByYear[r.year]
           home   == s4.teamByName[r.home]
           away   == s4.teamByName[r.away]
           s5 == WithParticipant(s4, season, home)
           s6 == WithParticipant(s5, season, away)
           s7 == WithMatch(s6, r, season, home, away)
<1>0. AfterRow(s, parsed, r) = s7
  BY DEF AfterRow
<1>1. /\ SessionHolds(s1) /\ Extends(s, s1) /\ r.year \in DOMAIN s1.seasonByYear
      /\ \A f \in SessionFields \ {"seasons", "nextId", "seasonByYear"} : s1[f] = s[f]
      /\ \E q \in s1.seasons : /\ q.year = r.year /\ q.start <= LocalDate(r.at)
                               /\ LocalDate(r.at) <= q.end
  BY WithSeasonHolds, WithSeasonTouches DEF WellParsed
<1> HIDE DEF s1
<1>2. /\ SessionHolds(s2) /\ Extends(s1, s2) /\ r.home \in DOMAIN s2.teamByName
      /\ \A f \in SessionFields \ {"teams", "nextId", "teamByName"} : s2[f] = s1[f]
      /\ NamesUnique(s1) => NamesUnique(s2)
  BY <1>1, WithTeamHolds, WithTeamTouches
<1> HIDE DEF s2
<1>3. /\ SessionHolds(s3) /\ Extends(s2, s3) /\ r.away \in DOMAIN s3.teamByName
      /\ \A f \in SessionFields \ {"teams", "nextId", "teamByName"} : s3[f] = s2[f]
      /\ NamesUnique(s2) => NamesUnique(s3)
  BY <1>2, WithTeamHolds, WithTeamTouches
<1> HIDE DEF s3
<1>4. /\ SessionHolds(s4) /\ Extends(s3, s4) /\ r.venue \in DOMAIN s4.venueByName
      /\ \A f \in SessionFields \ {"venues", "nextId", "venueByName"} : s4[f] = s3[f]
      /\ NamesUnique(s3) => NamesUnique(s4)
  BY <1>3, WithVenueHolds, WithVenueTouches
<1> HIDE DEF s4
<1>5. r.year \in DOMAIN s4.seasonByYear /\ {r.home, r.away} \subseteq DOMAIN s4.teamByName
  BY <1>1, <1>2, <1>3, <1>4, TableNames DEF SessionFields, Extends, Keeps
<1>6. /\ season \in IdsOf(s4.seasons) /\ home # away
      /\ home \in IdsOf(s4.teams) /\ away \in IdsOf(s4.teams)
  <2>1. season \in IdsOf(s4.seasons)
    BY <1>4, <1>5 DEF SessionHolds, LookupsMirrorRows, IdsOf
  <2>2. r.home # r.away
    BY DEF WellParsed
  <2> QED
    BY <1>4, <1>5, <2>1, <2>2, SidesDiffer
<1> HIDE DEF season, home, away
<1>7. /\ SessionHolds(s5) /\ Extends(s4, s5)
      /\ s5.seasonTeamKeys = s4.seasonTeamKeys \cup {<<season, home>>}
      /\ \A f \in SessionFields \ {"seasonTeams", "nextId", "seasonTeamKeys"} : s5[f] = s4[f]
  <2>1. SessionHolds(s5)
    BY <1>4, <1>6, WithParticipantHolds
  <2>2. PartNoted(s4, s5, season, home)
    BY <1>4, WithParticipantTouches
  <2> QED
    BY <2>1, <2>2 DEF PartNoted
<1> HIDE DEF s5
<1>8. s5.seasons = s4.seasons /\ s5.teams = s4.teams
  BY <1>7, TableNames DEF SessionFields
<1>9. /\ SessionHolds(s6) /\ Extends(s5, s6)
      /\ s6.seasonTeamKeys = s5.seasonTeamKeys \cup {<<season, away>>}
      /\ \A f \in SessionFields \ {"seasonTeams", "nextId", "seasonTeamKeys"} : s6[f] = s5[f]
  <2>1. SessionHolds(s6)
    BY <1>6, <1>7, <1>8, WithParticipantHolds
  <2>2. PartNoted(s5, s6, season, away)
    BY <1>7, WithParticipantTouches
  <2> QED
    BY <2>1, <2>2 DEF PartNoted
<1> HIDE DEF s6
<1>10. s6.seasons = s4.seasons /\ s6.teams = s4.teams /\ s6.venueByName = s4.venueByName
  BY <1>7, <1>8, <1>9, TableNames DEF SessionFields
<1> DEFINE key == <<season, r.matchday, home, away>>
           WithNew(id) == s6.matches \cup
             {[id |-> id, season |-> season, matchday |-> r.matchday,
               home |-> home, away |-> away, at |-> r.at,
               venue |-> s6.venueByName[r.venue], status |-> "finished",
               score |-> r.score]}
<1>11. /\ SessionHolds(s7) /\ Extends(s6, s7)
       /\ key \in s7.matchKeys
       /\ key \in s6.matchKeys => s7.matches = s6.matches
       /\ key \notin s6.matchKeys => s7.matches = WithNew(s6.nextId)
       /\ \A f \in SessionFields \ {"matches", "nextId", "matchKeys"} : s7[f] = s6[f]
  BY <1>4, <1>6, <1>9, <1>10, WithMatchHolds, WithMatchTouches
<1> HIDE DEF s7
<1>12. Extends(s, s7)
  BY <1>1, <1>2, <1>3, <1>4, <1>7, <1>9, <1>11, ExtendsFurther DEF SessionHolds
<1>13. /\ s7.seasons = s1.seasons
       /\ s7.seasonByYear = s4.seasonByYear /\ s7.teamByName = s4.teamByName
       /\ s7.venueByName = s4.venueByName /\ s7.seasonTeamKeys = s6.seasonTeamKeys
  BY <1>2, <1>3, <1>4, <1>7, <1>9, <1>11, TableNames DEF SessionFields
<1>14. /\ s6.matches = s.matches /\ s6.matchKeys = s.matchKeys
       /\ s4.seasonTeamKeys = s.seasonTeamKeys
  BY <1>1, <1>2, <1>3, <1>4, <1>7, <1>9, TableNames DEF SessionFields
<1>15. s6.nextId \in Nat
  BY <1>9 DEF SessionHolds, IdsBelow
<1> HIDE DEF r
<1>16. Turn(s, s7, r)
  BY <1>1, <1>4, <1>5, <1>7, <1>9, <1>10, <1>11, <1>13, <1>14, <1>15 DEF Turn, season, home, away
<1>17. s7.open = s.open
  BY <1>1, <1>2, <1>3, <1>4, <1>7, <1>9, <1>11, TableNames DEF SessionFields
<1>18. NamesUnique(s) => NamesUnique(s7)
  <2>1. NamesUnique(s) => NamesUnique(s1)
    BY <1>1, TableNames DEF SessionFields, NamesUnique
  <2>2. s7.teams = s4.teams /\ s7.venues = s4.venues
    BY <1>7, <1>9, <1>11, TableNames DEF SessionFields
  <2> QED
    BY <1>2, <1>3, <1>4, <2>1, <2>2 DEF NamesUnique
<1> QED
  BY <1>0, <1>11, <1>12, <1>16, <1>17, <1>18 DEF r

-----------------------------------------------------------------------------
(* Opening and closing a session *)

LEMMA SessionOpensRight ==
  ASSUME NEW d, Sound(d), NEW lookups \in Lookups(d)
  PROVE  LET s == Joined([open |-> TRUE, nextId |-> FirstFreeId(d)], Joined(lookups, d))
         IN s.open = TRUE /\ SessionHolds(s) /\ \A t \in Tables : s[t] = d[t]
<1> DEFINE s == Joined([open |-> TRUE, nextId |-> FirstFreeId(d)], Joined(lookups, d))
<1> USE TableNames
<1>1. PICK seasons \in SeasonIds(d.seasons), teams \in NameIds(d.teams),
           venues \in NameIds(d.venues) :
        lookups = [seasonByYear |-> seasons, teamByName |-> teams, venueByName |-> venues,
                   matchKeys |-> {NaturalKey(m) : m \in d.matches},
                   seasonTeamKeys |-> {<<p.season, p.team>> : p \in d.seasonTeams}]
  BY DEF Lookups
<1>2. DOMAIN d = Tables
  BY DEF Sound
<1>3. DOMAIN s = SessionFields
  BY <1>1, <1>2 DEF Joined, SessionFields
<1>4. /\ s.open = TRUE /\ s.nextId = FirstFreeId(d)
      /\ s.seasonByYear = seasons /\ s.teamByName = teams /\ s.venueByName = venues
      /\ s.matchKeys = {NaturalKey(m) : m \in d.matches}
      /\ s.seasonTeamKeys = {<<p.season, p.team>> : p \in d.seasonTeams}
  BY <1>1, <1>2 DEF Joined
<1>5. \A t \in Tables : s[t] = d[t]
  BY <1>1, <1>2 DEF Joined
<1> HIDE DEF s
<1>6. /\ s.seasons = d.seasons /\ s.teams = d.teams /\ s.teamLinks = d.teamLinks
      /\ s.venues = d.venues /\ s.matches = d.matches /\ s.matchLinks = d.matchLinks
      /\ s.seasonTeams = d.seasonTeams /\ s.stats = d.stats
  BY <1>5
<1>7. /\ IdsBelow(s)
      /\ \A t \in Tables : UniqueOn(s[t], LAMBDA r : r.id)
      /\ ColumnsHold(s) /\ SchemaHolds(s) /\ ReferencesHold(s)
  BY <1>4, <1>5, OpenedIdsHold
<1>8. LookupsMirrorRows(s)
  <2>1. /\ DOMAIN seasons = {q.year : q \in d.seasons}
        /\ \A y \in DOMAIN seasons :
             \E q \in d.seasons : q.year = y /\ q.id = seasons[y]
    BY DEF SeasonIds, DictOf
  <2>2. \A q \in d.seasons : seasons[q.year] = q.id
    BY <2>1 DEF Sound, SchemaHolds, SeasonsUnique, UniqueOn
  <2>3. /\ DOMAIN teams = {t.name : t \in d.teams}
        /\ \A n \in DOMAIN teams : \E t \in d.teams : t.name = n /\ t.id = teams[n]
    BY DEF NameIds, DictOf
  <2>4. /\ DOMAIN venues = {v.name : v \in d.venues}
        /\ \A n \in DOMAIN venues : \E v \in d.venues : v.name = n /\ v.id = venues[n]
    BY DEF NameIds, DictOf
  <2> QED
    BY <1>4, <1>6, <2>1, <2>2, <2>3, <2>4 DEF LookupsMirrorRows
<1> QED
  BY <1>3, <1>4, <1>5, <1>7, <1>8 DEF SessionHolds, s

\* What is committed is a database a run may find.
LEMMA SessionClosesRight ==
  ASSUME NEW s, SessionHolds(s)
  PROVE  Sound(Rows(s)) /\ \A t \in Tables : Rows(s)[t] = s[t]
BY CommittedIsSound DEF SessionHolds, Rows

-----------------------------------------------------------------------------
(* The invariant of a run *)

BootstrapInv ==
  /\ TypeOK
  /\ Sound(db)
  /\ session.open => RowsHold /\ SessionHolds(session)

\* The line the loop comes to next.
NextLine == Lowest(todo)

LEMMA NextLineIsOneToDo ==
  ASSUME BootstrapInv, session.open, todo # {}
  PROVE  /\ NextLine \in todo /\ NextLine \in DOMAIN rows
         /\ \A j \in todo : NextLine <= j
<1>1. todo \subseteq DOMAIN rows /\ RowsHold
  BY DEF BootstrapInv, TypeOK
<1>2. todo \subseteq Int /\ IsFiniteSet(todo)
  BY <1>1, FS_Subset DEF RowsHold, WellParsed, Dated
<1> QED
  BY <1>1, <1>2, LowestOfFinite DEF NextLine

LEMMA BootstrapInit ==
  ASSUME Init, BootstrapAssumption
  PROVE  BootstrapInv
<1>1. Sound(db) /\ session.open = FALSE
  BY DEF Init, BootstrapAssumption, NoSession
<1>2. TypeOK
  BY <1>1 DEF Init, TypeOK, Sound, BootstrapAssumption
<1> QED
  BY <1>1, <1>2 DEF BootstrapInv

LEMMA BootstrapOpen ==
  ASSUME BootstrapInv, BootstrapAssumption, NEW file \in Files, Open(file)
  PROVE  BootstrapInv'
<1>1. PICK lookups \in Lookups(db) :
        session' = Joined([open |-> TRUE, nextId |-> FirstFreeId(db)], Joined(lookups, db))
  BY DEF Open
<1>2. Sound(db)
  BY DEF BootstrapInv
<1>3. session'.open = TRUE /\ SessionHolds(session')
  BY <1>1, <1>2, SessionOpensRight
<1>4. RowsHold'
  BY ParsedRowsHold DEF Open, RowsHold
<1>5. ReferencesHold(Rows(session'))
  BY <1>3, SessionClosesRight DEF Sound
<1>6. TypeOK'
  BY <1>3, <1>5 DEF Open, BootstrapInv, TypeOK, BootstrapAssumption
<1> QED
  BY <1>2, <1>3, <1>4, <1>6 DEF BootstrapInv, Open

LEMMA BootstrapImportRow ==
  ASSUME BootstrapInv, ImportRow
  PROVE  /\ BootstrapInv'
         /\ session.open /\ session'.open
         /\ NextLine \in todo /\ \A j \in todo : NextLine <= j
         /\ todo' = todo \ {NextLine}
         /\ Extends(session, session') /\ Turn(session, session', rows[NextLine])
<1>1. session.open /\ pc = "rows" /\ todo # {}
  BY DEF BootstrapInv, TypeOK, ImportRow
<1>2. /\ NextLine \in todo /\ NextLine \in DOMAIN rows
      /\ \A j \in todo : NextLine <= j
  BY <1>1, NextLineIsOneToDo
<1>3. RowsHold /\ SessionHolds(session)
  BY <1>1 DEF BootstrapInv
<1>4. session' = AfterRow(session, rows, rows[NextLine]) /\ todo' = todo \ {NextLine}
  BY DEF ImportRow, NextLine
<1>5. /\ SessionHolds(session') /\ Extends(session, session')
      /\ Turn(session, session', rows[NextLine])
      /\ session'.open = session.open
  BY <1>2, <1>3, <1>4, AfterRowHolds DEF RowsHold
<1>7. ReferencesHold(Rows(session'))
  BY <1>5, SessionClosesRight DEF Sound
<1>8. TypeOK'
  BY <1>1, <1>4, <1>5, <1>7 DEF BootstrapInv, TypeOK, ImportRow
<1>9. RowsHold' /\ Sound(db)'
  BY <1>3 DEF BootstrapInv, ImportRow, RowsHold
<1> QED
  BY <1>1, <1>2, <1>4, <1>5, <1>8, <1>9 DEF BootstrapInv

LEMMA BootstrapStep ==
  ASSUME BootstrapInv, BootstrapAssumption, [Next]_vars
  PROVE  BootstrapInv'
<1>1. ASSUME NEW file \in Files, Open(file)
      PROVE  BootstrapInv'
  BY <1>1, BootstrapOpen
<1>2. ASSUME NEW file \in Files, NothingToImport(file)
      PROVE  BootstrapInv'
  BY <1>2 DEF NothingToImport, BootstrapInv, TypeOK, RowsHold, BootstrapAssumption
<1>3. CASE ImportRow
  BY <1>3, BootstrapImportRow
<1>4. CASE Commit
  <2>1. session.open /\ SessionHolds(session)
    BY <1>4 DEF BootstrapInv, TypeOK, Commit
  <2>2. Sound(db')
    BY <1>4, <2>1, SessionClosesRight DEF Commit
  <2>3. session'.open = FALSE
    BY <1>4 DEF Commit, NoSession
  <2>4. TypeOK'
    BY <1>4, <2>2, <2>3 DEF BootstrapInv, TypeOK, Commit, Sound
  <2> QED
    BY <2>2, <2>3, <2>4 DEF BootstrapInv
<1>5. CASE Crash
  <2>1. session'.open = FALSE
    BY <1>5 DEF Crash, NoSession
  <2> QED
    BY <1>5, <2>1 DEF BootstrapInv, TypeOK, Crash
<1>6. CASE Done \/ UNCHANGED vars
  BY <1>6 DEF Done, vars, BootstrapInv, TypeOK, RowsHold
<1> QED
  BY <1>1, <1>2, <1>3, <1>4, <1>5, <1>6 DEF Next

\* In every reachable state the committed rows satisfy the constraints of
\* models.py, and the session's five lookups say what its rows say.
THEOREM BootstrapInvariant == Spec => []BootstrapInv
<1>1. Init => BootstrapInv
  BY BootstrapInit, BootstrapAssumption
<1>2. BootstrapInv /\ [Next]_vars => BootstrapInv'
  BY BootstrapStep, BootstrapAssumption
<1> QED
  BY <1>1, <1>2, PTL DEF Spec

\* import_historical_data never commits, or holds, a dangling reference.
THEOREM BootstrapTypes == Spec => []TypeOK
<1>1. BootstrapInv => TypeOK
  BY DEF BootstrapInv
<1> QED
  BY <1>1, BootstrapInvariant, PTL

\* No flush of a turn of the loop is refused by a constraint, whatever the file
\* repeats and whatever sound database it meets.
THEOREM NoFlushFails == Spec => []FlushesSucceed
<1>1. BootstrapInv => FlushesSucceed
  BY SessionClosesRight DEF BootstrapInv, FlushesSucceed, Sound
<1> QED
  BY <1>1, BootstrapInvariant, PTL

-----------------------------------------------------------------------------
(* What a run puts on record *)

\* The lines the loop has behind it.
DoneLines == DOMAIN rows \ todo

\* Every line the loop has behind it is on record in the session, and every
\* line of the file committed last in the database.
RowsRecorded ==
  /\ \A i \in DOMAIN last : last[i].at \in Int /\ Recorded(db, last[i])
  /\ session.open => \A i \in DoneLines : Recorded(session, rows[i])

LEMMA TurnRecords ==
  ASSUME NEW s, NEW t, NEW r, SessionHolds(t), Turn(s, t, r)
  PROVE  Recorded(t, r)
<1> DEFINE season == t.seasonByYear[r.year]
           home   == t.teamByName[r.home]
           away   == t.teamByName[r.away]
<1>1. LookupsMirrorRows(t)
  BY DEF SessionHolds
<1>2. PICK q \in t.seasons : /\ q.year = r.year /\ q.start <= LocalDate(r.at)
                             /\ LocalDate(r.at) <= q.end
  BY DEF Turn
<1>3. q.id = season
  BY <1>1, <1>2 DEF LookupsMirrorRows
<1>4. PICK h \in t.teams : h.name = r.home /\ h.id = home
  BY <1>1 DEF LookupsMirrorRows, Turn
<1>5. PICK a \in t.teams : a.name = r.away /\ a.id = away
  BY <1>1 DEF LookupsMirrorRows, Turn
<1>6. PICK v \in t.venues : v.name = r.venue
  BY <1>1 DEF LookupsMirrorRows, Turn
<1>7. /\ <<season, home>> \in t.seasonTeamKeys /\ <<season, away>> \in t.seasonTeamKeys
      /\ <<season, r.matchday, home, away>> \in t.matchKeys
  BY DEF Turn
<1> HIDE DEF season, home, away
<1>8. /\ \E p \in t.seasonTeams : p.season = season /\ p.team = home
      /\ \E p \in t.seasonTeams : p.season = season /\ p.team = away
      /\ \E m \in t.matches : NaturalKey(m) = <<season, r.matchday, home, away>>
  BY <1>1, <1>7 DEF LookupsMirrorRows
<1> QED
  BY <1>2, <1>3, <1>4, <1>5, <1>6, <1>8 DEF Recorded

\* Databases with the same rows have the same on record.
LEMMA RecordedAlike ==
  ASSUME NEW s, NEW t, \A u \in Tables : s[u] = t[u], NEW r, Recorded(s, r)
  PROVE  Recorded(t, r)
<1>1. /\ s.seasons = t.seasons /\ s.teams = t.teams /\ s.venues = t.venues
      /\ s.seasonTeams = t.seasonTeams /\ s.matches = t.matches
  BY TableNames
<1> QED
  BY <1>1 DEF Recorded

LEMMA RowsRecordedStep ==
  ASSUME BootstrapInv, BootstrapInv', RowsRecorded, [Next]_vars
  PROVE  RowsRecorded'
<1>1. ASSUME NEW file \in Files, Open(file)
      PROVE  RowsRecorded'
  BY <1>1 DEF Open, RowsRecorded, DoneLines
<1>2. ASSUME NEW file \in Files, NothingToImport(file)
      PROVE  RowsRecorded'
  BY <1>2 DEF NothingToImport, RowsRecorded, DoneLines
<1>3. CASE ImportRow
  <2>1. /\ session.open /\ session'.open
        /\ NextLine \in todo /\ todo' = todo \ {NextLine}
        /\ Extends(session, session') /\ Turn(session, session', rows[NextLine])
    BY <1>3, BootstrapImportRow
  <2>2. /\ RowsHold /\ SessionHolds(session) /\ SessionHolds(session')
    BY <2>1 DEF BootstrapInv
  <2>3. Recorded(session', rows[NextLine])
    BY <2>1, <2>2, TurnRecords
  <2>4. ASSUME NEW i \in DoneLines
        PROVE  Recorded(session', rows[i])
    <3>1. rows[i].at \in Int /\ Recorded(session, rows[i])
      BY <2>1, <2>2 DEF RowsRecorded, DoneLines, RowsHold, WellParsed, Dated
    <3> QED
      BY <2>1, <2>2, <3>1, RecordedStays DEF SessionHolds
  <2>5. rows' = rows /\ last' = last /\ db' = db /\ DoneLines' \subseteq DoneLines \cup {NextLine}
    BY <1>3, <2>1 DEF ImportRow, DoneLines
  <2> QED
    BY <2>3, <2>4, <2>5 DEF RowsRecorded
<1>4. CASE Commit
  <2>1. /\ session.open /\ todo = {} /\ rows' = rows
        /\ db' = Rows(session) /\ last' = rows /\ session' = NoSession
    BY <1>4 DEF Commit, BootstrapInv, TypeOK
  <2>2. SessionHolds(session) /\ RowsHold
    BY <2>1 DEF BootstrapInv
  <2>3. \A t \in Tables : session[t] = Rows(session)[t]
    BY <2>2, SessionClosesRight
  <2>4. ASSUME NEW i \in DOMAIN rows
        PROVE  rows[i].at \in Int /\ Recorded(db', rows[i])
    <3>1. Recorded(session, rows[i])
      BY <2>1 DEF RowsRecorded, DoneLines
    <3> QED
      BY <2>1, <2>2, <2>3, <3>1, RecordedAlike DEF RowsHold, WellParsed, Dated
  <2> QED
    BY <2>1, <2>4 DEF RowsRecorded, NoSession
<1>5. CASE Crash
  BY <1>5 DEF Crash, RowsRecorded, NoSession
<1>6. CASE Done \/ UNCHANGED vars
  BY <1>6 DEF Done, vars, RowsRecorded, DoneLines
<1> QED
  BY <1>1, <1>2, <1>3, <1>4, <1>5, <1>6 DEF Next

LEMMA RowsAreRecorded == Spec => []RowsRecorded
<1>1. Init => RowsRecorded
  BY DEF Init, RowsRecorded, NoSession
<1>2. BootstrapInv /\ BootstrapInv' /\ RowsRecorded /\ [Next]_vars => RowsRecorded'
  BY RowsRecordedStep
<1> QED
  BY <1>1, <1>2, BootstrapInvariant, PTL DEF Spec

\* Whoever is on record for a season has a match in it.
PlayedIn(d) == {<<p.season, p.team>> : p \in d.seasonTeams} \subseteq Sides(d)

\* During a turn of the loop a side is noted before its match is, but the turn
\* ends with both.
LEMMA TurnKeepsPlayed ==
  ASSUME NEW s, NEW t, NEW r, SessionHolds(s), SessionHolds(t), Extends(s, t),
         Turn(s, t, r), PlayedIn(s)
  PROVE  PlayedIn(t)
<1> DEFINE season == t.seasonByYear[r.year]
           home   == t.teamByName[r.home]
           away   == t.teamByName[r.away]
<1>1. /\ t.seasonTeamKeys = s.seasonTeamKeys \cup {<<season, home>>, <<season, away>>}
      /\ <<season, r.matchday, home, away>> \in t.matchKeys
  BY DEF Turn
<1> HIDE DEF season, home, away
<1>2. /\ t.seasonTeamKeys = {<<p.season, p.team>> : p \in t.seasonTeams}
      /\ s.seasonTeamKeys = {<<p.season, p.team>> : p \in s.seasonTeams}
      /\ t.matchKeys = {NaturalKey(m) : m \in t.matches}
  BY DEF SessionHolds, LookupsMirrorRows
<1>3. Sides(s) \subseteq Sides(t)
  <2>1. s.matches \subseteq t.matches
    BY TableNames DEF Extends
  <2> QED
    BY <2>1 DEF Sides
<1>4. PICK m \in t.matches : NaturalKey(m) = <<season, r.matchday, home, away>>
  BY <1>1, <1>2
<1>5. <<season, home>> \in Sides(t) /\ <<season, away>> \in Sides(t)
  <2>1. m.season = season /\ m.home = home /\ m.away = away
    BY <1>4 DEF NaturalKey
  <2> QED
    BY <2>1 DEF Sides
<1>6. s.seasonTeamKeys \subseteq Sides(s)
  BY <1>2 DEF PlayedIn
<1> QED
  BY <1>1, <1>2, <1>3, <1>5, <1>6 DEF PlayedIn

EveryonePlayed == PlayedIn(db) /\ (session.open => PlayedIn(session))

LEMMA EveryonePlayedStep ==
  ASSUME BootstrapInv, BootstrapInv', EveryonePlayed, [Next]_vars
  PROVE  EveryonePlayed'
<1>1. ASSUME NEW file \in Files, Open(file)
      PROVE  EveryonePlayed'
  <2>1. \A t \in Tables : session'[t] = db[t]
    BY <1>1, SessionOpensRight DEF Open, BootstrapInv
  <2>2. session'.seasonTeams = db.seasonTeams /\ session'.matches = db.matches
    BY <2>1, TableNames
  <2> QED
    BY <1>1, <2>2 DEF Open, EveryonePlayed, PlayedIn, Sides
<1>2. CASE ImportRow
  <2>1. /\ session.open /\ session'.open /\ SessionHolds(session) /\ SessionHolds(session')
        /\ Extends(session, session') /\ Turn(session, session', rows[NextLine])
    BY <1>2, BootstrapImportRow DEF BootstrapInv
  <2> QED
    BY <1>2, <2>1, TurnKeepsPlayed DEF EveryonePlayed, ImportRow
<1>3. CASE Commit
  <2>1. session.open /\ SessionHolds(session) /\ db' = Rows(session) /\ session' = NoSession
    BY <1>3 DEF Commit, BootstrapInv, TypeOK
  <2>2. \A t \in Tables : db'[t] = session[t]
    BY <2>1, SessionClosesRight
  <2>3. db'.seasonTeams = session.seasonTeams /\ db'.matches = session.matches
    BY <2>2, TableNames
  <2> QED
    BY <2>1, <2>3 DEF EveryonePlayed, PlayedIn, Sides, NoSession
<1>4. CASE Crash
  BY <1>4 DEF Crash, EveryonePlayed, NoSession
<1>5. CASE (\E file \in Files : NothingToImport(file)) \/ Done \/ UNCHANGED vars
  BY <1>5 DEF NothingToImport, Done, vars, EveryonePlayed
<1> QED
  BY <1>1, <1>2, <1>3, <1>4, <1>5 DEF Next

\* A row that is recorded has both its sides on record, by name and year.
LEMMA RecordedIsOnRecord ==
  ASSUME Sound(db), NEW r, Recorded(db, r)
  PROVE  OnRecord(r.year, r.home) /\ OnRecord(r.year, r.away)
<1>1. PICK q \in db.seasons, h \in db.teams, a \in db.teams :
        /\ q.year = r.year /\ h.name = r.home /\ a.name = r.away
        /\ \E p \in db.seasonTeams : p.season = q.id /\ p.team = h.id
        /\ \E p \in db.seasonTeams : p.season = q.id /\ p.team = a.id
  BY DEF Recorded
<1>2. /\ UniqueOn(db.seasons, LAMBDA x : x.id)
      /\ UniqueOn(db.teams, LAMBDA x : x.id)
  BY TableNames DEF Sound, KeysHold
<1>3. /\ RowOf(db.seasons, q.id) = q
      /\ RowOf(db.teams, h.id) = h /\ RowOf(db.teams, a.id) = a
  BY <1>2 DEF RowOf, UniqueOn
<1> QED
  BY <1>1, <1>3 DEF OnRecord

\* season_teams names who played: of databases in which that is so, for no
\* other program writes the table, the importer makes no other.
THEOREM SeasonTeamsHavePlayed ==
  ASSUME \A d \in StartDBs : PlayedIn(d)
  PROVE  Spec => []ParticipantsPlayed
<1>1. Init => EveryonePlayed
  BY DEF Init, EveryonePlayed, NoSession
<1>2. BootstrapInv /\ BootstrapInv' /\ EveryonePlayed /\ [Next]_vars => EveryonePlayed'
  BY EveryonePlayedStep
<1>3. BootstrapInv /\ RowsRecorded /\ EveryonePlayed => ParticipantsPlayed
  BY RecordedIsOnRecord
     DEF BootstrapInv, RowsRecorded, EveryonePlayed, PlayedIn, ParticipantsPlayed
<1> QED
  BY <1>1, <1>2, <1>3, BootstrapInvariant, RowsAreRecorded, PTL DEF Spec

-----------------------------------------------------------------------------
(* The same file again *)

\* A season whose dates cover every row of its year in the file is not changed.
LEMMA NothingToWiden ==
  ASSUME NEW s, SessionHolds(s), NEW parsed, WellParsed(parsed), NEW i \in DOMAIN parsed,
         \A j \in DOMAIN parsed : Recorded(s, parsed[j])
  PROVE  LET t == WithSeason(s, parsed, parsed[i]) IN
         /\ t.seasons = s.seasons
         /\ \A f \in SessionFields \ {"seasons"} : t[f] = s[f]
<1> DEFINE r == parsed[i]
           t == WithSeason(s, parsed, r)
           start == Lowest(DatesOf(parsed, r.year))
           end   == Highest(DatesOf(parsed, r.year))
<1>1. PICK q \in s.seasons : q.year = r.year
  BY DEF Recorded
<1>2. q.start \in Int /\ q.end \in Int
  BY DEF SessionHolds, ColumnsHold
<1>3. \A d \in DatesOf(parsed, r.year) : q.start <= d /\ d <= q.end
  <2>1. SUFFICES ASSUME NEW j \in DOMAIN parsed, parsed[j].year = r.year
                 PROVE  q.start <= LocalDate(parsed[j].at) /\ LocalDate(parsed[j].at) <= q.end
    BY DEF DatesOf
  <2>2. PICK w \in s.seasons : /\ w.year = parsed[j].year
                               /\ w.start <= LocalDate(parsed[j].at)
                               /\ LocalDate(parsed[j].at) <= w.end
    BY DEF Recorded
  <2>3. w = q
    BY <1>1, <2>1, <2>2 DEF SessionHolds, SchemaHolds, SeasonsUnique, UniqueOn
  <2> QED
    BY <2>2, <2>3
<1>4. /\ start \in Int /\ end \in Int
      /\ q.start <= start /\ end <= q.end
  <2>1. /\ DatesOf(parsed, r.year) \subseteq Int
        /\ start \in DatesOf(parsed, r.year) /\ end \in DatesOf(parsed, r.year)
    BY SeasonBounds DEF WellParsed
  <2> QED
    BY <1>3, <2>1
<1> HIDE DEF start, end, r
<1>5. r.year \in DOMAIN s.seasonByYear /\ s.seasonByYear[r.year] = q.id
  BY <1>1 DEF SessionHolds, LookupsMirrorRows
<1> DEFINE Widen(x) == [id |-> x.id, year |-> x.year, start |-> Lowest({x.start, start}),
                        end |-> Highest({x.end, end}), status |-> x.status]
           Now(x) == IF x.id = q.id THEN Widen(x) ELSE x
<1>6. /\ t.seasons = {Now(x) : x \in s.seasons}
      /\ \A f \in SessionFields \ {"seasons"} : t[f] = s[f]
  BY <1>5, TableNames DEF WithSeason, SessionHolds, SessionFields, start, end
<1>7. Widen(q) = q
  <2>1. Lowest({q.start, start}) = q.start
    BY <1>2, <1>4, BoundsOfTwo
  <2>2. Highest({q.end, end}) = q.end
    BY <1>2, <1>4, BoundsOfTwo
  <2>3. q = [id |-> q.id, year |-> q.year, start |-> q.start, end |-> q.end,
             status |-> q.status]
    BY DEF SessionHolds, ColumnsHold
  <2> QED
    BY <2>1, <2>2, <2>3
<1>8. ASSUME NEW x \in s.seasons
      PROVE  Now(x) = x
  <2>1. x.id = q.id => x = q
    BY TableNames DEF SessionHolds, UniqueOn
  <2> HIDE DEF Widen
  <2> QED
    BY <1>7, <2>1
<1> HIDE DEF Now, t
<1> QED
  BY <1>6, <1>8 DEF t, r

\* Nor is anything else, by a turn of the loop on a row that is on record: its
\* names have one team each, so the lookups name the teams of its match.
LEMMA NothingToAdd ==
  ASSUME NEW s, SessionHolds(s), NamesUnique(s),
         NEW parsed, WellParsed(parsed), NEW i \in DOMAIN parsed,
         \A j \in DOMAIN parsed : Recorded(s, parsed[j])
  PROVE  \A t \in Tables : AfterRow(s, parsed, parsed[i])[t] = s[t]
<1> DEFINE r  == parsed[i]
           s1 == WithSeason(s, parsed, r)
<1>1. /\ s1.seasons = s.seasons
      /\ \A f \in SessionFields \ {"seasons"} : s1[f] = s[f]
  BY NothingToWiden
<1>2. \A t \in Tables : s1[t] = s[t]
  BY <1>1, TableNames DEF SessionFields
<1>3. SessionHolds(s1) /\ Recorded(s, r)
  BY WithSeasonHolds DEF WellParsed
<1> HIDE DEF s1
<1>4. Recorded(s1, r)
  BY <1>2, <1>3, RecordedAlike
<1>5. LookupsMirrorRows(s1) /\ NamesUnique(s1)
  <2>1. s1.teams = s.teams /\ s1.venues = s.venues
    BY <1>2, TableNames
  <2> QED
    BY <1>3, <2>1 DEF SessionHolds, NamesUnique
<1>6. PICK q \in s1.seasons, h \in s1.teams, a \in s1.teams, v \in s1.venues :
        /\ q.year = r.year
        /\ h.name = r.home /\ a.name = r.away /\ v.name = r.venue
        /\ \E p \in s1.seasonTeams : p.season = q.id /\ p.team = h.id
        /\ \E p \in s1.seasonTeams : p.season = q.id /\ p.team = a.id
        /\ \E m \in s1.matches : NaturalKey(m) = <<q.id, r.matchday, h.id, a.id>>
  BY <1>4 DEF Recorded
<1>7. /\ r.home \in DOMAIN s1.teamByName /\ r.away \in DOMAIN s1.teamByName
      /\ r.venue \in DOMAIN s1.venueByName
  BY <1>5, <1>6 DEF LookupsMirrorRows
<1>8. s1.seasonByYear[r.year] = q.id
  BY <1>5, <1>6 DEF LookupsMirrorRows
<1>9. s1.teamByName[r.home] = h.id /\ s1.teamByName[r.away] = a.id
  BY <1>5, <1>6, <1>7 DEF LookupsMirrorRows, NamesUnique, UniqueOn
<1>10. <<q.id, h.id>> \in s1.seasonTeamKeys /\ <<q.id, a.id>> \in s1.seasonTeamKeys
  BY <1>5, <1>6 DEF LookupsMirrorRows
<1>11. <<q.id, r.matchday, h.id, a.id>> \in s1.matchKeys
  BY <1>5, <1>6 DEF LookupsMirrorRows
<1>12. WithVenue(WithTeam(WithTeam(s1, r.home), r.away), r.venue) = s1
  BY <1>7 DEF WithVenue, WithTeam
<1>13. WithParticipant(WithParticipant(s1, q.id, h.id), q.id, a.id) = s1
  BY <1>10 DEF WithParticipant
<1>14. WithMatch(s1, r, q.id, h.id, a.id) = s1
  BY <1>11 DEF WithMatch
<1>15. AfterRow(s, parsed, r) = s1
  BY <1>8, <1>9, <1>12, <1>13, <1>14 DEF AfterRow, s1
<1> QED
  BY <1>2, <1>15

\* While the file committed last is read again, the session shows the database.
SameAgain ==
  /\ NamesUnique(db)
  /\ session.open =>
       /\ NamesUnique(session)
       /\ rows = last => \A t \in Tables : session[t] = db[t]

LEMMA SameAgainStep ==
  ASSUME BootstrapInv, BootstrapInv', RowsRecorded, SameAgain, [Next]_vars
  PROVE  SameAgain'
<1>1. ASSUME NEW file \in Files, Open(file)
      PROVE  SameAgain'
  <2>1. \A t \in Tables : session'[t] = db[t]
    BY <1>1, SessionOpensRight DEF Open, BootstrapInv
  <2>2. session'.teams = db.teams /\ session'.venues = db.venues
    BY <2>1, TableNames
  <2> QED
    BY <1>1, <2>1, <2>2 DEF Open, SameAgain, NamesUnique, UniqueOn
<1>2. CASE ImportRow
  <2>1. /\ session.open /\ SessionHolds(session) /\ RowsHold
        /\ NextLine \in DOMAIN rows
        /\ session' = AfterRow(session, rows, rows[NextLine])
        /\ UNCHANGED <<db, rows, last>>
    BY <1>2, BootstrapImportRow DEF BootstrapInv, TypeOK, ImportRow, NextLine
  <2>2. NamesUnique(session')
    BY <2>1, AfterRowHolds DEF SameAgain, RowsHold
  <2>3. ASSUME rows = last
        PROVE  \A t \in Tables : session'[t] = db[t]
    <3>1. \A t \in Tables : db[t] = session[t]
      BY <2>1, <2>3 DEF SameAgain
    <3>2. \A j \in DOMAIN rows : Recorded(session, rows[j])
      BY <2>3, <3>1, RecordedAlike DEF RowsRecorded
    <3>3. \A t \in Tables : session'[t] = session[t]
      BY <2>1, <3>2, NothingToAdd DEF SameAgain, RowsHold
    <3> QED
      BY <3>1, <3>3
  <2> QED
    BY <2>1, <2>2, <2>3 DEF SameAgain
<1>3. CASE Commit
  <2>1. session.open /\ SessionHolds(session) /\ db' = Rows(session) /\ session' = NoSession
    BY <1>3 DEF Commit, BootstrapInv, TypeOK
  <2>2. db'.teams = session.teams /\ db'.venues = session.venues
    BY <2>1, SessionClosesRight, TableNames
  <2> QED
    BY <2>1, <2>2 DEF SameAgain, NamesUnique, UniqueOn, NoSession
<1>4. CASE Crash
  BY <1>4 DEF Crash, SameAgain, NoSession
<1>5. CASE (\E file \in Files : NothingToImport(file)) \/ Done \/ UNCHANGED vars
  BY <1>5 DEF NothingToImport, Done, vars, SameAgain
<1> QED
  BY <1>1, <1>2, <1>3, <1>4, <1>5 DEF Next

LEMMA TheSameAgain ==
  ASSUME \A d \in StartDBs : NamesUnique(d)
  PROVE  Spec => []SameAgain
<1>1. Init => SameAgain
  BY DEF Init, SameAgain, NoSession
<1>2. BootstrapInv /\ BootstrapInv' /\ RowsRecorded /\ SameAgain /\ [Next]_vars => SameAgain'
  BY SameAgainStep
<1> QED
  BY <1>1, <1>2, BootstrapInvariant, RowsAreRecorded, PTL DEF Spec

\* "Idempotent": of a database in which no two clubs and no two stadiums share
\* a name, running the importer again on the file it committed last changes no
\* row, whatever runs died in between.
THEOREM RerunsAreIdle ==
  ASSUME \A d \in StartDBs : NamesUnique(d)
  PROVE  Spec => RerunChangesNothing
<1>1. BootstrapInv /\ SameAgain /\ [Next]_vars
        => [rows = last /\ pc = "rows" => db' = db]_vars
  <2>1. SUFFICES ASSUME BootstrapInv, SameAgain, Next, rows = last, pc = "rows"
                 PROVE  db' = db
    OBVIOUS
  <2>2. CASE Commit
    <3>1. session.open /\ Sound(db) /\ db' = Rows(session)
      BY <2>1, <2>2 DEF BootstrapInv, TypeOK, Commit
    <3>2. \A t \in Tables : session[t] = db[t]
      BY <2>1, <3>1 DEF SameAgain
    <3>3. db = [t \in Tables |-> db[t]]
      BY <3>1 DEF Sound
    <3> QED
      BY <3>1, <3>2, <3>3 DEF Rows
  <2>3. CASE ~Commit
    BY <2>1, <2>3 DEF Next, Open, NothingToImport, ImportRow, Crash, Done, vars
  <2> QED
    BY <2>2, <2>3
<1> QED
  BY <1>1, BootstrapInvariant, TheSameAgain, PTL DEF Spec, RerunChangesNothing

-----------------------------------------------------------------------------
(* The archive a database stands for *)

\* What the archive needs of a database or a session: ids and names that tell
\* rows apart, and the constraints of models.py.
WellNamed(d) ==
  /\ \A t \in Tables : UniqueOn(d[t], LAMBDA r : r.id) /\ IdsOf(d[t]) \subseteq Nat
  /\ SchemaHolds(d) /\ ReferencesHold(d) /\ NamesUnique(d)

LEMMA RowOfItsId ==
  ASSUME NEW S, UniqueOn(S, LAMBDA r : r.id), NEW r \in S
  PROVE  RowOf(S, r.id) = r
BY DEF UniqueOn, RowOf

LEMMA NameOfItsId ==
  ASSUME NEW S, UniqueOn(S, LAMBDA r : r.id), IdsOf(S) \subseteq Nat, NEW r \in S
  PROVE  NameOf(S, r.id) = r.name
<1>1. r.id # None
  BY NoneIsNoId DEF IdsOf
<1> QED
  BY <1>1, RowOfItsId DEF NameOf

\* A match goes by the year of its season and the names of its sides.
LEMMA FixtureOfMatch ==
  ASSUME NEW d, WellNamed(d), NEW m,
         NEW q \in d.seasons, NEW h \in d.teams, NEW a \in d.teams,
         q.id = m.season, h.id = m.home, a.id = m.away
  PROVE  FixtureOf(d, m) = [year |-> q.year, matchday |-> m.matchday,
                            home |-> h.name, away |-> a.name]
<1>1. RowOf(d.seasons, m.season) = q
  BY RowOfItsId, TableNames DEF WellNamed
<1>2. NameOf(d.teams, m.home) = h.name /\ NameOf(d.teams, m.away) = a.name
  BY NameOfItsId, TableNames DEF WellNamed
<1> QED
  BY <1>1, <1>2 DEF FixtureOf

LEMMA RowsOfMatch ==
  ASSUME NEW d, WellNamed(d), NEW m \in d.matches
  PROVE  \E q \in d.seasons, h \in d.teams, a \in d.teams :
           q.id = m.season /\ h.id = m.home /\ a.id = m.away
BY DEF WellNamed, ReferencesHold, IdsOf

\* No two matches go by the same names.
LEMMA FixtureTellsMatch ==
  ASSUME NEW d, WellNamed(d), NEW m \in d.matches, NEW n \in d.matches,
         FixtureOf(d, m) = FixtureOf(d, n)
  PROVE  m = n
<1>1. PICK q \in d.seasons, h \in d.teams, a \in d.teams :
        q.id = m.season /\ h.id = m.home /\ a.id = m.away
  BY RowsOfMatch
<1>2. PICK w \in d.seasons, g \in d.teams, b \in d.teams :
        w.id = n.season /\ g.id = n.home /\ b.id = n.away
  BY RowsOfMatch
<1>3. FixtureOf(d, m) = [year |-> q.year, matchday |-> m.matchday,
                         home |-> h.name, away |-> a.name]
  BY <1>1, FixtureOfMatch
<1>4. FixtureOf(d, n) = [year |-> w.year, matchday |-> n.matchday,
                         home |-> g.name, away |-> b.name]
  BY <1>2, FixtureOfMatch
<1> DEFINE x == FixtureOf(d, m)
           y == FixtureOf(d, n)
<1> HIDE DEF x, y
<1>5. /\ x.year = q.year /\ x.matchday = m.matchday
      /\ x.home = h.name /\ x.away = a.name
  BY <1>3 DEF x
<1>6. /\ y.year = w.year /\ y.matchday = n.matchday
      /\ y.home = g.name /\ y.away = b.name
  BY <1>4 DEF y
<1>7. x = y
  BY DEF x, y
<1>8. q = w /\ h = g /\ a = b
  BY <1>5, <1>6, <1>7 DEF WellNamed, NamesUnique, SchemaHolds, SeasonsUnique, UniqueOn
<1>9. NaturalKey(m) = NaturalKey(n)
  BY <1>1, <1>2, <1>5, <1>6, <1>7, <1>8 DEF NaturalKey
<1> QED
  BY <1>9 DEF WellNamed, SchemaHolds, MatchesUnique, UniqueOn

LEMMA ArchivedAtFixture ==
  ASSUME NEW d, WellNamed(d), NEW m \in d.matches
  PROVE  /\ FixtureOf(d, m) \in DOMAIN Archived(d)
         /\ Archived(d)[FixtureOf(d, m)] = FactsOf(d, m)
<1> DEFINE x == FixtureOf(d, m)
           c == CHOOSE n \in d.matches : FixtureOf(d, n) = x
<1>1. c \in d.matches /\ FixtureOf(d, c) = x
  OBVIOUS
<1>2. c = m
  BY <1>1, FixtureTellsMatch
<1> QED
  BY <1>2 DEF Archived

\* The rows of a match keep their names, and so the match its place.
LEMMA ArchivedStays ==
  ASSUME NEW s, NEW t, WellNamed(s), WellNamed(t), Extends(s, t), NEW m \in s.matches
  PROVE  /\ m \in t.matches
         /\ FixtureOf(t, m) = FixtureOf(s, m) /\ FactsOf(t, m) = FactsOf(s, m)
<1>1. /\ s.teams \subseteq t.teams /\ s.venues \subseteq t.venues
      /\ s.matches \subseteq t.matches
  BY TableNames DEF Extends
<1>2. PICK q \in s.seasons, h \in s.teams, a \in s.teams :
        q.id = m.season /\ h.id = m.home /\ a.id = m.away
  BY RowsOfMatch
<1>3. PICK w \in t.seasons : w.id = q.id /\ w.year = q.year
  BY DEF Extends
<1>4. FixtureOf(s, m) = [year |-> q.year, matchday |-> m.matchday,
                         home |-> h.name, away |-> a.name]
  BY <1>2, FixtureOfMatch
<1>5. FixtureOf(t, m) = [year |-> w.year, matchday |-> m.matchday,
                         home |-> h.name, away |-> a.name]
  BY <1>1, <1>2, <1>3, FixtureOfMatch
<1>6. NameOf(t.venues, m.venue) = NameOf(s.venues, m.venue)
  <2>1. CASE m.venue = None
    BY <2>1 DEF NameOf
  <2>2. CASE m.venue # None
    <3>1. PICK v \in s.venues : v.id = m.venue
      BY <2>2 DEF WellNamed, ReferencesHold, IdsOf
    <3>2. NameOf(s.venues, m.venue) = v.name
      BY <3>1, NameOfItsId, TableNames DEF WellNamed
    <3>3. NameOf(t.venues, m.venue) = v.name
      BY <1>1, <3>1, NameOfItsId, TableNames DEF WellNamed
    <3> QED
      BY <3>2, <3>3
  <2> QED
    BY <2>1, <2>2
<1>7. FactsOf(t, m) = FactsOf(s, m)
  BY <1>6 DEF FactsOf
<1> QED
  BY <1>1, <1>3, <1>4, <1>5, <1>7

\* A turn of the loop adds the row's fixture, unless the archive has it.
LEMMA TurnArchives ==
  ASSUME NEW s, NEW t, NEW r, SessionHolds(s), SessionHolds(t),
         WellNamed(s), WellNamed(t), Extends(s, t), Turn(s, t, r)
  PROVE  /\ DOMAIN Archived(t) = DOMAIN Archived(s) \cup {NamedIn(r)}
         /\ \A x \in DOMAIN Archived(s) : Archived(t)[x] = Archived(s)[x]
         /\ NamedIn(r) \notin DOMAIN Archived(s) => Archived(t)[NamedIn(r)] = FactsIn(r)
<1> DEFINE season == t.seasonByYear[r.year]
           home   == t.teamByName[r.home]
           away   == t.teamByName[r.away]
           venue  == t.venueByName[r.venue]
           key    == <<season, r.matchday, home, away>>
<1>1. LookupsMirrorRows(t) /\ LookupsMirrorRows(s)
  BY DEF SessionHolds
<1>2. PICK q \in t.seasons : q.year = r.year /\ q.id = season
  BY <1>1 DEF LookupsMirrorRows, Turn
<1>3. PICK h \in t.teams : h.name = r.home /\ h.id = home
  BY <1>1 DEF LookupsMirrorRows, Turn
<1>4. PICK a \in t.teams : a.name = r.away /\ a.id = away
  BY <1>1 DEF LookupsMirrorRows, Turn
<1>5. PICK v \in t.venues : v.name = r.venue /\ v.id = venue
  BY <1>1 DEF LookupsMirrorRows, Turn
<1>6. ASSUME NEW m, NaturalKey(m) = key
      PROVE  FixtureOf(t, m) = NamedIn(r)
  <2>1. m.season = season /\ m.matchday = r.matchday /\ m.home = home /\ m.away = away
    BY <1>6 DEF NaturalKey
  <2> HIDE DEF season, home, away
  <2>2. FixtureOf(t, m) = [year |-> q.year, matchday |-> m.matchday,
                           home |-> h.name, away |-> a.name]
    BY <1>2, <1>3, <1>4, <2>1, FixtureOfMatch
  <2> QED
    BY <1>2, <1>3, <1>4, <2>1, <2>2 DEF NamedIn
<1>7. /\ DOMAIN Archived(s) = {FixtureOf(s, m) : m \in s.matches}
      /\ DOMAIN Archived(t) = {FixtureOf(t, m) : m \in t.matches}
  BY DEF Archived
<1>8. \A m \in s.matches : /\ m \in t.matches
                           /\ FixtureOf(t, m) = FixtureOf(s, m)
                           /\ FactsOf(t, m) = FactsOf(s, m)
  BY ArchivedStays
<1>9. ASSUME NEW x \in DOMAIN Archived(s)
      PROVE  x \in DOMAIN Archived(t) /\ Archived(t)[x] = Archived(s)[x]
  <2>1. PICK m \in s.matches : x = FixtureOf(s, m)
    BY <1>7
  <2>2. Archived(s)[x] = FactsOf(s, m)
    BY <2>1, ArchivedAtFixture
  <2>3. x = FixtureOf(t, m) /\ m \in t.matches /\ FactsOf(t, m) = FactsOf(s, m)
    BY <1>8, <2>1
  <2> QED
    BY <2>2, <2>3, ArchivedAtFixture
<1>10. CASE key \in s.matchKeys
  <2>1. PICK n \in s.matches : NaturalKey(n) = key
    BY <1>1, <1>10 DEF LookupsMirrorRows
  <2>2. NamedIn(r) \in DOMAIN Archived(s)
    BY <1>6, <1>7, <1>8, <2>1
  <2>3. t.matches = s.matches
    BY <1>10 DEF Turn
  <2>4. DOMAIN Archived(t) = DOMAIN Archived(s)
    BY <1>7, <1>8, <2>3
  <2> QED
    BY <1>9, <2>2, <2>4
<1>11. CASE key \notin s.matchKeys
  <2>1. PICK id \in Nat :
          t.matches = s.matches \cup
            {[id |-> id, season |-> season, matchday |-> r.matchday, home |-> home,
              away |-> away, at |-> r.at, venue |-> venue, status |-> "finished",
              score |-> r.score]}
    BY <1>11 DEF Turn
  <2> DEFINE n == [id |-> id, season |-> season, matchday |-> r.matchday, home |-> home,
                   away |-> away, at |-> r.at, venue |-> venue, status |-> "finished",
                   score |-> r.score]
  <2>2. n \in t.matches /\ t.matches = s.matches \cup {n}
    BY <2>1
  <2>3. /\ NaturalKey(n) = key /\ n.at = r.at /\ n.venue = venue
        /\ n.status = "finished" /\ n.score = r.score
    BY DEF NaturalKey
  <2> HIDE DEF n, key, venue
  <2>4. FixtureOf(t, n) = NamedIn(r)
    BY <1>6, <2>3
  <2>5. NameOf(t.venues, venue) = r.venue
    BY <1>5, NameOfItsId, TableNames DEF WellNamed
  <2>6. FactsOf(t, n) = FactsIn(r)
    BY <2>3, <2>5 DEF FactsOf, FactsIn
  <2>7. NamedIn(r) \in DOMAIN Archived(t) /\ Archived(t)[NamedIn(r)] = FactsIn(r)
    BY <2>2, <2>4, <2>6, ArchivedAtFixture
  <2>8. DOMAIN Archived(t) = DOMAIN Archived(s) \cup {NamedIn(r)}
    BY <1>7, <1>8, <2>2, <2>4
  <2> QED
    BY <1>9, <2>7, <2>8
<1> QED
  BY <1>10, <1>11

LEMMA ArchivedAlike ==
  ASSUME NEW s, NEW t, WellNamed(s), WellNamed(t), \A u \in Tables : s[u] = t[u]
  PROVE  Archived(s) = Archived(t)
<1>1. /\ s.matches = t.matches /\ s.seasons = t.seasons
      /\ s.teams = t.teams /\ s.venues = t.venues
  BY TableNames
<1>2. \A m : FixtureOf(s, m) = FixtureOf(t, m) /\ FactsOf(s, m) = FactsOf(t, m)
  BY <1>1 DEF FixtureOf, FactsOf
<1>3. /\ DOMAIN Archived(s) = {FixtureOf(s, m) : m \in s.matches}
      /\ DOMAIN Archived(t) = {FixtureOf(t, m) : m \in t.matches}
      /\ Archived(s) = [x \in DOMAIN Archived(s) |-> Archived(s)[x]]
      /\ Archived(t) = [x \in DOMAIN Archived(t) |-> Archived(t)[x]]
  BY DEF Archived
<1>4. DOMAIN Archived(s) = DOMAIN Archived(t)
  BY <1>1, <1>2, <1>3
<1>5. ASSUME NEW x \in DOMAIN Archived(s)
      PROVE  Archived(s)[x] = Archived(t)[x]
  <2>1. PICK m \in s.matches : x = FixtureOf(s, m)
    BY <1>3
  <2>2. Archived(s)[x] = FactsOf(s, m)
    BY <2>1, ArchivedAtFixture
  <2>3. Archived(t)[x] = FactsOf(t, m)
    BY <1>1, <1>2, <2>1, ArchivedAtFixture
  <2> QED
    BY <1>2, <2>2, <2>3
<1> QED
  BY <1>3, <1>4, <1>5

LEMMA SoundIsWellNamed ==
  ASSUME NEW d, Sound(d), NamesUnique(d)
  PROVE  WellNamed(d)
<1>1. \A t \in Tables : IdsOf(d[t]) \subseteq Nat
  BY DEF Sound, KeysHold, Ids
<1> QED
  BY <1>1 DEF Sound, KeysHold, WellNamed

LEMMA SessionIsWellNamed ==
  ASSUME NEW s, SessionHolds(s), NamesUnique(s)
  PROVE  WellNamed(s)
<1>1. \A t \in Tables : IdsOf(s[t]) \subseteq Nat
  BY DEF SessionHolds, IdsBelow, IdsOf
<1> QED
  BY <1>1 DEF SessionHolds, WellNamed

-----------------------------------------------------------------------------
(* The importer keeps an archive *)

\* One archive is another with the first row of each new fixture among some
\* lines of a file.
GrownBy(after, before, parsed, lines) ==
  /\ DOMAIN after = DOMAIN before \cup {NamedIn(parsed[i]) : i \in lines}
  /\ \A x \in DOMAIN before : after[x] = before[x]
  /\ \A x \in DOMAIN after \ DOMAIN before :
       \E i \in lines :
         /\ NamedIn(parsed[i]) = x /\ after[x] = FactsIn(parsed[i])
         /\ \A j \in lines : NamedIn(parsed[j]) = x => i <= j

\* The session stands for the archive the run found, grown by the lines done,
\* and the loop takes the lines in order.
ArchiveSoFar ==
  session.open =>
    /\ \E file \in Files : rows = ParsedRows(file)
    /\ \A i \in DoneLines, j \in todo : i <= j
    /\ GrownBy(Archived(session), Archived(db), rows, DoneLines)

LEMMA ArchiveSoFarOpen ==
  ASSUME BootstrapInv, BootstrapInv', SameAgain, SameAgain', NEW file \in Files, Open(file)
  PROVE  ArchiveSoFar'
<1>1. /\ session'.open /\ db' = db /\ rows' = ParsedRows(file)
      /\ DoneLines' = {} /\ todo' = DOMAIN rows'
      /\ \A t \in Tables : session'[t] = db[t]
  BY SessionOpensRight DEF Open, BootstrapInv, DoneLines
<1>2. WellNamed(db) /\ WellNamed(session')
  BY <1>1, SoundIsWellNamed, SessionIsWellNamed DEF BootstrapInv, SameAgain
<1>3. Archived(session') = Archived(db)
  BY <1>1, <1>2, ArchivedAlike
<1> QED
  BY <1>1, <1>3 DEF ArchiveSoFar, GrownBy

LEMMA ArchiveSoFarImportRow ==
  ASSUME BootstrapInv, SameAgain, SameAgain', ArchiveSoFar, ImportRow
  PROVE  ArchiveSoFar'
<1> DEFINE n == NextLine
           r == rows[n]
           A == Archived(session)
           B == Archived(session')
           D == Archived(db)
<1>1. /\ session.open /\ session'.open /\ BootstrapInv'
      /\ n \in todo /\ \A j \in todo : n <= j
      /\ todo' = todo \ {n}
      /\ Extends(session, session') /\ Turn(session, session', r)
      /\ db' = db /\ rows' = rows
  BY BootstrapImportRow DEF ImportRow
<1>2. /\ SessionHolds(session) /\ SessionHolds(session')
      /\ WellNamed(session) /\ WellNamed(session')
      /\ todo \subseteq DOMAIN rows /\ DOMAIN rows \subseteq Nat
  BY <1>1, SessionIsWellNamed
     DEF BootstrapInv, SameAgain, TypeOK, RowsHold, WellParsed, Dated
<1>3. /\ DOMAIN B = DOMAIN A \cup {NamedIn(r)}
      /\ \A x \in DOMAIN A : B[x] = A[x]
      /\ NamedIn(r) \notin DOMAIN A => B[NamedIn(r)] = FactsIn(r)
  BY <1>1, <1>2, TurnArchives
<1>4. DoneLines' = DoneLines \cup {n}
  BY <1>1, <1>2 DEF DoneLines
<1> HIDE DEF A, B, D, r, n
<1>5. /\ \E file \in Files : rows = ParsedRows(file)
      /\ \A i \in DoneLines, j \in todo : i <= j
      /\ DOMAIN A = DOMAIN D \cup {NamedIn(rows[i]) : i \in DoneLines}
      /\ \A x \in DOMAIN D : A[x] = D[x]
      /\ \A x \in DOMAIN A \ DOMAIN D :
           \E i \in DoneLines :
             /\ NamedIn(rows[i]) = x /\ A[x] = FactsIn(rows[i])
             /\ \A j \in DoneLines : NamedIn(rows[j]) = x => i <= j
  BY <1>1 DEF ArchiveSoFar, GrownBy, A, D
<1>6. \A i \in DoneLines \cup {n}, j \in todo \ {n} : i <= j
  BY <1>1, <1>5
<1>7. DOMAIN B = DOMAIN D \cup {NamedIn(rows[i]) : i \in DoneLines \cup {n}}
  BY <1>3, <1>5 DEF r
<1>8. \A x \in DOMAIN D : B[x] = D[x]
  BY <1>3, <1>5
<1>9. ASSUME NEW x \in DOMAIN B \ DOMAIN D
      PROVE  \E i \in DoneLines \cup {n} :
               /\ NamedIn(rows[i]) = x /\ B[x] = FactsIn(rows[i])
               /\ \A j \in DoneLines \cup {n} : NamedIn(rows[j]) = x => i <= j
  <2>1. CASE x \in DOMAIN A
    BY <1>1, <1>3, <1>5, <2>1
  <2>2. CASE x \notin DOMAIN A
    <3>1. x = NamedIn(r) /\ B[x] = FactsIn(r)
      BY <1>3, <2>2
    <3>2. \A j \in DoneLines : NamedIn(rows[j]) # x
      BY <1>5, <2>2
    <3>3. n \in Nat
      BY <1>1, <1>2
    <3> QED
      BY <3>1, <3>2, <3>3 DEF r
  <2> QED
    BY <2>1, <2>2
<1> QED
  BY <1>1, <1>4, <1>5, <1>6, <1>7, <1>8, <1>9 DEF ArchiveSoFar, GrownBy, B, D

\* The end of the loop: the archive has what the file reports and it lacked.
LEMMA CommitAddsReport ==
  ASSUME BootstrapInv, SameAgain, SameAgain', BootstrapInv', ArchiveSoFar, Commit
  PROVE  /\ ReportOf(rows) \in FileReports
         /\ Archived(db)' =
              [x \in DOMAIN Archived(db) \cup DOMAIN ReportOf(rows) |->
                 IF x \in DOMAIN Archived(db) THEN Archived(db)[x] ELSE ReportOf(rows)[x]]
<1> DEFINE A == Archived(session)
           D == Archived(db)
           R == ReportOf(rows)
<1>1. session.open /\ todo = {} /\ db' = Rows(session) /\ DoneLines = DOMAIN rows
  BY DEF Commit, BootstrapInv, TypeOK, DoneLines
<1>2. /\ SessionHolds(session) /\ WellNamed(session) /\ WellNamed(db')
      /\ \A t \in Tables : db'[t] = session[t]
      /\ DOMAIN rows \subseteq Int
  BY <1>1, SessionIsWellNamed, SoundIsWellNamed, SessionClosesRight
     DEF BootstrapInv, SameAgain, RowsHold, WellParsed, Dated
<1>3. Archived(db') = A
  BY <1>2, ArchivedAlike
<1>4. A = [x \in DOMAIN A |-> A[x]]
  BY DEF Archived
<1>5. /\ DOMAIN R = {NamedIn(rows[i]) : i \in DOMAIN rows}
      /\ \A x \in DOMAIN R :
           R[x] = FactsIn(rows[Lowest({i \in DOMAIN rows : NamedIn(rows[i]) = x})])
  BY DEF ReportOf
<1>6. R \in FileReports
  BY <1>1 DEF ArchiveSoFar, FileReports
<1> HIDE DEF A, D, R
<1>7. /\ DOMAIN A = DOMAIN D \cup DOMAIN R
      /\ \A x \in DOMAIN D : A[x] = D[x]
      /\ \A x \in DOMAIN A \ DOMAIN D :
           \E i \in DOMAIN rows :
             /\ NamedIn(rows[i]) = x /\ A[x] = FactsIn(rows[i])
             /\ \A j \in DOMAIN rows : NamedIn(rows[j]) = x => i <= j
  BY <1>1, <1>5 DEF ArchiveSoFar, GrownBy, A, D
<1>8. ASSUME NEW x \in DOMAIN A \ DOMAIN D
      PROVE  A[x] = R[x]
  <2> DEFINE lines == {i \in DOMAIN rows : NamedIn(rows[i]) = x}
  <2>1. PICK i \in DOMAIN rows :
          /\ NamedIn(rows[i]) = x /\ A[x] = FactsIn(rows[i])
          /\ \A j \in DOMAIN rows : NamedIn(rows[j]) = x => i <= j
    BY <1>7
  <2>2. /\ i \in lines /\ \A j \in lines : i <= j
        /\ lines \subseteq Int
    BY <1>2, <2>1
  <2> HIDE DEF lines
  <2>3. Lowest(lines) = i
    BY <2>2 DEF Lowest
  <2> QED
    BY <1>5, <1>7, <2>1, <2>3 DEF lines
<1> QED
  BY <1>3, <1>4, <1>6, <1>7, <1>8 DEF D, R

LEMMA ArchiveSoFarStep ==
  ASSUME BootstrapInv, BootstrapInv', SameAgain, SameAgain', ArchiveSoFar, [Next]_vars
  PROVE  ArchiveSoFar'
<1>1. CASE \E file \in Files : Open(file)
  BY <1>1, ArchiveSoFarOpen
<1>2. CASE ImportRow
  BY <1>2, ArchiveSoFarImportRow
<1>3. CASE Commit \/ Crash
  BY <1>3 DEF Commit, Crash, ArchiveSoFar, NoSession
<1>4. CASE (\E file \in Files : NothingToImport(file)) \/ Done \/ UNCHANGED vars
  <2>1. db' = db /\ session' = session /\ rows' = rows /\ todo' = todo
    BY <1>4 DEF NothingToImport, Done, vars
  <2>2. DoneLines' = DoneLines
    BY <2>1 DEF DoneLines
  <2> QED
    BY <2>1, <2>2 DEF ArchiveSoFar
<1> QED
  BY <1>1, <1>2, <1>3, <1>4 DEF Next

\* Step by step the archive changes by a whole report or not at all.
LEMMA StepAddsReport ==
  ASSUME BootstrapInv, BootstrapInv', SameAgain, SameAgain', ArchiveSoFar, [Next]_vars
  PROVE  [Archive!Next]_(Archived(db))
<1>1. CASE Commit
  BY <1>1, CommitAddsReport DEF Archive!Next, Archive!Add
<1>2. CASE ~Commit
  <2>1. db' = db
    BY <1>2 DEF Next, Open, NothingToImport, ImportRow, Crash, Done, vars
  <2>2. Archived(db)' = Archived(db)
    BY <2>1
  <2> QED
    BY <2>2
<1> QED
  BY <1>1, <1>2

\* Importing history implements FixtureArchive: of a database in which no two
\* clubs and no two stadiums share a name, a run adds, all at once or not at
\* all, the fixtures of its file that the database lacks, the first row of
\* each, and overrules none that it has.
THEOREM ImporterKeepsArchive ==
  ASSUME \A d \in StartDBs : NamesUnique(d)
  PROVE  Spec => ImplementsArchive
<1>1. Init => Archive!Init
  BY DEF Init, Archive!Init, FoundArchives
<1>2. Init => ArchiveSoFar
  BY DEF Init, ArchiveSoFar, NoSession
<1>3. BootstrapInv /\ BootstrapInv' /\ SameAgain /\ SameAgain' /\ ArchiveSoFar /\ [Next]_vars
        => ArchiveSoFar'
  BY ArchiveSoFarStep
<1>4. BootstrapInv /\ BootstrapInv' /\ SameAgain /\ SameAgain' /\ ArchiveSoFar /\ [Next]_vars
        => [Archive!Next]_(Archived(db))
  BY StepAddsReport
<1> QED
  BY <1>1, <1>2, <1>3, <1>4, BootstrapInvariant, TheSameAgain, PTL
     DEF Spec, ImplementsArchive, Archive!Spec
=============================================================================
