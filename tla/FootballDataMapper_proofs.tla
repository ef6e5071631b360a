----------------------- MODULE FootballDataMapper_proofs -----------------------
(***************************************************************************)
(* Theorems of FootballDataMapper, for all that the API may report and     *)
(* every sound database it may find.                                       *)
(***************************************************************************)
EXTENDS FootballDataMapper, CoreSchema_proofs

-----------------------------------------------------------------------------
(* The season of a batch *)

LEMMA BatchIsFinite ==
  ASSUME NEW f \in Feeds, f.rows # <<>>
  PROVE  /\ BatchDates(f) \subseteq Int /\ IsFiniteSet(BatchDates(f)) /\ BatchDates(f) # {}
         /\ Len(f.rows) \in Nat /\ DOMAIN f.rows = 1..Len(f.rows)
<1>1. f.rows \in Seq({f.rows[i] : i \in DOMAIN f.rows}) /\ \A i \in DOMAIN f.rows : f.rows[i].at \in Int
  BY MapperAssumption
<1>2. PICK n \in Nat : n = Len(f.rows) /\ DOMAIN f.rows = 1..n /\ n # 0
  BY <1>1
<1> DEFINE g == [i \in 1..n |-> UtcDate(f.rows[i].at)]
<1>3. \A i \in 1..n : UtcDate(f.rows[i].at) \in BatchDates(f)
  BY <1>2 DEF BatchDates, BatchRows
<1>4. \A x \in BatchDates(f) : \E i \in 1..n : x = UtcDate(f.rows[i].at)
  BY <1>2 DEF BatchDates, BatchRows
<1>5. g \in Surjection(1..n, BatchDates(f))
  BY <1>3, <1>4 DEF Surjection
<1>6. IsFiniteSet(1..n)
  BY FS_Interval
<1>7. IsFiniteSet(BatchDates(f))
  BY <1>5, <1>6, FS_Surjection
<1>8. BatchDates(f) \subseteq Int
  BY <1>1, <1>2, <1>4 DEF UtcDate
<1>9. 1 \in 1..n
  BY <1>2
<1> QED
  BY <1>2, <1>3, <1>7, <1>8, <1>9

\* The row of the season, new or widened.
SeasonRow(id, f, start, end) ==
  [id |-> id, year |-> f.year, status |-> BatchStatus(f), start |-> start, end |-> end]

Earlier(x, y) == IF x <= y THEN x ELSE y
Later(x, y) == IF x >= y THEN x ELSE y

LEMMA SeasonOfBatch ==
  ASSUME NEW f \in Feeds, f.rows # <<>>, ColumnsHold(db), NEW id
  PROVE  /\ Lowest(BatchDates(f)) \in Int /\ Highest(BatchDates(f)) \in Int
         /\ \/ /\ \A s \in db.seasons : s.year # f.year
               /\ SeasonAfter(f, id) =
                    SeasonRow(id, f, Lowest(BatchDates(f)), Highest(BatchDates(f)))
            \/ \E s \in db.seasons :
                 /\ s.year = f.year
                 /\ SeasonAfter(f, id) =
                      SeasonRow(s.id, f, Earlier(s.start, Lowest(BatchDates(f))),
                                Later(s.end, Highest(BatchDates(f))))
<1> DEFINE known == {s \in db.seasons : s.year = f.year}
           low == Lowest(BatchDates(f))
           high == Highest(BatchDates(f))
<1>1. low \in Int /\ high \in Int
  BY BatchIsFinite, LowestOfFinite, HighestOfFinite
<1>2. CASE known = {}
  BY <1>1, <1>2 DEF SeasonAfter, SeasonRow
<1>3. CASE known # {}
  <2> DEFINE s == CHOOSE s \in known : TRUE
  <2>1. s \in db.seasons /\ s.year = f.year
    BY <1>3
  <2>2. s.start \in Int /\ s.end \in Int
    BY <2>1 DEF ColumnsHold
  <2>3. Lowest({s.start, low}) = Earlier(s.start, low) /\ Highest({s.end, high}) = Later(s.end, high)
    BY <1>1, <2>2, BoundsOfTwo DEF Earlier, Later
  <2>4. SeasonAfter(f, id) =
          [id |-> s.id, year |-> s.year, status |-> BatchStatus(f),
           start |-> Lowest({s.start, low}), end |-> Highest({s.end, high})]
    BY <1>3 DEF SeasonAfter
  <2> HIDE DEF s, low, high
  <2>5. SeasonAfter(f, id) = SeasonRow(s.id, f, Earlier(s.start, low), Later(s.end, high))
    BY <2>1, <2>3, <2>4 DEF SeasonRow
  <2> QED
    BY <1>1, <2>1, <2>5 DEF low, high
<1> QED
  BY <1>2, <1>3

-----------------------------------------------------------------------------
(* The session *)

MapperFields == Tables \cup {"open", "season", "nextId", "teamByExt", "teamByName",
                             "venueByName", "matchByExt", "matchByKey"}

\* The five dictionaries say what the session's own rows say.
DictionariesHold(s) ==
  /\ DOMAIN s.teamByExt = {l.ext : l \in OfSource(s.teamLinks)}
  /\ \A l \in OfSource(s.teamLinks) : s.teamByExt[l.ext] = l.team
  /\ DOMAIN s.teamByName = {Lowered[t.name] : t \in s.teams}
  /\ \A n \in DOMAIN s.teamByName :
       \E t \in s.teams : Lowered[t.name] = n /\ t.id = s.teamByName[n]
  /\ DOMAIN s.venueByName = {v.name : v \in s.venues}
  /\ \A n \in DOMAIN s.venueByName : \E v \in s.venues : v.name = n /\ v.id = s.venueByName[n]
  /\ DOMAIN s.matchByExt = {l.ext : l \in OfSource(s.matchLinks)}
  /\ \A l \in OfSource(s.matchLinks) : s.matchByExt[l.ext] = l.match
  /\ DOMAIN s.matchByKey = {NaturalKey(m) : m \in s.matches}
  /\ \A m \in s.matches : s.matchByKey[NaturalKey(m)] = m.id

\* Of the constraints, a turn may come to violate three: one link of the source
\* for each team and match, and two sides for a match.
TurnSchema(s) ==
  /\ SeasonsUnique(s) /\ MatchesUnique(s) /\ SeasonTeamsUnique(s) /\ StatsUnique(s)
  /\ UniqueOn(s.teamLinks, LAMBDA l : <<l.source, l.ext>>)
  /\ UniqueOn(s.matchLinks, LAMBDA l : <<l.source, l.ext>>)

MapperSessionHolds(s) ==
  /\ DOMAIN s = MapperFields /\ s.open = TRUE
  /\ IdsBelow(s) /\ \A t \in Tables : UniqueOn(s[t], LAMBDA r : r.id)
  /\ ColumnsHold(s) /\ TurnSchema(s) /\ ReferencesHold(s)
  /\ s.season \in IdsOf(s.seasons)
  /\ DictionariesHold(s)

\* A run begins with the rows of the database, its season brought up to date.
Opened(s, f) ==
  /\ \A t \in Tables \ {"seasons"} : s[t] = db[t]
  /\ \E season :
       /\ season = SeasonAfter(f, FirstFreeId(db)) /\ s.season = season.id
       /\ s.seasons = {r \in db.seasons : r.id # season.id} \cup {season}

LEMMA MapperOpens ==
  ASSUME Sound(db), NEW f \in Feeds, Open(f)
  PROVE  Opened(session', f) /\ MapperSessionHolds(session') /\ SchemaHolds(session')
<1> DEFINE season == SeasonAfter(f, FirstFreeId(db))
           s == session'
<1> USE TableNames
<1>0. PICK dictionaries \in Dictionaries(db) :
        s = Joined([open |-> TRUE, season |-> season.id,
                    nextId |-> Highest({FirstFreeId(db), season.id + 1})],
                   Joined(dictionaries,
                          [db EXCEPT !.seasons = {r \in @ : r.id # season.id} \cup {season}]))
  BY DEF Open
<1>1. PICK byExt \in LinkedTeams(OfSource(db.teamLinks)), byName \in FoldedTeams(db.teams),
           venues \in NamedVenues(db.venues), matches \in LinkedMatches(OfSource(db.matchLinks)),
           keys \in KeyedMatches(db.matches) :
        dictionaries = [teamByExt |-> byExt, teamByName |-> byName, venueByName |-> venues,
                        matchByExt |-> matches, matchByKey |-> keys]
  BY DEF Dictionaries
<1>2. DOMAIN db = Tables
  BY DEF Sound
<1>3. f.rows # <<>>
  BY DEF Open
<1>4. /\ FirstFreeId(db) \in Nat /\ \A id \in Ids(db) : id < FirstFreeId(db)
      /\ Ids(db) \subseteq Nat
  BY FirstFreeIdIsFree DEF Sound, KeysHold
<1>5. DOMAIN s = MapperFields
  BY <1>0, <1>1, <1>2 DEF Joined, MapperFields
<1>6. /\ s.open = TRUE /\ s.season = season.id
      /\ s.nextId = Highest({FirstFreeId(db), season.id + 1})
      /\ s.teamByExt = byExt /\ s.teamByName = byName /\ s.venueByName = venues
      /\ s.matchByExt = matches /\ s.matchByKey = keys
  BY <1>0, <1>1, <1>2 DEF Joined
<1>7. \A t \in Tables \ {"seasons"} : s[t] = db[t]
  BY <1>0, <1>1, <1>2 DEF Joined
<1>8. s.seasons = {r \in db.seasons : r.id # season.id} \cup {season}
  BY <1>0, <1>1, <1>2 DEF Joined
<1> HIDE DEF s
<1>9. /\ s.teams = db.teams /\ s.teamLinks = db.teamLinks /\ s.venues = db.venues
      /\ s.matches = db.matches /\ s.matchLinks = db.matchLinks
      /\ s.seasonTeams = db.seasonTeams /\ s.stats = db.stats
  BY <1>7
<1>10. /\ season.year = f.year
       /\ season = [id |-> season.id, year |-> season.year, start |-> season.start,
                    end |-> season.end, status |-> season.status]
       /\ season.start \in Int /\ season.end \in Int
       /\ \/ season.id = FirstFreeId(db) /\ \A r \in db.seasons : r.year # f.year
          \/ \E r \in db.seasons : r.year = f.year /\ r.id = season.id
  <2>1. /\ \A r \in db.seasons : r.start \in Int /\ r.end \in Int
        /\ ColumnsHold(db)
    BY DEF Sound, ColumnsHold
  <2> HIDE DEF season
  <2>2. PICK id, start, end :
          /\ season = SeasonRow(id, f, start, end)
          /\ start \in Int /\ end \in Int
          /\ \/ id = FirstFreeId(db) /\ \A r \in db.seasons : r.year # f.year
             \/ \E r \in db.seasons : r.year = f.year /\ r.id = id
    <3>1. CASE \A r \in db.seasons : r.year # f.year
      BY <1>3, <2>1, <3>1, SeasonOfBatch DEF season
    <3>2. CASE ~\A r \in db.seasons : r.year # f.year
      <4>1. PICK r \in db.seasons :
              /\ r.year = f.year
              /\ season = SeasonRow(r.id, f, Earlier(r.start, Lowest(BatchDates(f))),
                                    Later(r.end, Highest(BatchDates(f))))
              /\ Lowest(BatchDates(f)) \in Int /\ Highest(BatchDates(f)) \in Int
        BY <1>3, <2>1, <3>2, SeasonOfBatch DEF season
      <4>2. /\ Earlier(r.start, Lowest(BatchDates(f))) \in Int
            /\ Later(r.end, Highest(BatchDates(f))) \in Int
        BY <2>1, <4>1 DEF Earlier, Later
      <4> QED
        BY <4>1, <4>2
    <3> QED
      BY <3>1, <3>2
  <2> QED
    BY <2>2 DEF SeasonRow
<1> HIDE DEF season
<1>11. /\ season.id \in Nat /\ s.nextId \in Nat
       /\ season.id < s.nextId /\ FirstFreeId(db) <= s.nextId
  <2>1. season.id \in Nat
    BY <1>4, <1>10 DEF Ids, IdsOf
  <2>2. Highest({FirstFreeId(db), season.id + 1}) =
          IF FirstFreeId(db) >= season.id + 1 THEN FirstFreeId(db) ELSE season.id + 1
    <3>1. FirstFreeId(db) \in Int /\ season.id + 1 \in Int
      BY <1>4, <2>1
    <3> QED
      BY <3>1, BoundsOfTwo
  <2> QED
    BY <1>4, <1>6, <2>1, <2>2
<1>12. \A t \in Tables : \A r \in db[t] : r.id \in Nat /\ r.id < FirstFreeId(db)
  BY <1>4 DEF Ids, IdsOf
<1>13. IdsBelow(s)
  <2>1. ASSUME NEW t \in Tables, NEW r \in s[t] PROVE r.id \in Nat /\ r.id < s.nextId
    <3>1. CASE r \in db[t]
      BY <1>4, <1>11, <1>12, <3>1
    <3>2. CASE r \notin db[t]
      <4>1. r = season
        BY <1>7, <1>8, <2>1, <3>2
      <4> QED
        BY <1>11, <4>1
    <3> QED
      BY <3>1, <3>2
  <2> QED
    BY <1>11, <2>1 DEF IdsBelow
<1>14. \A t \in Tables : UniqueOn(s[t], LAMBDA r : r.id)
  <2>1. ASSUME NEW t \in Tables, NEW q \in s[t], NEW r \in s[t], q.id = r.id PROVE q = r
    <3>1. CASE t = "seasons"
      BY <1>8, <2>1, <3>1 DEF Sound, KeysHold, UniqueOn
    <3>2. CASE t # "seasons"
      BY <1>7, <2>1, <3>2 DEF Sound, KeysHold, UniqueOn
    <3> QED
      BY <3>1, <3>2
  <2> QED
    BY <2>1 DEF UniqueOn
<1>15. ColumnsHold(s)
  BY <1>8, <1>9, <1>10 DEF Sound, ColumnsHold
<1>16. SeasonsUnique(s)
  <2>1. \A q, r \in db.seasons : q.year = r.year => q = r
    BY DEF Sound, SchemaHolds, SeasonsUnique, UniqueOn
  <2>2. \A r \in s.seasons : r = season \/ (r \in db.seasons /\ r.year # season.year)
    BY <1>8, <1>10, <2>1
  <2> QED
    BY <2>1, <2>2 DEF SeasonsUnique, UniqueOn
<1>17. SchemaHolds(s)
  BY <1>9, <1>16 DEF Sound, SchemaHolds, TeamLinksUnique, MatchesUnique, MatchLinksUnique,
     SeasonTeamsUnique, StatsUnique, SidesDistinct
<1>18. IdsOf(db.seasons) \subseteq IdsOf(s.seasons) /\ season.id \in IdsOf(s.seasons)
  BY <1>8 DEF IdsOf
<1>19. ReferencesHold(s)
  BY <1>9, <1>18 DEF Sound, ReferencesHold
<1>20. DictionariesHold(s)
  <2>1. /\ DOMAIN byExt = {l.ext : l \in OfSource(db.teamLinks)}
        /\ \A e \in DOMAIN byExt :
             \E l \in OfSource(db.teamLinks) : l.ext = e /\ l.team = byExt[e]
    BY DEF LinkedTeams, DictOf
  <2>2. \A l \in OfSource(db.teamLinks) : byExt[l.ext] = l.team
    BY <2>1 DEF Sound, SchemaHolds, TeamLinksUnique, UniqueOn, OfSource
  <2>3. /\ DOMAIN byName = {Lowered[t.name] : t \in db.teams}
        /\ \A n \in DOMAIN byName : \E t \in db.teams : Lowered[t.name] = n /\ t.id = byName[n]
    BY DEF FoldedTeams, DictOf
  <2>4. /\ DOMAIN venues = {v.name : v \in db.venues}
        /\ \A n \in DOMAIN venues : \E v \in db.venues : v.name = n /\ v.id = venues[n]
    BY DEF NamedVenues, DictOf
  <2>5. /\ DOMAIN matches = {l.ext : l \in OfSource(db.matchLinks)}
        /\ \A e \in DOMAIN matches :
             \E l \in OfSource(db.matchLinks) : l.ext = e /\ l.match = matches[e]
    BY DEF LinkedMatches, DictOf
  <2>6. \A l \in OfSource(db.matchLinks) : matches[l.ext] = l.match
    BY <2>5 DEF Sound, SchemaHolds, MatchLinksUnique, UniqueOn, OfSource
  <2>7. /\ DOMAIN keys = {NaturalKey(m) : m \in db.matches}
        /\ \A k \in DOMAIN keys : \E m \in db.matches : NaturalKey(m) = k /\ m.id = keys[k]
    BY DEF KeyedMatches, DictOf
  <2>8. \A m \in db.matches : keys[NaturalKey(m)] = m.id
    BY <2>7 DEF Sound, SchemaHolds, MatchesUnique, UniqueOn
  <2>9. /\ DOMAIN s.teamByExt = {l.ext : l \in OfSource(s.teamLinks)}
        /\ \A l \in OfSource(s.teamLinks) : s.teamByExt[l.ext] = l.team
        /\ DOMAIN s.teamByName = {Lowered[t.name] : t \in s.teams}
        /\ \A n \in DOMAIN s.teamByName :
             \E t \in s.teams : Lowered[t.name] = n /\ t.id = s.teamByName[n]
    BY <1>6, <1>9, <2>1, <2>2, <2>3
  <2>10. /\ DOMAIN s.venueByName = {v.name : v \in s.venues}
         /\ \A n \in DOMAIN s.venueByName :
              \E v \in s.venues : v.name = n /\ v.id = s.venueByName[n]
    BY <1>6, <1>9, <2>4
  <2>11. /\ DOMAIN s.matchByExt = {l.ext : l \in OfSource(s.matchLinks)}
         /\ \A l \in OfSource(s.matchLinks) : s.matchByExt[l.ext] = l.match
         /\ DOMAIN s.matchByKey = {NaturalKey(m) : m \in s.matches}
         /\ \A m \in s.matches : s.matchByKey[NaturalKey(m)] = m.id
    BY <1>6, <1>9, <2>5, <2>6, <2>7, <2>8
  <2> QED
    BY <2>9, <2>10, <2>11 DEF DictionariesHold
<1>21. TurnSchema(s)
  BY <1>17 DEF SchemaHolds, TeamLinksUnique, MatchLinksUnique, TurnSchema
<1>22. Opened(s, f)
  BY <1>6, <1>7, <1>8 DEF Opened, season
<1>23. MapperSessionHolds(s)
  BY <1>5, <1>6, <1>13, <1>14, <1>15, <1>18, <1>19, <1>20, <1>21 DEF MapperSessionHolds
<1> QED
  BY <1>17, <1>22, <1>23 DEF s

-----------------------------------------------------------------------------
(* One turn: the teams and the venue *)

\* No two clubs and no two stadiums of one name, clubs in any case.
TeamsNamedOnce(s) == UniqueOn(s.teams, LAMBDA t : Lowered[t.name])
VenuesNamedOnce(s) == UniqueOn(s.venues, LAMBDA v : v.name)

LinkOf(s, api, team) ==
  [id |-> s.nextId + 1, team |-> team, source |-> FootballData, ext |-> api.id]

\* What _resolve_team does to the rows and the dictionaries, by cases.
Resolved(s, t, api, team) ==
  /\ DOMAIN t = DOMAIN s
  /\ t.nextId = s.nextId + 2
  /\ t.teams = IF Lowered[Cleaned[api.name]] \in DOMAIN s.teamByName
                 THEN s.teams ELSE s.teams \cup {[id |-> team, name |-> Cleaned[api.name]]}
  /\ t.teamLinks = s.teamLinks \cup {LinkOf(s, api, team)}
  /\ t.teamByName = Put(s.teamByName, Lowered[Cleaned[api.name]], team)
  /\ t.teamByExt = Put(s.teamByExt, api.id, team)
  /\ t.seasons = s.seasons /\ t.venues = s.venues /\ t.matches = s.matches
  /\ t.matchLinks = s.matchLinks /\ t.seasonTeams = s.seasonTeams /\ t.stats = s.stats
  /\ t.open = s.open /\ t.season = s.season /\ t.venueByName = s.venueByName
  /\ t.matchByExt = s.matchByExt /\ t.matchByKey = s.matchByKey

LEMMA ResolveTeamTouches ==
  ASSUME NEW s, DOMAIN s = MapperFields, NEW api, api.id \notin DOMAIN s.teamByExt
  PROVE  Resolved(s, ResolveTeam(s, api), api,
                  IF Lowered[Cleaned[api.name]] \in DOMAIN s.teamByName
                    THEN s.teamByName[Lowered[Cleaned[api.name]]] ELSE s.nextId)
BY TableNames DEF ResolveTeam, Resolved, LinkOf, MapperFields

\* What a team's lookup leaves behind.
TeamResolved(s, t, api) ==
  /\ MapperSessionHolds(t) /\ api.id \in DOMAIN t.teamByExt
  /\ s.teams \subseteq t.teams /\ s.teamLinks \subseteq t.teamLinks
  /\ \A e \in DOMAIN s.teamByExt : e \in DOMAIN t.teamByExt
  /\ t.seasons = s.seasons /\ t.venues = s.venues /\ t.matches = s.matches
  /\ t.matchLinks = s.matchLinks /\ t.seasonTeams = s.seasonTeams /\ t.stats = s.stats
  /\ t.season = s.season /\ t.matchByExt = s.matchByExt /\ t.venueByName = s.venueByName
  /\ TeamsNamedOnce(s) => TeamsNamedOnce(t)
  /\ api.id \in DOMAIN s.teamByExt => t = s

LEMMA ResolveTeamHolds ==
  ASSUME NEW s, MapperSessionHolds(s), NEW api
  PROVE  TeamResolved(s, ResolveTeam(s, api), api)
<1> DEFINE t == ResolveTeam(s, api)
           key == Lowered[Cleaned[api.name]]
           team == IF key \in DOMAIN s.teamByName THEN s.teamByName[key] ELSE s.nextId
           link == LinkOf(s, api, team)
           new == [id |-> team, name |-> Cleaned[api.name]]
<1>1. CASE api.id \in DOMAIN s.teamByExt
  <2>1. t = s
    BY <1>1 DEF ResolveTeam
  <2> QED
    BY <1>1, <2>1 DEF TeamResolved
<1>2. CASE api.id \notin DOMAIN s.teamByExt
  <2> USE TableNames DEF MapperSessionHolds
  <2>1. Resolved(s, t, api, team)
    BY <1>2, ResolveTeamTouches
  <2>2. /\ link.id = s.nextId + 1 /\ link.team = team /\ link.source = FootballData
        /\ link.ext = api.id
    BY DEF LinkOf
  <2>3. new.id = team /\ Lowered[new.name] = key
    OBVIOUS
  <2>4. s.nextId \in Nat
    BY DEF IdsBelow
  <2>5. team = IF key \in DOMAIN s.teamByName THEN s.teamByName[key] ELSE s.nextId
    OBVIOUS
  <2> HIDE DEF t, link, team
  <2>6. /\ t.nextId = s.nextId + 2
        /\ t.teams = IF key \in DOMAIN s.teamByName THEN s.teams ELSE s.teams \cup {new}
        /\ t.teamLinks = s.teamLinks \cup {link}
        /\ t.seasons = s.seasons /\ t.venues = s.venues /\ t.matches = s.matches
        /\ t.matchLinks = s.matchLinks /\ t.seasonTeams = s.seasonTeams /\ t.stats = s.stats
        /\ t.open = s.open /\ t.season = s.season /\ t.venueByName = s.venueByName
        /\ t.matchByExt = s.matchByExt /\ t.matchByKey = s.matchByKey
    BY <2>1 DEF Resolved, link
  <2>7. /\ DOMAIN t.teamByName = DOMAIN s.teamByName \cup {key}
        /\ t.teamByName[key] = team
        /\ \A n \in DOMAIN s.teamByName : n # key => t.teamByName[n] = s.teamByName[n]
    BY <2>1 DEF Resolved, Put
  <2>8. /\ DOMAIN t.teamByExt = DOMAIN s.teamByExt \cup {api.id}
        /\ t.teamByExt[api.id] = team
        /\ \A e \in DOMAIN s.teamByExt : e # api.id => t.teamByExt[e] = s.teamByExt[e]
    BY <2>1 DEF Resolved, Put
  <2>9. DOMAIN t = MapperFields
    BY <2>1 DEF Resolved
  <2> HIDE DEF key, new
  <2>10. RowsAdded(s, t)
    <3>1. t.nextId \in Nat /\ s.nextId <= t.nextId
      BY <2>4, <2>6
    <3>2. \A r \in t.teams \ s.teams : r.id = s.nextId /\ r = new
      BY <2>3, <2>5, <2>6
    <3>3. \A r \in t.teamLinks \ s.teamLinks : r.id = s.nextId + 1 /\ r = link
      BY <2>2, <2>6
    <3>4. s.teams \subseteq t.teams /\ s.teamLinks \subseteq t.teamLinks
      BY <2>6
    <3>5. s.nextId < t.nextId /\ s.nextId + 1 \in Nat /\ s.nextId <= s.nextId + 1
          /\ s.nextId + 1 < t.nextId
      BY <2>4, <2>6
    <3>6. ASSUME NEW u \in Tables
          PROVE  /\ s[u] \subseteq t[u]
                 /\ \A r \in t[u] \ s[u] : r.id \in Nat /\ s.nextId <= r.id /\ r.id < t.nextId
                 /\ \A q, r \in t[u] \ s[u] : q.id = r.id => q = r
      <4>1. CASE u = "teams"
        BY <2>4, <3>2, <3>4, <3>5, <4>1
      <4>2. CASE u = "teamLinks"
        BY <2>4, <3>3, <3>4, <3>5, <4>2
      <4>3. CASE u \notin {"teams", "teamLinks"}
        <5>1. t[u] = s[u]
          BY <2>6, <4>3
        <5> QED
          BY <5>1
      <4> QED
        BY <4>1, <4>2, <4>3
    <3> QED
      BY <3>1, <3>6 DEF RowsAdded
  <2>11. IdsBelow(t) /\ \A u \in Tables : UniqueOn(t[u], LAMBDA r : r.id)
    BY <2>10, RowsAddedKeepIds
  <2>12. ColumnsHold(t)
    BY <2>6 DEF ColumnsHold
  <2>13. OfSource(t.teamLinks) = OfSource(s.teamLinks) \cup {link}
    BY <2>2, <2>6 DEF OfSource
  <2>14. TurnSchema(t)
    <3>1. \A l \in s.teamLinks : l.source = FootballData => l.ext # api.id
      BY <1>2 DEF DictionariesHold, OfSource
    <3>2. UniqueOn(t.teamLinks, LAMBDA l : <<l.source, l.ext>>)
      BY <2>2, <2>6, <3>1 DEF TurnSchema, UniqueOn
    <3> QED
      BY <2>6, <3>2 DEF TurnSchema, SeasonsUnique, MatchesUnique, SeasonTeamsUnique, StatsUnique
  <2>15. team \in IdsOf(t.teams)
    <3>1. CASE key \in DOMAIN s.teamByName
      BY <2>5, <2>6, <3>1 DEF DictionariesHold, IdsOf
    <3>2. CASE key \notin DOMAIN s.teamByName
      BY <2>3, <2>6, <3>2 DEF IdsOf
    <3> QED
      BY <3>1, <3>2
  <2>16. ReferencesHold(t)
    <3>1. IdsOf(s.teams) \subseteq IdsOf(t.teams)
      BY <2>6 DEF IdsOf
    <3> QED
      BY <2>2, <2>6, <2>15, <3>1 DEF ReferencesHold
  <2>17. DictionariesHold(t)
    <3>1. DOMAIN t.teamByExt = {l.ext : l \in OfSource(t.teamLinks)}
      BY <2>2, <2>8, <2>13 DEF DictionariesHold
    <3>2. \A l \in OfSource(t.teamLinks) : t.teamByExt[l.ext] = l.team
      BY <1>2, <2>2, <2>8, <2>13 DEF DictionariesHold
    <3>3. DOMAIN t.teamByName = {Lowered[u.name] : u \in t.teams}
      BY <2>3, <2>6, <2>7 DEF DictionariesHold
    <3>4. \A n \in DOMAIN t.teamByName :
            \E u \in t.teams : Lowered[u.name] = n /\ u.id = t.teamByName[n]
      BY <2>3, <2>5, <2>6, <2>7 DEF DictionariesHold
    <3>5. /\ DOMAIN t.venueByName = {v.name : v \in t.venues}
          /\ \A n \in DOMAIN t.venueByName :
               \E v \in t.venues : v.name = n /\ v.id = t.venueByName[n]
          /\ DOMAIN t.matchByExt = {l.ext : l \in OfSource(t.matchLinks)}
          /\ \A l \in OfSource(t.matchLinks) : t.matchByExt[l.ext] = l.match
          /\ DOMAIN t.matchByKey = {NaturalKey(m) : m \in t.matches}
          /\ \A m \in t.matches : t.matchByKey[NaturalKey(m)] = m.id
      BY <2>6 DEF DictionariesHold
    <3> HIDE DEF MapperSessionHolds
    <3> QED
      BY <3>1, <3>2, <3>3, <3>4, <3>5 DEF DictionariesHold
  <2>18. TeamsNamedOnce(s) => TeamsNamedOnce(t)
    <3>1. key \notin DOMAIN s.teamByName => \A u \in s.teams : Lowered[u.name] # key
      BY DEF DictionariesHold
    <3> QED
      BY <2>3, <2>6, <3>1 DEF TeamsNamedOnce, UniqueOn
  <2>19. MapperSessionHolds(t)
    BY <2>6, <2>9, <2>11, <2>12, <2>14, <2>16, <2>17
  <2>20. TeamResolved(s, t, api)
    BY <1>2, <2>6, <2>8, <2>18, <2>19 DEF TeamResolved
  <2> QED
    BY <2>20 DEF t
<1> QED
  BY <1>1, <1>2

\* A venue is given and on record, or not given.
VenueKnown(s, raw) == Venueless(raw) \/ Cleaned[raw] \in DOMAIN s.venueByName

VenueResolved(s, t, raw) ==
  /\ MapperSessionHolds(t) /\ VenueKnown(t, raw)
  /\ s.venues \subseteq t.venues
  /\ t.seasons = s.seasons /\ t.teams = s.teams /\ t.teamLinks = s.teamLinks
  /\ t.matches = s.matches /\ t.matchLinks = s.matchLinks
  /\ t.seasonTeams = s.seasonTeams /\ t.stats = s.stats
  /\ t.season = s.season /\ t.matchByExt = s.matchByExt /\ t.teamByExt = s.teamByExt
  /\ VenuesNamedOnce(s) => VenuesNamedOnce(t)
  /\ VenueKnown(s, raw) => t = s

LEMMA ResolveVenueHolds ==
  ASSUME NEW s, MapperSessionHolds(s), NEW raw
  PROVE  VenueResolved(s, ResolveVenue(s, raw), raw)
<1> DEFINE t == ResolveVenue(s, raw)
           name == Cleaned[raw]
           new == [id |-> s.nextId, name |-> name]
<1>1. CASE VenueKnown(s, raw)
  <2>1. t = s
    BY <1>1 DEF ResolveVenue, VenueKnown
  <2> QED
    BY <1>1, <2>1 DEF VenueResolved
<1>2. CASE ~VenueKnown(s, raw)
  <2> USE TableNames DEF MapperSessionHolds
  <2>1. /\ DOMAIN t = MapperFields
        /\ t.venues = s.venues \cup {new}
        /\ t.nextId = s.nextId + 1
        /\ t.venueByName = Put(s.venueByName, name, s.nextId)
        /\ \A g \in MapperFields \ {"venues", "nextId", "venueByName"} : t[g] = s[g]
    BY <1>2 DEF ResolveVenue, VenueKnown, MapperFields
  <2>2. new.id = s.nextId /\ new.name = name
    OBVIOUS
  <2> HIDE DEF t, new
  <2>3. /\ t.seasons = s.seasons /\ t.teams = s.teams /\ t.teamLinks = s.teamLinks
        /\ t.matches = s.matches /\ t.matchLinks = s.matchLinks
        /\ t.seasonTeams = s.seasonTeams /\ t.stats = s.stats
        /\ t.open = s.open /\ t.season = s.season /\ t.teamByExt = s.teamByExt
        /\ t.teamByName = s.teamByName
        /\ t.matchByExt = s.matchByExt /\ t.matchByKey = s.matchByKey
    BY <2>1 DEF MapperFields
  <2>4. RowAdded(s, t, "venues", new)
    BY <2>1, <2>2, <2>3 DEF RowAdded
  <2>5. IdsBelow(t) /\ \A u \in Tables : UniqueOn(t[u], LAMBDA r : r.id)
    BY <2>4, RowAddedKeepsIds
  <2>6. /\ DOMAIN t.venueByName = DOMAIN s.venueByName \cup {name}
        /\ t.venueByName[name] = s.nextId
        /\ \A n \in DOMAIN s.venueByName : n # name => t.venueByName[n] = s.venueByName[n]
    BY <2>1 DEF Put
  <2>7. name \notin DOMAIN s.venueByName
    BY <1>2 DEF VenueKnown
  <2> HIDE DEF name
  <2>8. ColumnsHold(t) /\ TurnSchema(t)
    BY <2>3 DEF ColumnsHold, TurnSchema, SeasonsUnique, MatchesUnique, SeasonTeamsUnique,
       StatsUnique
  <2>9. ReferencesHold(t)
    <3>1. IdsOf(s.venues) \subseteq IdsOf(t.venues)
      BY <2>1 DEF IdsOf
    <3> QED
      BY <2>3, <3>1 DEF ReferencesHold
  <2>10. DictionariesHold(t)
    <3>1. DOMAIN t.venueByName = {v.name : v \in t.venues}
      BY <2>1, <2>2, <2>6 DEF DictionariesHold
    <3>2. \A n \in DOMAIN t.venueByName : \E v \in t.venues : v.name = n /\ v.id = t.venueByName[n]
      BY <2>1, <2>2, <2>6 DEF DictionariesHold
    <3> QED
      BY <2>3, <3>1, <3>2 DEF DictionariesHold
  <2>11. VenuesNamedOnce(s) => VenuesNamedOnce(t)
    <3>1. \A v \in s.venues : v.name # name
      BY <2>7 DEF DictionariesHold
    <3> QED
      BY <2>1, <2>2, <2>3, <3>1 DEF VenuesNamedOnce, UniqueOn
  <2>12. VenueKnown(t, raw)
    BY <2>6 DEF VenueKnown, name
  <2>13. MapperSessionHolds(t)
    BY <2>1, <2>3, <2>5, <2>8, <2>9, <2>10
  <2>14. VenueResolved(s, t, raw)
    BY <1>2, <2>1, <2>3, <2>11, <2>12, <2>13 DEF VenueResolved
  <2> QED
    BY <2>14 DEF t
<1> QED
  BY <1>1, <1>2

-----------------------------------------------------------------------------
(* One turn: the match *)

RowKey(s, raw) ==
  <<s.season, raw.matchday, s.teamByExt[raw.home.id], s.teamByExt[raw.away.id]>>
IsLinked(s, raw) == raw.id \in DOMAIN s.matchByExt
IsFound(s, raw) == IsLinked(s, raw) \/ RowKey(s, raw) \in DOMAIN s.matchByKey
MatchId(s, raw) ==
  IF IsLinked(s, raw) THEN s.matchByExt[raw.id]
  ELSE IF IsFound(s, raw) THEN s.matchByKey[RowKey(s, raw)] ELSE s.nextId

NewMatch(s, raw) ==
  [id |-> MatchId(s, raw), season |-> s.season, matchday |-> raw.matchday,
   home |-> s.teamByExt[raw.home.id], away |-> s.teamByExt[raw.away.id], at |-> raw.at,
   venue |-> VenueId(s, raw.venue), status |-> MapStatus(raw.status), score |-> raw.score]
NewLink(s, raw) ==
  [id |-> s.nextId + 1, match |-> MatchId(s, raw), source |-> FootballData, ext |-> raw.id]
Now(m, s, raw) == IF m.id = MatchId(s, raw) THEN Overwritten(m, s, raw) ELSE m
AllNow(s, raw) == {Now(m, s, raw) : m \in s.matches}

\* What the tail of the loop body does to the rows and the dictionaries.
Upserted(s, t, raw) ==
  /\ DOMAIN t = DOMAIN s
  /\ t.nextId = s.nextId + 2
  /\ t.matches = IF IsFound(s, raw) THEN AllNow(s, raw) ELSE s.matches \cup {NewMatch(s, raw)}
  /\ t.matchLinks = IF IsLinked(s, raw) THEN s.matchLinks
                    ELSE s.matchLinks \cup {NewLink(s, raw)}
  /\ t.matchByKey = IF IsFound(s, raw) THEN s.matchByKey
                    ELSE Put(s.matchByKey, RowKey(s, raw), MatchId(s, raw))
  /\ t.matchByExt = Put(s.matchByExt, raw.id, MatchId(s, raw))
  /\ t.seasons = s.seasons /\ t.venues = s.venues /\ t.teams = s.teams
  /\ t.teamLinks = s.teamLinks /\ t.seasonTeams = s.seasonTeams /\ t.stats = s.stats
  /\ t.open = s.open /\ t.season = s.season /\ t.teamByExt = s.teamByExt
  /\ t.teamByName = s.teamByName /\ t.venueByName = s.venueByName

LEMMA UpsertMatchTouches ==
  ASSUME NEW s, DOMAIN s = MapperFields, NEW raw
  PROVE  Upserted(s, UpsertMatch(s, raw), raw)
<1> DEFINE t == UpsertMatch(s, raw)
           matches == IF IsFound(s, raw) THEN AllNow(s, raw)
                      ELSE s.matches \cup {NewMatch(s, raw)}
           links == IF IsLinked(s, raw) THEN s.matchLinks
                    ELSE s.matchLinks \cup {NewLink(s, raw)}
           keys == IF IsFound(s, raw) THEN s.matchByKey
                   ELSE Put(s.matchByKey, RowKey(s, raw), MatchId(s, raw))
           exts == Put(s.matchByExt, raw.id, MatchId(s, raw))
<1>1. t = [s EXCEPT !.matches = matches, !.nextId = s.nextId + 2, !.matchByKey = keys,
                    !.matchLinks = links, !.matchByExt = exts]
  BY DEF UpsertMatch, IsFound, IsLinked, RowKey, MatchId, NewMatch, NewLink, Now, AllNow
<1> HIDE DEF t, matches, links, keys, exts
<1>2. /\ DOMAIN t = DOMAIN s
      /\ t.nextId = s.nextId + 2
      /\ t.matches = matches /\ t.matchLinks = links /\ t.matchByKey = keys
      /\ t.matchByExt = exts
      /\ t.seasons = s.seasons /\ t.venues = s.venues /\ t.teams = s.teams
      /\ t.teamLinks = s.teamLinks /\ t.seasonTeams = s.seasonTeams /\ t.stats = s.stats
      /\ t.open = s.open /\ t.season = s.season /\ t.teamByExt = s.teamByExt
      /\ t.teamByName = s.teamByName /\ t.venueByName = s.venueByName
  BY <1>1, TableNames DEF MapperFields
<1>3. Upserted(s, t, raw)
  BY <1>2 DEF Upserted, matches, links, keys, exts
<1> QED
  BY <1>3 DEF t

\* The id of a venue row with the name given, or none.
VenueIs(s, id, raw) ==
  IF Venueless(raw) THEN id = None
  ELSE \E v \in s.venues : v.name = Cleaned[raw] /\ v.id = id

\* A match says what a raw match says of it.
SaysOf(s, m, raw) ==
  /\ m.at = raw.at /\ m.status = MapStatus(raw.status) /\ m.score = raw.score
  /\ VenueIs(s, m.venue, raw.venue)

MatchUpserted(s, t, raw) ==
  /\ MapperSessionHolds(t) /\ IsLinked(t, raw)
  /\ t.seasons = s.seasons /\ t.venues = s.venues /\ t.teams = s.teams
  /\ t.teamLinks = s.teamLinks /\ t.seasonTeams = s.seasonTeams /\ t.stats = s.stats
  /\ t.season = s.season /\ t.teamByExt = s.teamByExt /\ t.venueByName = s.venueByName
  /\ s.matchLinks \subseteq t.matchLinks
  /\ \A l \in t.matchLinks \ s.matchLinks : l.source = FootballData /\ l.ext = raw.id
  /\ IsLinked(s, raw) => t.matchLinks = s.matchLinks /\ IdsOf(t.matches) = IdsOf(s.matches)
  /\ \A m \in s.matches : \E n \in t.matches : n.id = m.id /\ NaturalKey(n) = NaturalKey(m)
  /\ \A n \in t.matches : (\E m \in s.matches : m.id = n.id) =>
       \E m \in s.matches : m.id = n.id /\ NaturalKey(n) = NaturalKey(m)
  /\ \E n \in t.matches :
       /\ n.id = t.matchByExt[raw.id] /\ SaysOf(t, n, raw)
       /\ ~IsLinked(s, raw) => NaturalKey(n) = RowKey(s, raw)
       /\ \A m \in t.matches : m # n => m \in s.matches

LEMMA VenueIdIs ==
  ASSUME NEW s, MapperSessionHolds(s), NEW raw, VenueKnown(s, raw)
  PROVE  /\ VenueIs(s, VenueId(s, raw), raw)
         /\ VenueId(s, raw) \in IdsOf(s.venues) \cup {None}
<1>1. CASE Venueless(raw)
  BY <1>1 DEF VenueIs, VenueId
<1>2. CASE ~Venueless(raw)
  <2>1. Cleaned[raw] \in DOMAIN s.venueByName
    BY <1>2 DEF VenueKnown
  <2>2. PICK v \in s.venues : v.name = Cleaned[raw] /\ v.id = s.venueByName[Cleaned[raw]]
    BY <2>1 DEF MapperSessionHolds, DictionariesHold
  <2> QED
    BY <1>2, <2>2 DEF VenueIs, VenueId, IdsOf
<1> QED
  BY <1>1, <1>2

LEMMA UpsertMatchHolds ==
  ASSUME NEW s, MapperSessionHolds(s), NEW raw, VenueKnown(s, raw.venue),
         raw.home.id \in DOMAIN s.teamByExt, raw.away.id \in DOMAIN s.teamByExt
  PROVE  MatchUpserted(s, UpsertMatch(s, raw), raw)
<1> DEFINE t == UpsertMatch(s, raw)
           id == MatchId(s, raw)
           new == NewMatch(s, raw)
           link == NewLink(s, raw)
           venue == VenueId(s, raw.venue)
           After(m) == Now(m, s, raw)
           key == RowKey(s, raw)
<1> USE TableNames DEF MapperSessionHolds
<1>1. Upserted(s, t, raw)
  BY UpsertMatchTouches
<1>2. VenueIs(s, venue, raw.venue) /\ venue \in IdsOf(s.venues) \cup {None}
  BY VenueIdIs
<1>3. /\ new = [id |-> new.id, season |-> new.season, matchday |-> new.matchday,
                home |-> new.home, away |-> new.away, at |-> new.at, venue |-> new.venue,
                status |-> new.status, score |-> new.score]
      /\ new.id = id /\ NaturalKey(new) = key
      /\ new.at = raw.at /\ new.venue = venue /\ new.status = MapStatus(raw.status)
      /\ new.score = raw.score
      /\ new.season = s.season /\ new.home = s.teamByExt[raw.home.id]
      /\ new.away = s.teamByExt[raw.away.id]
  BY DEF NewMatch, NaturalKey, RowKey
<1>4. link.id = s.nextId + 1 /\ link.match = id /\ link.source = FootballData /\ link.ext = raw.id
  BY DEF NewLink
<1>5. ASSUME NEW m \in s.matches
      PROVE  /\ After(m).id = m.id /\ NaturalKey(After(m)) = NaturalKey(m)
             /\ After(m).season = m.season /\ After(m).home = m.home /\ After(m).away = m.away
             /\ After(m) = [id |-> After(m).id, season |-> After(m).season,
                            matchday |-> After(m).matchday, home |-> After(m).home,
                            away |-> After(m).away, at |-> After(m).at,
                            venue |-> After(m).venue, status |-> After(m).status,
                            score |-> After(m).score]
             /\ m.id # id => After(m) = m
             /\ m.id = id => /\ After(m).at = raw.at /\ After(m).venue = venue
                             /\ After(m).status = MapStatus(raw.status)
                             /\ After(m).score = raw.score
  <2>1. CASE m.id = id
    BY <2>1 DEF Now, Overwritten, NaturalKey
  <2>2. CASE m.id # id
    BY <2>2 DEF Now, ColumnsHold
  <2> QED
    BY <2>1, <2>2
<1>6. s.nextId \in Nat
  BY DEF IdsBelow
<1>7. /\ IsLinked(s, raw) => id \in IdsOf(s.matches) /\ id = s.matchByExt[raw.id]
      /\ ~IsLinked(s, raw) /\ IsFound(s, raw) =>
           \E m \in s.matches : m.id = id /\ NaturalKey(m) = key
      /\ ~IsFound(s, raw) => id = s.nextId /\ \A m \in s.matches : NaturalKey(m) # key
      /\ IsLinked(s, raw) => IsFound(s, raw)
  <2>1. ASSUME IsLinked(s, raw) PROVE id \in IdsOf(s.matches) /\ id = s.matchByExt[raw.id]
    <3>1. id = s.matchByExt[raw.id] /\ raw.id \in DOMAIN s.matchByExt
      BY <2>1 DEF MatchId, IsLinked
    <3>2. PICK l \in OfSource(s.matchLinks) : l.ext = raw.id
      BY <3>1 DEF DictionariesHold
    <3>3. l.match = id
      BY <3>1, <3>2 DEF DictionariesHold
    <3> QED
      BY <3>1, <3>2, <3>3 DEF OfSource, ReferencesHold
  <2>2. ASSUME ~IsLinked(s, raw), IsFound(s, raw)
        PROVE  \E m \in s.matches : m.id = id /\ NaturalKey(m) = key
    <3>1. id = s.matchByKey[key] /\ key \in DOMAIN s.matchByKey
      BY <2>2 DEF MatchId, IsFound
    <3> HIDE DEF id, key
    <3> QED
      BY <3>1 DEF DictionariesHold
  <2>3. ASSUME ~IsFound(s, raw)
        PROVE  id = s.nextId /\ \A m \in s.matches : NaturalKey(m) # key
    <3>1. id = s.nextId /\ key \notin DOMAIN s.matchByKey
      BY <2>3 DEF MatchId, IsFound
    <3> HIDE DEF id, key
    <3> QED
      BY <3>1 DEF DictionariesHold
  <2> QED
    BY <2>1, <2>2, <2>3 DEF IsFound
<1>8. /\ t.nextId = s.nextId + 2
      /\ IsFound(s, raw) => t.matches = {After(m) : m \in s.matches}
      /\ ~IsFound(s, raw) => t.matches = s.matches \cup {new}
      /\ IsLinked(s, raw) => t.matchLinks = s.matchLinks
      /\ ~IsLinked(s, raw) => t.matchLinks = s.matchLinks \cup {link}
      /\ IsFound(s, raw) => t.matchByKey = s.matchByKey
      /\ t.seasons = s.seasons /\ t.venues = s.venues /\ t.teams = s.teams
      /\ t.teamLinks = s.teamLinks /\ t.seasonTeams = s.seasonTeams /\ t.stats = s.stats
      /\ t.open = s.open /\ t.season = s.season /\ t.teamByExt = s.teamByExt
      /\ t.teamByName = s.teamByName /\ t.venueByName = s.venueByName
  BY <1>1 DEF Upserted, AllNow
<1>9. /\ DOMAIN t.matchByExt = DOMAIN s.matchByExt \cup {raw.id}
      /\ t.matchByExt[raw.id] = id
      /\ \A e \in DOMAIN s.matchByExt : e # raw.id => t.matchByExt[e] = s.matchByExt[e]
  BY <1>1 DEF Upserted, Put
<1>10. ~IsFound(s, raw) =>
         /\ DOMAIN t.matchByKey = DOMAIN s.matchByKey \cup {key}
         /\ t.matchByKey[key] = id
         /\ \A k \in DOMAIN s.matchByKey : k # key => t.matchByKey[k] = s.matchByKey[k]
  BY <1>1 DEF Upserted, Put
<1>11. DOMAIN t = MapperFields
  BY <1>1 DEF Upserted
<1>12. s.teamByExt[raw.home.id] \in IdsOf(s.teams) /\ s.teamByExt[raw.away.id] \in IdsOf(s.teams)
  <2>1. ASSUME NEW e \in DOMAIN s.teamByExt PROVE s.teamByExt[e] \in IdsOf(s.teams)
    <3>1. PICK l \in OfSource(s.teamLinks) : l.ext = e
      BY DEF DictionariesHold
    <3>2. l.team = s.teamByExt[e]
      BY <3>1 DEF DictionariesHold
    <3> QED
      BY <3>2 DEF OfSource, ReferencesHold
  <2> QED
    BY <2>1
<1> HIDE DEF t, id, new, link, venue, After, key
\* The rows of the matches, one by one.
<1>13. /\ \A n \in t.matches :
            \/ n = new /\ ~IsFound(s, raw)
            \/ \E m \in s.matches : n = After(m) /\ (~IsFound(s, raw) => n = m)
       /\ \A m \in s.matches :
            \E n \in t.matches : n = IF IsFound(s, raw) THEN After(m) ELSE m
  <2>1. CASE IsFound(s, raw)
    <3>1. t.matches = {After(m) : m \in s.matches}
      BY <1>8, <2>1
    <3> QED
      BY <2>1, <3>1
  <2>2. CASE ~IsFound(s, raw)
    <3>1. t.matches = s.matches \cup {new}
      BY <1>8, <2>2
    <3>2. ASSUME NEW m \in s.matches PROVE m = After(m)
      <4>1. \A x \in s.matches : x.id < s.nextId /\ x.id \in Nat
        BY DEF IdsBelow
      <4>2. m.id # id
        BY <1>6, <1>7, <2>2, <4>1
      <4> QED
        BY <1>5, <4>2
    <3> QED
      BY <2>2, <3>1, <3>2
  <2> QED
    BY <2>1, <2>2
<1>14. /\ \A m \in s.matches : \E n \in t.matches : n.id = m.id /\ NaturalKey(n) = NaturalKey(m)
       /\ \A n \in t.matches : (\E m \in s.matches : m.id = n.id) =>
            \E m \in s.matches : m.id = n.id /\ NaturalKey(n) = NaturalKey(m)
       /\ IsFound(s, raw) => IdsOf(t.matches) = IdsOf(s.matches)
       /\ ~IsFound(s, raw) => IdsOf(t.matches) = IdsOf(s.matches) \cup {id}
  <2>1. CASE IsFound(s, raw)
    <3>1. t.matches = {After(m) : m \in s.matches}
      BY <1>8, <2>1
    <3> QED
      BY <1>5, <2>1, <3>1 DEF IdsOf
  <2>2. CASE ~IsFound(s, raw)
    <3>1. t.matches = s.matches \cup {new}
      BY <1>8, <2>2
    <3>2. \A m \in s.matches : m.id # new.id
      BY <1>3, <1>6, <1>7, <2>2 DEF IdsBelow
    <3> QED
      BY <1>3, <2>2, <3>1, <3>2 DEF IdsOf
  <2> QED
    BY <2>1, <2>2
<1>15. IdsBelow(t) /\ \A u \in Tables : UniqueOn(t[u], LAMBDA r : r.id)
  <2>1. \A u \in Tables : \A r \in s[u] : r.id \in Nat /\ r.id < s.nextId
    BY DEF IdsBelow
  <2>2. \A u \in Tables \ {"matches", "matchLinks"} : t[u] = s[u]
    BY <1>8
  <2>3. \A n \in t.matches : n.id \in Nat /\ n.id <= s.nextId
    <3>1. ASSUME NEW n \in t.matches PROVE n.id \in Nat /\ n.id <= s.nextId
      <4>1. CASE n = new /\ ~IsFound(s, raw)
        BY <1>3, <1>6, <1>7, <4>1
      <4>2. CASE \E m \in s.matches : n = After(m)
        <5>1. PICK m \in s.matches : n = After(m)
          BY <4>2
        <5>2. m.id \in Nat /\ m.id < s.nextId
          BY <2>1
        <5>3. n.id = m.id
          BY <1>5, <5>1
        <5> QED
          BY <1>6, <5>2, <5>3
      <4> QED
        BY <1>13, <4>1, <4>2
    <3> QED
      BY <3>1
  <2>4. \A l \in t.matchLinks : l = link \/ l \in s.matchLinks
    BY <1>8
  <2>5. ASSUME NEW u \in Tables, NEW r \in t[u] PROVE r.id \in Nat /\ r.id < t.nextId
    <3>1. CASE u = "matches"
      <4>1. r.id \in Nat /\ r.id <= s.nextId
        BY <2>3, <2>5, <3>1
      <4> QED
        BY <1>6, <1>8, <4>1
    <3>2. CASE u = "matchLinks"
      BY <1>4, <1>6, <1>8, <2>1, <2>4, <2>5, <3>2
    <3>3. CASE u \notin {"matches", "matchLinks"}
      BY <1>6, <1>8, <2>1, <2>2, <2>5, <3>3
    <3> QED
      BY <3>1, <3>2, <3>3
  <2>6. IdsBelow(t)
    BY <1>6, <1>8, <2>5 DEF IdsBelow
  <2>7. ASSUME NEW q \in t.matches, NEW r \in t.matches, q.id = r.id PROVE q = r
    <3>1. \A x, y \in s.matches : x.id = y.id => x = y
      BY DEF UniqueOn
    <3>2. CASE IsFound(s, raw)
      <4>1. PICK x \in s.matches, y \in s.matches : q = After(x) /\ r = After(y)
        BY <1>13, <3>2
      <4>2. x = y
        BY <1>5, <2>7, <3>1, <4>1
      <4> QED
        BY <4>1, <4>2
    <3>3. CASE ~IsFound(s, raw)
      <4>1. \A x \in s.matches : x.id < s.nextId /\ x.id \in Nat
        BY <2>1
      <4>2. \A x \in s.matches : x.id # new.id
        BY <1>3, <1>6, <1>7, <3>3, <4>1
      <4> QED
        BY <1>8, <2>7, <3>1, <3>3, <4>2
    <3> QED
      BY <3>2, <3>3
  <2>8. ASSUME NEW q \in t.matchLinks, NEW r \in t.matchLinks, q.id = r.id PROVE q = r
    <3>1. \A x, y \in s.matchLinks : x.id = y.id => x = y
      BY DEF UniqueOn
    <3>2. \A x \in s.matchLinks : x.id # link.id
      BY <1>4, <1>6, <2>1
    <3> QED
      BY <2>4, <2>8, <3>1, <3>2
  <2>9. ASSUME NEW u \in Tables, u \notin {"matches", "matchLinks"}
        PROVE  \A q, r \in t[u] : q.id = r.id => q = r
    BY <2>2, <2>9 DEF UniqueOn
  <2>10. \A u \in Tables : \A q, r \in t[u] : q.id = r.id => q = r
    BY <2>7, <2>8, <2>9
  <2> QED
    BY <2>6, <2>10 DEF UniqueOn
<1>16. ColumnsHold(t)
  <2>1. ASSUME NEW n \in t.matches
        PROVE  n = [id |-> n.id, season |-> n.season, matchday |-> n.matchday,
                    home |-> n.home, away |-> n.away, at |-> n.at, venue |-> n.venue,
                    status |-> n.status, score |-> n.score]
    BY <1>3, <1>5, <1>13
  <2> QED
    BY <1>8, <2>1 DEF ColumnsHold
<1>17. /\ IsLinked(s, raw) => OfSource(t.matchLinks) = OfSource(s.matchLinks)
       /\ ~IsLinked(s, raw) => OfSource(t.matchLinks) = OfSource(s.matchLinks) \cup {link}
  BY <1>4, <1>8 DEF OfSource
<1>18. TurnSchema(t)
  <2>1. ASSUME NEW q \in t.matches, NEW r \in t.matches, NaturalKey(q) = NaturalKey(r)
        PROVE  q = r
    <3>1. \A x, y \in s.matches : NaturalKey(x) = NaturalKey(y) => x = y
      BY DEF TurnSchema, MatchesUnique, UniqueOn
    <3>2. CASE IsFound(s, raw)
      <4>1. PICK x \in s.matches, y \in s.matches : q = After(x) /\ r = After(y)
        BY <1>13, <3>2
      <4> QED
        BY <1>5, <2>1, <3>1, <4>1
    <3>3. CASE ~IsFound(s, raw)
      BY <1>3, <1>7, <1>8, <2>1, <3>1, <3>3
    <3> QED
      BY <3>2, <3>3
  <2>2. MatchesUnique(t)
    BY <2>1 DEF MatchesUnique, UniqueOn
  <2>3. ~IsLinked(s, raw) => \A l \in s.matchLinks : l.source = FootballData => l.ext # raw.id
    BY DEF DictionariesHold, OfSource, IsLinked
  <2>4. \A x, y \in s.matchLinks : <<x.source, x.ext>> = <<y.source, y.ext>> => x = y
    BY DEF TurnSchema, UniqueOn
  <2>5. UniqueOn(t.matchLinks, LAMBDA l : <<l.source, l.ext>>)
    BY <1>4, <1>8, <2>3, <2>4 DEF UniqueOn
  <2> QED
    BY <1>8, <2>2, <2>5 DEF TurnSchema, SeasonsUnique, SeasonTeamsUnique, StatsUnique
<1>19. id \in IdsOf(t.matches)
  <2>1. IsFound(s, raw) => id \in IdsOf(s.matches)
    BY <1>7 DEF IdsOf
  <2> QED
    BY <1>14, <2>1
<1>20. ReferencesHold(t)
  <2>1. \A l \in t.matchLinks : l.match \in IdsOf(t.matches)
    BY <1>4, <1>8, <1>14, <1>19 DEF ReferencesHold
  <2>2. ASSUME NEW m \in s.matches
        PROVE  /\ m.season \in IdsOf(s.seasons) /\ m.home \in IdsOf(s.teams)
               /\ m.away \in IdsOf(s.teams) /\ m.venue \in IdsOf(s.venues) \cup {None}
    BY DEF ReferencesHold
  <2>3. ASSUME NEW n \in t.matches
        PROVE  /\ n.season \in IdsOf(t.seasons) /\ {n.home, n.away} \subseteq IdsOf(t.teams)
               /\ n.venue \in IdsOf(t.venues) \cup {None}
    <3>1. CASE n = new
      BY <1>2, <1>3, <1>8, <1>12, <3>1
    <3>2. CASE \E m \in s.matches : n = After(m)
      <4>1. PICK m \in s.matches : n = After(m)
        BY <3>2
      <4>2. n.season = m.season /\ n.home = m.home /\ n.away = m.away
            /\ (n.venue = m.venue \/ n.venue = venue)
        BY <1>5, <4>1
      <4> QED
        BY <1>2, <1>8, <2>2, <4>2
    <3> QED
      BY <1>13, <3>1, <3>2
  <2>4. /\ \A l \in t.teamLinks : l.team \in IdsOf(t.teams)
        /\ \A p \in t.seasonTeams \cup t.stats :
             p.season \in IdsOf(t.seasons) /\ p.team \in IdsOf(t.teams)
    BY <1>8 DEF ReferencesHold
  <2> QED
    BY <2>1, <2>3, <2>4 DEF ReferencesHold
<1>21. DictionariesHold(t)
  <2>1. /\ DOMAIN s.matchByExt = {l.ext : l \in OfSource(s.matchLinks)}
        /\ \A l \in OfSource(s.matchLinks) : s.matchByExt[l.ext] = l.match
        /\ DOMAIN s.matchByKey = {NaturalKey(m) : m \in s.matches}
        /\ \A m \in s.matches : s.matchByKey[NaturalKey(m)] = m.id
    BY DEF DictionariesHold
  <2>2. DOMAIN t.matchByExt = {l.ext : l \in OfSource(t.matchLinks)}
    <3>1. CASE IsLinked(s, raw)
      BY <1>9, <1>17, <2>1, <3>1 DEF IsLinked
    <3>2. CASE ~IsLinked(s, raw)
      BY <1>4, <1>9, <1>17, <2>1, <3>2
    <3> QED
      BY <3>1, <3>2
  <2>3. ASSUME NEW l \in OfSource(t.matchLinks) PROVE t.matchByExt[l.ext] = l.match
    <3>1. CASE IsLinked(s, raw)
      BY <1>7, <1>9, <1>17, <2>1, <3>1
    <3>2. CASE ~IsLinked(s, raw)
      BY <1>4, <1>9, <1>17, <2>1, <3>2 DEF IsLinked
    <3> QED
      BY <3>1, <3>2
  <2>4. DOMAIN t.matchByKey = {NaturalKey(m) : m \in t.matches}
    <3>1. CASE IsFound(s, raw)
      <4>1. t.matches = {After(m) : m \in s.matches} /\ t.matchByKey = s.matchByKey
        BY <1>8, <3>1
      <4> QED
        BY <1>5, <2>1, <4>1
    <3>2. CASE ~IsFound(s, raw)
      <4>1. t.matches = s.matches \cup {new}
        BY <1>8, <3>2
      <4> QED
        BY <1>3, <1>10, <2>1, <3>2, <4>1
    <3> QED
      BY <3>1, <3>2
  <2>5. ASSUME NEW n \in t.matches PROVE t.matchByKey[NaturalKey(n)] = n.id
    <3>1. CASE IsFound(s, raw)
      <4>1. PICK m \in s.matches : n = After(m)
        BY <1>13, <3>1
      <4> QED
        BY <1>5, <1>8, <2>1, <3>1, <4>1
    <3>2. CASE ~IsFound(s, raw)
      <4>1. n = new \/ n \in s.matches
        BY <1>8, <3>2
      <4> QED
        BY <1>3, <1>7, <1>10, <2>1, <3>2, <4>1
    <3> QED
      BY <3>1, <3>2
  <2>6. /\ DOMAIN t.teamByExt = {l.ext : l \in OfSource(t.teamLinks)}
        /\ \A l \in OfSource(t.teamLinks) : t.teamByExt[l.ext] = l.team
        /\ DOMAIN t.teamByName = {Lowered[u.name] : u \in t.teams}
        /\ \A n \in DOMAIN t.teamByName :
             \E u \in t.teams : Lowered[u.name] = n /\ u.id = t.teamByName[n]
        /\ DOMAIN t.venueByName = {v.name : v \in t.venues}
        /\ \A n \in DOMAIN t.venueByName : \E v \in t.venues : v.name = n /\ v.id = t.venueByName[n]
    BY <1>8 DEF DictionariesHold
  <2> HIDE DEF MapperSessionHolds
  <2> QED
    BY <2>2, <2>3, <2>4, <2>5, <2>6 DEF DictionariesHold
<1>22. MapperSessionHolds(t)
  BY <1>8, <1>11, <1>15, <1>16, <1>18, <1>20, <1>21
<1>23. \E n \in t.matches :
         /\ n.id = t.matchByExt[raw.id] /\ SaysOf(t, n, raw)
         /\ ~IsLinked(s, raw) => NaturalKey(n) = key
         /\ \A m \in t.matches : m # n => m \in s.matches
  <2>1. VenueIs(t, venue, raw.venue)
    BY <1>2, <1>8 DEF VenueIs
  <2>2. CASE IsFound(s, raw)
    <3>1. PICK m \in s.matches : m.id = id /\ (~IsLinked(s, raw) => NaturalKey(m) = key)
      BY <1>7, <2>2 DEF IdsOf
    <3>2. PICK n \in t.matches : n = After(m)
      BY <1>13, <2>2
    <3>3. SaysOf(t, n, raw)
      BY <1>5, <2>1, <3>1, <3>2 DEF SaysOf
    <3>4. ASSUME NEW o \in t.matches, o # n PROVE o \in s.matches
      <4>1. PICK p \in s.matches : o = After(p)
        BY <1>13, <2>2
      <4>2. p.id # id
        BY <3>1, <3>2, <3>4, <4>1 DEF UniqueOn
      <4> QED
        BY <1>5, <4>1, <4>2
    <3> QED
      BY <1>5, <1>9, <3>1, <3>2, <3>3, <3>4
  <2>3. CASE ~IsFound(s, raw)
    <3>1. t.matches = s.matches \cup {new}
      BY <1>8, <2>3
    <3>2. SaysOf(t, new, raw)
      BY <1>3, <2>1 DEF SaysOf
    <3> QED
      BY <1>3, <1>9, <3>1, <3>2
  <2> QED
    BY <2>2, <2>3
<1>24. /\ s.matchLinks \subseteq t.matchLinks
       /\ \A l \in t.matchLinks \ s.matchLinks : l.source = FootballData /\ l.ext = raw.id
       /\ IsLinked(s, raw) => t.matchLinks = s.matchLinks /\ IdsOf(t.matches) = IdsOf(s.matches)
  BY <1>4, <1>7, <1>8, <1>14
<1>25. IsLinked(t, raw)
  BY <1>9 DEF IsLinked
<1>26. MatchUpserted(s, t, raw)
  BY <1>8, <1>14, <1>22, <1>23, <1>24, <1>25 DEF MatchUpserted, key
<1> QED
  BY <1>26 DEF t

-----------------------------------------------------------------------------
(* One turn of the loop *)

\* What a raw match names is on record already.
Known(d, raw) ==
  /\ {raw.home.id, raw.away.id} \subseteq {l.ext : l \in OfSource(d.teamLinks)}
  /\ Venueless(raw.venue) \/ Cleaned[raw.venue] \in {v.name : v \in d.venues}
  /\ raw.id \in {l.ext : l \in OfSource(d.matchLinks)}

LinkedTo(d, ext, m) == \E l \in OfSource(d.matchLinks) : l.ext = ext /\ l.match = m.id

\* A turn adds rows, writes to one match, and keeps the identity of the others.
TurnTaken(s, t, raw) ==
  /\ MapperSessionHolds(t) /\ Known(t, raw)
  /\ s.teams \subseteq t.teams /\ s.teamLinks \subseteq t.teamLinks
  /\ s.venues \subseteq t.venues /\ s.matchLinks \subseteq t.matchLinks
  /\ t.seasons = s.seasons /\ t.season = s.season
  /\ t.seasonTeams = s.seasonTeams /\ t.stats = s.stats
  /\ TeamsNamedOnce(s) => TeamsNamedOnce(t)
  /\ VenuesNamedOnce(s) => VenuesNamedOnce(t)
  /\ \A m \in s.matches : \E n \in t.matches : n.id = m.id /\ NaturalKey(n) = NaturalKey(m)
  /\ \A l \in t.matchLinks \ s.matchLinks : l.source = FootballData /\ l.ext = raw.id
  /\ Known(s, raw) => /\ t.teams = s.teams /\ t.teamLinks = s.teamLinks
                      /\ t.venues = s.venues /\ t.matchLinks = s.matchLinks
                      /\ \A n \in t.matches :
                           \E m \in s.matches : m.id = n.id /\ NaturalKey(n) = NaturalKey(m)
  /\ \E n \in t.matches :
       /\ LinkedTo(t, raw.id, n) /\ SaysOf(t, n, raw)
       /\ raw.id \notin {l.ext : l \in OfSource(s.matchLinks)} => NaturalKey(n) = RowKey(t, raw)
       /\ \A m \in t.matches : m # n => m \in s.matches

LEMMA TurnIsTaken ==
  ASSUME NEW s, MapperSessionHolds(s), NEW raw
  PROVE  TurnTaken(s, AfterRow(s, raw), raw)
<1> DEFINE a == ResolveTeam(s, raw.home)
           b == ResolveTeam(a, raw.away)
           c == ResolveVenue(b, raw.venue)
           t == UpsertMatch(c, raw)
<1>0. AfterRow(s, raw) = t
  BY DEF AfterRow
<1>1. TeamResolved(s, a, raw.home)
  BY ResolveTeamHolds
<1> HIDE DEF a
<1>2. TeamResolved(a, b, raw.away)
  <2>1. MapperSessionHolds(a)
    BY <1>1 DEF TeamResolved
  <2> QED
    BY <2>1, ResolveTeamHolds
<1> HIDE DEF b
<1>3. VenueResolved(b, c, raw.venue)
  BY <1>2, ResolveVenueHolds DEF TeamResolved
<1> HIDE DEF c
<1>4. /\ raw.home.id \in DOMAIN c.teamByExt /\ raw.away.id \in DOMAIN c.teamByExt
      /\ VenueKnown(c, raw.venue) /\ MapperSessionHolds(c)
  BY <1>1, <1>2, <1>3 DEF TeamResolved, VenueResolved
<1>5. MatchUpserted(c, t, raw)
  BY <1>4, UpsertMatchHolds
<1> HIDE DEF t
<1>6. /\ s.teams \subseteq t.teams /\ s.teamLinks \subseteq t.teamLinks
      /\ s.venues \subseteq t.venues /\ s.matchLinks \subseteq t.matchLinks
      /\ t.seasons = s.seasons /\ t.season = s.season
      /\ t.seasonTeams = s.seasonTeams /\ t.stats = s.stats
      /\ c.matches = s.matches /\ c.matchLinks = s.matchLinks
      /\ c.season = s.season /\ c.matchByExt = s.matchByExt
      /\ MapperSessionHolds(t) /\ t.teamByExt = c.teamByExt /\ t.venueByName = c.venueByName
  BY <1>1, <1>2, <1>3, <1>5 DEF TeamResolved, VenueResolved, MatchUpserted
<1>7. /\ TeamsNamedOnce(s) => TeamsNamedOnce(t)
      /\ VenuesNamedOnce(s) => VenuesNamedOnce(t)
  BY <1>1, <1>2, <1>3, <1>5
     DEF TeamResolved, VenueResolved, MatchUpserted, TeamsNamedOnce, VenuesNamedOnce, UniqueOn
<1>8. ASSUME NEW u, MapperSessionHolds(u)
      PROVE  Known(u, raw) <=> /\ raw.home.id \in DOMAIN u.teamByExt
                               /\ raw.away.id \in DOMAIN u.teamByExt
                               /\ VenueKnown(u, raw.venue) /\ IsLinked(u, raw)
  BY <1>8 DEF Known, VenueKnown, IsLinked, MapperSessionHolds, DictionariesHold
<1>9. Known(t, raw)
  <2>1. VenueKnown(t, raw.venue) /\ IsLinked(t, raw)
    BY <1>4, <1>5, <1>6 DEF MatchUpserted, VenueKnown
  <2> QED
    BY <1>4, <1>6, <1>8, <2>1
<1>10. ASSUME Known(s, raw)
       PROVE  /\ t.teams = s.teams /\ t.teamLinks = s.teamLinks
              /\ t.venues = s.venues /\ t.matchLinks = s.matchLinks
              /\ \A n \in t.matches :
                   \E m \in s.matches : m.id = n.id /\ NaturalKey(n) = NaturalKey(m)
  <2>1. /\ raw.home.id \in DOMAIN s.teamByExt /\ raw.away.id \in DOMAIN s.teamByExt
        /\ VenueKnown(s, raw.venue) /\ IsLinked(s, raw)
    BY <1>8, <1>10
  <2>2. a = s
    BY <1>1, <2>1 DEF TeamResolved
  <2>3. b = s
    BY <1>2, <2>1, <2>2 DEF TeamResolved
  <2>4. c = s
    BY <1>3, <2>1, <2>3 DEF VenueResolved
  <2>5. /\ t.teams = s.teams /\ t.teamLinks = s.teamLinks /\ t.venues = s.venues
        /\ t.matchLinks = s.matchLinks /\ IdsOf(t.matches) = IdsOf(s.matches)
        /\ \A n \in t.matches : (\E m \in s.matches : m.id = n.id) =>
             \E m \in s.matches : m.id = n.id /\ NaturalKey(n) = NaturalKey(m)
    BY <1>5, <2>1, <2>4 DEF MatchUpserted
  <2>6. \A n \in t.matches : \E m \in s.matches : m.id = n.id
    BY <2>5 DEF IdsOf
  <2> QED
    BY <2>5, <2>6
<1>11. PICK n \in t.matches :
         /\ n.id = t.matchByExt[raw.id] /\ SaysOf(t, n, raw)
         /\ ~IsLinked(c, raw) => NaturalKey(n) = RowKey(c, raw)
         /\ \A m \in t.matches : m # n => m \in c.matches
  BY <1>5 DEF MatchUpserted
<1>12. LinkedTo(t, raw.id, n)
  <2>1. raw.id \in DOMAIN t.matchByExt
    BY <1>5 DEF MatchUpserted, IsLinked
  <2>2. PICK l \in OfSource(t.matchLinks) : l.ext = raw.id
    BY <1>6, <2>1 DEF MapperSessionHolds, DictionariesHold
  <2>3. l.match = t.matchByExt[raw.id]
    BY <1>6, <2>2 DEF MapperSessionHolds, DictionariesHold
  <2> QED
    BY <1>11, <2>2, <2>3 DEF LinkedTo
<1>13. raw.id \notin {l.ext : l \in OfSource(s.matchLinks)} => NaturalKey(n) = RowKey(t, raw)
  <2>1. RowKey(t, raw) = RowKey(c, raw)
    BY <1>6 DEF RowKey
  <2>2. DOMAIN s.matchByExt = {l.ext : l \in OfSource(s.matchLinks)}
    BY DEF MapperSessionHolds, DictionariesHold
  <2> QED
    BY <1>6, <1>11, <2>1, <2>2 DEF IsLinked
<1>14. \A l \in t.matchLinks \ s.matchLinks : l.source = FootballData /\ l.ext = raw.id
  BY <1>5, <1>6 DEF MatchUpserted
<1>15. \A m \in s.matches : \E o \in t.matches : o.id = m.id /\ NaturalKey(o) = NaturalKey(m)
  BY <1>5, <1>6 DEF MatchUpserted
<1>16. TurnTaken(s, t, raw)
  BY <1>6, <1>7, <1>9, <1>10, <1>11, <1>12, <1>13, <1>14, <1>15 DEF TurnTaken
<1> QED
  BY <1>0, <1>16

-----------------------------------------------------------------------------
(* The state of a run *)

\* A view of the database keeps what the committed rows are to keep.
KeepsRows(s) ==
  /\ db.teams \subseteq s.teams /\ db.venues \subseteq s.venues
  /\ db.teamLinks \subseteq s.teamLinks /\ db.matchLinks \subseteq s.matchLinks
  /\ \A m \in db.matches : \E n \in s.matches : n.id = m.id /\ NaturalKey(n) = NaturalKey(m)

\* The inductive invariant: committed rows are sound, and so are those of an
\* open session, whose last flush went through.
MapperInv ==
  /\ Sound(db) /\ runs \in 0..MaxRuns
  /\ pc \in {"idle", "rows", "raised"}
  /\ feed \in Feeds \cup {None} /\ last \in Feeds \cup {None}
  /\ pc # "rows" => session = NoSession
  /\ pc = "rows" => /\ feed \in Feeds /\ feed.rows # <<>>
                    /\ row \in 1..(Len(feed.rows) + 1)
                    /\ MapperSessionHolds(session) /\ SchemaHolds(session)
                    /\ KeepsRows(session)

LEMMA MapperInit == Init => MapperInv
BY MapperAssumption DEF Init, MapperInv, NoSession

\* What a commit leaves is the session's rows.
LEMMA MapperCommits ==
  ASSUME MapperInv, Commit
  PROVE  /\ Sound(db') /\ \A t \in Tables : db'[t] = session[t]
<1>1. MapperSessionHolds(session) /\ SchemaHolds(session)
  BY DEF MapperInv, Commit
<1>2. db' = [t \in Tables |-> session[t]]
  BY DEF Commit, Rows
<1> QED
  BY <1>1, <1>2, CommittedIsSound DEF MapperSessionHolds

LEMMA MapperNext == MapperInv /\ [Next]_vars => MapperInv'
<1> SUFFICES ASSUME MapperInv, [Next]_vars PROVE MapperInv'
  OBVIOUS
<1>0. MaxRuns \in Nat /\ None \notin Feeds
  BY MapperAssumption
<1>1. ASSUME NEW f \in Feeds, Open(f) PROVE MapperInv'
  <2>1. Opened(session', f) /\ MapperSessionHolds(session') /\ SchemaHolds(session')
    BY <1>1, MapperOpens DEF MapperInv
  <2>2. KeepsRows(session)'
    <3>1. /\ session'.teams = db.teams /\ session'.venues = db.venues
          /\ session'.teamLinks = db.teamLinks /\ session'.matchLinks = db.matchLinks
          /\ session'.matches = db.matches
      BY <2>1, TableNames DEF Opened
    <3>2. db' = db
      BY <1>1 DEF Open
    <3> QED
      BY <3>1, <3>2 DEF KeepsRows
  <2>3. f.rows # <<>> /\ 1 \in 1..(Len(f.rows) + 1)
    <3>1. f.rows # <<>>
      BY <1>1 DEF Open
    <3>2. Len(f.rows) \in Nat
      BY <3>1, BatchIsFinite
    <3> QED
      BY <3>1, <3>2
  <2> QED
    BY <1>0, <1>1, <2>1, <2>2, <2>3 DEF Open, MapperInv
<1>2. ASSUME NEW f \in Feeds, NothingToImport(f) PROVE MapperInv'
  BY <1>0, <1>2 DEF NothingToImport, MapperInv
<1>3. ASSUME InLoop PROVE row + 1 \in 1..(Len(feed.rows) + 1)
  <2>1. Len(feed.rows) \in Nat
    BY <1>3, BatchIsFinite DEF MapperInv, InLoop
  <2> QED
    BY <1>3, <2>1 DEF MapperInv, InLoop
<1>4. CASE SkipRow
  <2>1. row' \in 1..(Len(feed.rows) + 1)
    BY <1>3, <1>4 DEF SkipRow
  <2>2. KeepsRows(session)' <=> KeepsRows(session)
    BY <1>4 DEF SkipRow, KeepsRows
  <2> QED
    BY <1>4, <2>1, <2>2 DEF SkipRow, InLoop, MapperInv
<1>5. CASE ImportRow
  <2>1. row' \in 1..(Len(feed.rows) + 1)
    BY <1>3, <1>5 DEF ImportRow
  <2>2. TurnTaken(session, session', feed.rows[row]) /\ SchemaHolds(session')
    BY <1>5, TurnIsTaken DEF ImportRow, InLoop, MapperInv
  <2>3. KeepsRows(session) /\ db' = db
    BY <1>5 DEF ImportRow, InLoop, MapperInv
  <2>4. KeepsRows(session)'
    BY <2>2, <2>3 DEF KeepsRows, TurnTaken
  <2>5. MapperSessionHolds(session')
    BY <2>2 DEF TurnTaken
  <2> QED
    BY <1>5, <2>1, <2>2, <2>4, <2>5 DEF ImportRow, InLoop, MapperInv
<1>6. CASE RowRaises
  BY <1>6 DEF RowRaises, MapperInv
<1>7. CASE Commit
  BY <1>7, MapperCommits DEF Commit, MapperInv
<1>8. CASE Crash
  BY <1>8 DEF Crash, MapperInv
<1>9. CASE GiveUp
  BY <1>9 DEF GiveUp, MapperInv
<1>10. CASE UNCHANGED vars
  BY <1>10 DEF vars, MapperInv, KeepsRows
<1> QED
  BY <1>1, <1>2, <1>4, <1>5, <1>6, <1>7, <1>8, <1>9, <1>10 DEF Next, Done

\* Every run of the importer, however it ends, leaves a database on which the
\* next one may build: committed rows satisfy models.py, and nothing is seen of
\* an open session.
THEOREM MapperInvariant == Spec => []MapperInv
BY MapperInit, MapperNext, PTL DEF Spec

\* The type invariant of import_matches, for all that the API may report.
THEOREM MapperTypes == Spec => []TypeOK
<1>1. MapperInv => TypeOK
  <2> SUFFICES ASSUME MapperInv PROVE TypeOK
    OBVIOUS
  <2>1. DOMAIN db = Tables /\ SchemaHolds(db) /\ ReferencesHold(db)
    BY DEF MapperInv, Sound
  <2>2. session.open <=> pc = "rows"
    <3>1. CASE pc = "rows"
      <4>1. session.open = TRUE
        BY <3>1 DEF MapperInv, MapperSessionHolds
      <4> QED
        BY <3>1, <4>1
    <3>2. CASE pc # "rows"
      <4>1. session.open = FALSE
        BY <3>2 DEF MapperInv, NoSession
      <4> QED
        BY <3>2, <4>1
    <3> QED
      BY <3>1, <3>2
  <2> QED
    BY <2>1, <2>2 DEF MapperInv, TypeOK
<1> QED
  BY <1>1, MapperInvariant, PTL

\* No run, committed or not, loses a club, a stadium or a link, or gives a
\* fixture's row to another fixture.
THEOREM RowsAreKept == Spec => NothingIsLost
<1> DEFINE Keeps ==
      /\ db.teams \subseteq db'.teams /\ db.venues \subseteq db'.venues
      /\ db.teamLinks \subseteq db'.teamLinks
      /\ db.matchLinks \subseteq db'.matchLinks
      /\ \A m \in db.matches : \E n \in db'.matches :
           n.id = m.id /\ NaturalKey(n) = NaturalKey(m)
<1>1. MapperInv /\ [Next]_vars => [Keeps]_vars
  <2> SUFFICES ASSUME MapperInv, [Next]_vars PROVE Keeps
    OBVIOUS
  <2>1. CASE Commit
    <3>1. KeepsRows(session)
      BY <2>1 DEF Commit, MapperInv
    <3>2. /\ db'.teams = session.teams /\ db'.venues = session.venues
          /\ db'.teamLinks = session.teamLinks /\ db'.matchLinks = session.matchLinks
          /\ db'.matches = session.matches
      BY <2>1, MapperCommits, TableNames
    <3> QED
      BY <3>1, <3>2 DEF KeepsRows
  <2>2. CASE ~Commit
    <3>1. db' = db
      BY <2>2 DEF Next, Open, NothingToImport, SkipRow, ImportRow, RowRaises, Crash, GiveUp,
         Done, vars
    <3> QED
      BY <3>1
  <2> QED
    BY <2>1, <2>2
<1> QED
  BY <1>1, MapperInvariant, PTL DEF Spec, NothingIsLost

-----------------------------------------------------------------------------
(* Names *)

\* Clubs keep names of their own, and so do stadiums, if they have them in the
\* database the first run finds: the run looks a name up before it adds a row.
TeamsInv == TeamsNamedOnce(db) /\ (pc = "rows" => TeamsNamedOnce(session))
VenuesInv == VenuesNamedOnce(db) /\ (pc = "rows" => VenuesNamedOnce(session))

LEMMA NamesNext ==
  MapperInv /\ [Next]_vars => (TeamsInv => TeamsInv') /\ (VenuesInv => VenuesInv')
<1> SUFFICES ASSUME MapperInv, [Next]_vars
             PROVE  (TeamsInv => TeamsInv') /\ (VenuesInv => VenuesInv')
  OBVIOUS
<1> USE DEF TeamsNamedOnce, VenuesNamedOnce, UniqueOn
<1>1. ASSUME NEW f \in Feeds, Open(f)
      PROVE  (TeamsInv => TeamsInv') /\ (VenuesInv => VenuesInv')
  <2>1. Opened(session', f)
    BY <1>1, MapperOpens DEF MapperInv
  <2>2. session'.teams = db.teams /\ session'.venues = db.venues /\ db' = db
    BY <1>1, <2>1, TableNames DEF Opened, Open
  <2> QED
    BY <2>2 DEF TeamsInv, VenuesInv
<1>2. CASE ImportRow
  <2>1. /\ TurnTaken(session, session', feed.rows[row])
        /\ db' = db /\ pc = "rows"
    BY <1>2, TurnIsTaken DEF ImportRow, InLoop, MapperInv
  <2>2. /\ TeamsNamedOnce(session) => TeamsNamedOnce(session')
        /\ VenuesNamedOnce(session) => VenuesNamedOnce(session')
    BY <2>1 DEF TurnTaken
  <2> QED
    BY <2>1, <2>2 DEF TeamsInv, VenuesInv
<1>3. CASE Commit
  <2>1. db'.teams = session.teams /\ db'.venues = session.venues
    BY <1>3, MapperCommits, TableNames
  <2> QED
    BY <1>3, <2>1 DEF Commit, TeamsInv, VenuesInv
<1>4. CASE /\ ~(\E f \in Feeds : Open(f)) /\ ~ImportRow /\ ~Commit
  <2>1. db' = db /\ (pc' = "rows" => pc = "rows" /\ session' = session)
    BY <1>4 DEF Next, NothingToImport, SkipRow, RowRaises, Crash, GiveUp, Done, vars
  <2> QED
    BY <2>1 DEF TeamsInv, VenuesInv
<1> QED
  BY <1>1, <1>2, <1>3, <1>4

\* The five dictionaries, kept up by hand through the loop, say at every turn
\* what the session's rows say.  The hypothesis: the first run finds no two
\* clubs and no two stadiums of one name, of which a dictionary would hide one.
THEOREM DictionariesFollowRows ==
  ASSUME \A d \in StartDBs : TeamsNamedOnce(d) /\ VenuesNamedOnce(d)
  PROVE  Spec => []DictionariesMirrorRows
<1>1. Init => TeamsInv /\ VenuesInv
  BY DEF Init, TeamsInv, VenuesInv
<1>2. MapperInv /\ TeamsInv /\ VenuesInv => DictionariesMirrorRows
  <2> SUFFICES ASSUME MapperInv, TeamsInv, VenuesInv, session.open
               PROVE  DictionariesMirrorRows
    BY DEF DictionariesMirrorRows
  <2>1. pc = "rows"
    BY DEF MapperInv, NoSession
  <2>2. DictionariesHold(session) /\ TeamsNamedOnce(session) /\ VenuesNamedOnce(session)
    BY <2>1 DEF MapperInv, MapperSessionHolds, TeamsInv, VenuesInv
  <2>3. ASSUME NEW t \in session.teams
        PROVE  /\ Lowered[t.name] \in DOMAIN session.teamByName
               /\ session.teamByName[Lowered[t.name]] = t.id
    <3>1. Lowered[t.name] \in DOMAIN session.teamByName
      BY <2>2 DEF DictionariesHold
    <3>2. PICK u \in session.teams :
            Lowered[u.name] = Lowered[t.name] /\ u.id = session.teamByName[Lowered[t.name]]
      BY <2>2, <3>1 DEF DictionariesHold
    <3>3. u = t
      BY <2>2, <3>2 DEF TeamsNamedOnce, UniqueOn
    <3> QED
      BY <3>1, <3>2, <3>3
  <2>4. ASSUME NEW v \in session.venues
        PROVE  v.name \in DOMAIN session.venueByName /\ session.venueByName[v.name] = v.id
    <3>1. v.name \in DOMAIN session.venueByName
      BY <2>2 DEF DictionariesHold
    <3>2. PICK u \in session.venues : u.name = v.name /\ u.id = session.venueByName[v.name]
      BY <2>2, <3>1 DEF DictionariesHold
    <3>3. u = v
      BY <2>2, <3>2 DEF VenuesNamedOnce, UniqueOn
    <3> QED
      BY <3>1, <3>2, <3>3
  <2> QED
    BY <2>2, <2>3, <2>4 DEF DictionariesHold, DictionariesMirrorRows
<1> QED
  BY <1>1, <1>2, MapperInvariant, NamesNext, PTL DEF Spec

-----------------------------------------------------------------------------
(* Importing again *)

\* Row i is, of the first n, the last that reports its fixture.
LastOf(f, n, i) ==
  /\ i \in 1..n /\ f.rows[i].matchday # None
  /\ \A k \in 1..n : f.rows[k].matchday # None /\ f.rows[k].id = f.rows[i].id => k <= i

\* The rows say what the first n raw matches do: all that they name is on
\* record, and a fixture is as its last raw match has it.
SaysRows(d, f, n) ==
  /\ \A i \in 1..n : f.rows[i].matchday # None => Known(d, f.rows[i])
  /\ \A i \in 1..n : LastOf(f, n, i) =>
       \A m \in d.matches : LinkedTo(d, f.rows[i].id, m) => SaysOf(d, m, f.rows[i])

SaysSeason(d, f) ==
  \E s \in d.seasons :
    /\ s.year = f.year /\ s.status = BatchStatus(f)
    /\ s.start <= Lowest(BatchDates(f)) /\ s.end >= Highest(BatchDates(f))

LEMMA LastExists ==
  ASSUME NEW f, NEW n \in Nat, NEW i \in 1..n, f.rows[i].matchday # None
  PROVE  \E j \in 1..n : LastOf(f, n, j) /\ f.rows[j].id = f.rows[i].id
<1> DEFINE S == {k \in 1..n : f.rows[k].matchday # None /\ f.rows[k].id = f.rows[i].id}
<1>1. S \subseteq Int /\ S # {} /\ IsFiniteSet(S)
  <2>1. IsFiniteSet(1..n)
    BY FS_Interval
  <2>2. IsFiniteSet(S)
    BY <2>1, FS_Subset
  <2> QED
    BY <2>2
<1>2. PICK j \in S : \A y \in S : j >= y
  BY <1>1, HighestOfFinite
<1> QED
  BY <1>2 DEF LastOf

\* A fixture passed over says nothing.
LEMMA SkippedSays ==
  ASSUME NEW d, NEW f, NEW n \in Nat, f.rows[n + 1].matchday = None, SaysRows(d, f, n)
  PROVE  SaysRows(d, f, n + 1)
<1>1. \A i \in 1..(n + 1) : f.rows[i].matchday # None => i \in 1..n
  OBVIOUS
<1>2. \A i : LastOf(f, n + 1, i) => LastOf(f, n, i) /\ i \in 1..n
  BY <1>1 DEF LastOf
<1> QED
  BY <1>1, <1>2 DEF SaysRows

\* One imported says what it does, and takes nothing back from the others.
LEMMA TurnSays ==
  ASSUME NEW s, MapperSessionHolds(s), NEW f, NEW n \in Nat, SaysRows(s, f, n),
         f.rows[n + 1].matchday # None,
         NEW t, TurnTaken(s, t, f.rows[n + 1]), SchemaHolds(t)
  PROVE  SaysRows(t, f, n + 1)
<1> DEFINE raw == f.rows[n + 1]
<1>1. /\ s.teamLinks \subseteq t.teamLinks /\ s.venues \subseteq t.venues
      /\ s.matchLinks \subseteq t.matchLinks
      /\ \A l \in t.matchLinks \ s.matchLinks : l.source = FootballData /\ l.ext = raw.id
  BY DEF TurnTaken
<1>2. PICK touched \in t.matches :
        /\ LinkedTo(t, raw.id, touched) /\ SaysOf(t, touched, raw)
        /\ \A m \in t.matches : m # touched => m \in s.matches
  BY DEF TurnTaken
<1> HIDE DEF raw
<1>3. \A k, l \in OfSource(t.matchLinks) : (k.match = l.match \/ k.ext = l.ext) => k = l
  BY DEF SchemaHolds, MatchLinksUnique, UniqueOn, OfSource
<1>4. ASSUME NEW i \in 1..(n + 1), f.rows[i].matchday # None
      PROVE  Known(t, f.rows[i])
  <2>1. CASE i = n + 1
    BY <2>1 DEF TurnTaken
  <2>2. CASE i # n + 1
    <3>1. Known(s, f.rows[i])
      BY <1>4, <2>2 DEF SaysRows
    <3>2. OfSource(s.teamLinks) \subseteq OfSource(t.teamLinks)
          /\ OfSource(s.matchLinks) \subseteq OfSource(t.matchLinks)
      BY <1>1 DEF OfSource
    <3> QED
      BY <1>1, <3>1, <3>2 DEF Known
  <2> QED
    BY <2>1, <2>2
<1>5. ASSUME NEW i \in 1..(n + 1), LastOf(f, n + 1, i),
             NEW m \in t.matches, LinkedTo(t, f.rows[i].id, m)
      PROVE  SaysOf(t, m, f.rows[i])
  <2>1. PICK l \in OfSource(t.matchLinks) : l.ext = f.rows[i].id /\ l.match = m.id
    BY <1>5 DEF LinkedTo
  <2>2. PICK k \in OfSource(t.matchLinks) : k.ext = raw.id /\ k.match = touched.id
    BY <1>2 DEF LinkedTo
  <2>3. CASE i = n + 1
    <3>1. l = k
      BY <1>3, <2>1, <2>2, <2>3 DEF raw
    <3>2. m = touched
      BY <2>1, <2>2, <3>1, TableNames DEF TurnTaken, MapperSessionHolds, UniqueOn
    <3> QED
      BY <1>2, <2>3, <3>2 DEF raw
  <2>4. CASE i # n + 1
    <3>1. i \in 1..n /\ LastOf(f, n, i)
      BY <1>5, <2>4 DEF LastOf
    <3>2. f.rows[i].id # raw.id
      <4>1. n + 1 \in 1..(n + 1) /\ ~(n + 1 <= i)
        BY <3>1
      <4> QED
        BY <1>5, <4>1 DEF LastOf, raw
    <3>3. l # k
      BY <2>1, <2>2, <3>2
    <3>4. m # touched
      BY <1>3, <2>1, <2>2, <3>3
    <3>5. m \in s.matches /\ l \in OfSource(s.matchLinks)
      BY <1>1, <1>2, <2>1, <3>2, <3>4 DEF OfSource
    <3>6. SaysOf(s, m, f.rows[i])
      BY <2>1, <3>1, <3>5 DEF SaysRows, LinkedTo
    <3> QED
      BY <1>1, <3>6 DEF SaysOf, VenueIs
  <2> QED
    BY <2>3, <2>4
<1> QED
  BY <1>4, <1>5 DEF SaysRows

\* A run that opens brings its season up to date, and finds nothing to do if
\* the season was.
LEMMA OpenedSaysSeason ==
  ASSUME Sound(db), NEW f \in Feeds, f.rows # <<>>, NEW s, Opened(s, f)
  PROVE  SaysSeason(s, f) /\ (SaysSeason(db, f) => s.seasons = db.seasons)
<1> DEFINE low == Lowest(BatchDates(f))
           high == Highest(BatchDates(f))
<1>1. PICK season :
        /\ season = SeasonAfter(f, FirstFreeId(db)) /\ s.season = season.id
        /\ s.seasons = {r \in db.seasons : r.id # season.id} \cup {season}
  BY DEF Opened
<1>2. /\ ColumnsHold(db)
      /\ \A r \in db.seasons : r.start \in Int /\ r.end \in Int
      /\ \A q, r \in db.seasons : (q.year = r.year \/ q.id = r.id) => q = r
  BY TableNames DEF Sound, ColumnsHold, KeysHold, SchemaHolds, SeasonsUnique, UniqueOn
<1>3. /\ low \in Int /\ high \in Int
      /\ \/ /\ \A r \in db.seasons : r.year # f.year
            /\ season = SeasonRow(FirstFreeId(db), f, low, high)
         \/ \E r \in db.seasons :
              r.year = f.year
              /\ season = SeasonRow(r.id, f, Earlier(r.start, low), Later(r.end, high))
  BY <1>1, <1>2, SeasonOfBatch
<1> HIDE DEF low, high
<1>4. season \in s.seasons
  BY <1>1
<1>5. CASE \A r \in db.seasons : r.year # f.year
  <2>1. season = SeasonRow(FirstFreeId(db), f, low, high)
    BY <1>3, <1>5
  <2>2. /\ season.year = f.year /\ season.status = BatchStatus(f)
        /\ season.start <= low /\ season.end >= high
    BY <1>3, <2>1 DEF SeasonRow
  <2> QED
    BY <1>4, <1>5, <2>2 DEF SaysSeason, low, high
<1>6. CASE ~\A r \in db.seasons : r.year # f.year
  <2>1. PICK r \in db.seasons :
          r.year = f.year
          /\ season = SeasonRow(r.id, f, Earlier(r.start, low), Later(r.end, high))
    BY <1>3, <1>6
  <2>2. r.start \in Int /\ r.end \in Int
    BY <1>2
  <2>3. /\ season.year = f.year /\ season.status = BatchStatus(f) /\ season.id = r.id
        /\ season.start = Earlier(r.start, low) /\ season.end = Later(r.end, high)
    BY <2>1 DEF SeasonRow
  <2>4. season.start <= low /\ season.end >= high
    BY <1>3, <2>2, <2>3 DEF Earlier, Later
  <2>5. SaysSeason(s, f)
    BY <1>4, <2>3, <2>4 DEF SaysSeason, low, high
  <2>6. ASSUME SaysSeason(db, f) PROVE s.seasons = db.seasons
    <3>1. r.status = BatchStatus(f) /\ r.start <= low /\ r.end >= high
      BY <1>2, <2>1, <2>6 DEF SaysSeason, low, high
    <3>2. Earlier(r.start, low) = r.start /\ Later(r.end, high) = r.end
      BY <1>3, <2>2, <3>1 DEF Earlier, Later
    <3>3. r = [id |-> r.id, year |-> r.year, start |-> r.start, end |-> r.end,
               status |-> r.status]
      BY <1>2 DEF ColumnsHold
    <3>4. season = r
      BY <2>1, <3>1, <3>2, <3>3 DEF SeasonRow
    <3> QED
      BY <1>1, <1>2, <3>4
  <2> QED
    BY <2>5, <2>6
<1> QED
  BY <1>5, <1>6

\* A run that imports again what was imported last: so far it has written to
\* matches alone, to those of the first n raw matches, and not to their keys.
Rerun(s, f, n) ==
  /\ \A t \in Tables \ {"matches"} : s[t] = db[t]
  /\ \A m \in s.matches : \/ m \in db.matches
                          \/ \E i \in 1..n : /\ f.rows[i].matchday # None
                                             /\ LinkedTo(s, f.rows[i].id, m)
  /\ \A m \in s.matches : \E o \in db.matches : o.id = m.id /\ NaturalKey(o) = NaturalKey(m)

\* Committed rows say what the last feed does, those of a run what it has seen
\* of its own.
ReimportInv ==
  /\ last # None => /\ last.rows # <<>> /\ SaysSeason(db, last)
                    /\ SaysRows(db, last, Len(last.rows))
  /\ pc = "rows" => SaysSeason(session, feed) /\ SaysRows(session, feed, row - 1)
  /\ pc = "rows" /\ feed = last => Rerun(session, feed, row - 1)

LEMMA ReimportOpens ==
  ASSUME MapperInv, ReimportInv, NEW f \in Feeds, Open(f)
  PROVE  ReimportInv'
<1>0. f.rows # <<>> /\ None \notin Feeds
  BY MapperAssumption DEF Open
<1>1. Opened(session', f)
  BY MapperOpens DEF MapperInv
<1>2. db' = db /\ last' = last /\ feed' = f /\ pc' = "rows" /\ row' - 1 = 0
  BY DEF Open
<1>3. SaysSeason(session', f) /\ (SaysSeason(db, f) => session'.seasons = db.seasons)
  BY <1>0, <1>1, OpenedSaysSeason DEF MapperInv
<1>4. SaysRows(session', f, 0)
  BY DEF SaysRows
<1>5. ASSUME f = last PROVE Rerun(session, feed, row - 1)'
  <2>1. session'.seasons = db.seasons
    BY <1>0, <1>3, <1>5 DEF ReimportInv
  <2>2. \A t \in Tables : session'[t] = db[t]
    BY <1>1, <2>1 DEF Opened
  <2>3. session'.matches = db.matches
    BY <2>2, TableNames
  <2> QED
    BY <1>2, <2>2, <2>3 DEF Rerun
<1> QED
  BY <1>2, <1>3, <1>4, <1>5 DEF ReimportInv

\* A raw match already on record is written over its own row.
LEMMA RerunTurns ==
  ASSUME MapperInv, ReimportInv, InLoop, feed = last, feed.rows[row].matchday # None,
         NEW t, TurnTaken(session, t, feed.rows[row])
  PROVE  SchemaHolds(t) /\ Rerun(t, feed, row)
<1> DEFINE raw == feed.rows[row]
           s == session
<1>1. /\ MapperSessionHolds(s) /\ SchemaHolds(s)
      /\ feed # None /\ row \in 1..Len(feed.rows) /\ row \in Nat
  <2>1. Len(feed.rows) \in Nat
    BY BatchIsFinite DEF MapperInv, InLoop
  <2> QED
    BY <2>1, MapperAssumption DEF MapperInv, InLoop
<1>2. Rerun(s, feed, row - 1) /\ SaysRows(db, feed, Len(feed.rows))
  BY <1>1 DEF ReimportInv, InLoop
<1>3. Known(db, raw)
  BY <1>1, <1>2 DEF SaysRows
<1>4. /\ s.teamLinks = db.teamLinks /\ s.matchLinks = db.matchLinks /\ s.venues = db.venues
      /\ s.teams = db.teams /\ s.seasons = db.seasons /\ s.seasonTeams = db.seasonTeams
      /\ s.stats = db.stats
  BY <1>2, TableNames DEF Rerun
<1>5. Known(s, raw)
  BY <1>3, <1>4 DEF Known
<1>6. /\ t.teams = s.teams /\ t.teamLinks = s.teamLinks
      /\ t.venues = s.venues /\ t.matchLinks = s.matchLinks
      /\ t.seasons = s.seasons /\ t.seasonTeams = s.seasonTeams /\ t.stats = s.stats
      /\ \A n \in t.matches : \E m \in s.matches : m.id = n.id /\ NaturalKey(n) = NaturalKey(m)
      /\ MapperSessionHolds(t)
  BY <1>5 DEF TurnTaken
<1>7. PICK touched \in t.matches :
        LinkedTo(t, raw.id, touched) /\ \A m \in t.matches : m # touched => m \in s.matches
  BY DEF TurnTaken
<1> HIDE DEF raw, s
<1>8. SchemaHolds(t)
  <2>1. SidesDistinct(t)
    <3>1. SidesDistinct(s)
      BY <1>1 DEF SchemaHolds
    <3> QED
      BY <1>6, <3>1 DEF SidesDistinct, NaturalKey
  <2>2. TurnSchema(t)
    BY <1>6 DEF MapperSessionHolds
  <2>3. TeamLinksUnique(t) /\ MatchLinksUnique(t)
    BY <1>1, <1>6 DEF SchemaHolds, TeamLinksUnique, MatchLinksUnique
  <2> QED
    BY <2>1, <2>2, <2>3 DEF SchemaHolds, TurnSchema
<1>9. \A u \in Tables \ {"matches"} : t[u] = db[u]
  BY <1>4, <1>6, TableNames
<1>10. ASSUME NEW m \in t.matches, m \notin db.matches
       PROVE  \E i \in 1..row : feed.rows[i].matchday # None /\ LinkedTo(t, feed.rows[i].id, m)
  <2>1. CASE m = touched
    <3>1. row \in 1..row
      BY <1>1
    <3> QED
      BY <1>7, <2>1, <3>1 DEF raw
  <2>2. CASE m # touched
    <3>1. m \in s.matches
      BY <1>7, <2>2
    <3>2. PICK i \in 1..(row - 1) : feed.rows[i].matchday # None /\ LinkedTo(s, feed.rows[i].id, m)
      BY <1>2, <1>10, <3>1 DEF Rerun
    <3>3. i \in 1..row
      BY <1>1
    <3> QED
      BY <1>6, <3>2, <3>3 DEF LinkedTo
  <2> QED
    BY <2>1, <2>2
<1>11. ASSUME NEW m \in t.matches
       PROVE  \E o \in db.matches : o.id = m.id /\ NaturalKey(o) = NaturalKey(m)
  <2>1. PICK n \in s.matches : n.id = m.id /\ NaturalKey(m) = NaturalKey(n)
    BY <1>6
  <2>2. PICK o \in db.matches : o.id = n.id /\ NaturalKey(o) = NaturalKey(n)
    BY <1>2 DEF Rerun
  <2> QED
    BY <2>1, <2>2
<1> QED
  BY <1>8, <1>9, <1>10, <1>11 DEF Rerun

\* At its end the rows are those it found.
LEMMA RerunCommits ==
  ASSUME MapperInv, VenuesInv, ReimportInv, Commit, feed = last
  PROVE  db' = db
<1> DEFINE s == session
<1>1. /\ MapperSessionHolds(s) /\ SchemaHolds(s) /\ KeepsRows(s) /\ Sound(db)
      /\ VenuesNamedOnce(db)
      /\ feed # None /\ Len(feed.rows) \in Nat /\ row = Len(feed.rows) + 1
  <2>1. feed \in Feeds /\ feed.rows # <<>> /\ row \in 1..(Len(feed.rows) + 1)
        /\ row > Len(feed.rows)
    BY DEF MapperInv, Commit
  <2>2. Len(feed.rows) \in Nat
    BY <2>1, BatchIsFinite
  <2> QED
    BY <2>1, <2>2, MapperAssumption DEF MapperInv, VenuesInv, Commit
<1>2. /\ Rerun(s, feed, Len(feed.rows)) /\ SaysRows(db, feed, Len(feed.rows))
      /\ SaysRows(s, feed, Len(feed.rows))
  <2>1. row - 1 = Len(feed.rows)
    BY <1>1
  <2> QED
    BY <1>1, <2>1 DEF ReimportInv, Commit
<1>3. s.matchLinks = db.matchLinks /\ s.venues = db.venues
  BY <1>2, TableNames DEF Rerun
<1>4. \A q, r \in db.matches : q.id = r.id => q = r
  BY <1>1, TableNames DEF Sound, KeysHold, UniqueOn
<1> HIDE DEF s
<1>5. ASSUME NEW m \in s.matches PROVE m \in db.matches
  <2>1. CASE m \notin db.matches
    <3>1. PICK i \in 1..Len(feed.rows) :
            feed.rows[i].matchday # None /\ LinkedTo(s, feed.rows[i].id, m)
      BY <1>2, <2>1 DEF Rerun
    <3>2. PICK j \in 1..Len(feed.rows) :
            LastOf(feed, Len(feed.rows), j) /\ feed.rows[j].id = feed.rows[i].id
      BY <1>1, <3>1, LastExists
    <3>3. PICK o \in db.matches : o.id = m.id /\ NaturalKey(o) = NaturalKey(m)
      BY <1>2 DEF Rerun
    <3>4. LinkedTo(s, feed.rows[j].id, m) /\ LinkedTo(db, feed.rows[j].id, o)
      BY <1>3, <3>1, <3>2, <3>3 DEF LinkedTo
    <3>5. SaysOf(s, m, feed.rows[j]) /\ SaysOf(db, o, feed.rows[j])
      BY <1>2, <3>2, <3>4 DEF SaysRows
    <3>6. m.venue = o.venue
      BY <1>1, <1>3, <3>5 DEF SaysOf, VenueIs, VenuesNamedOnce, UniqueOn
    <3>7. m.at = o.at /\ m.status = o.status /\ m.score = o.score
      BY <3>5 DEF SaysOf
    <3>8. m.season = o.season /\ m.matchday = o.matchday /\ m.home = o.home /\ m.away = o.away
      BY <3>3 DEF NaturalKey
    <3>9. /\ m = [id |-> m.id, season |-> m.season, matchday |-> m.matchday,
                  home |-> m.home, away |-> m.away, at |-> m.at, venue |-> m.venue,
                  status |-> m.status, score |-> m.score]
          /\ o = [id |-> o.id, season |-> o.season, matchday |-> o.matchday,
                  home |-> o.home, away |-> o.away, at |-> o.at, venue |-> o.venue,
                  status |-> o.status, score |-> o.score]
      BY <1>1 DEF MapperSessionHolds, Sound, ColumnsHold
    <3>10. m = o
      BY <3>3, <3>6, <3>7, <3>8, <3>9
    <3> QED
      BY <3>10
  <2> QED
    BY <2>1
<1>6. ASSUME NEW o \in db.matches PROVE o \in s.matches
  <2>1. PICK n \in s.matches : n.id = o.id
    BY <1>1 DEF KeepsRows
  <2>2. n = o
    BY <1>4, <1>5, <2>1
  <2> QED
    BY <2>2
<1>7. \A t \in Tables : s[t] = db[t]
  <2>1. \A t \in Tables \ {"matches"} : s[t] = db[t]
    BY <1>2 DEF Rerun
  <2>2. s.matches = db.matches
    BY <1>5, <1>6
  <2> QED
    BY <2>1, <2>2
<1>8. db' = [t \in Tables |-> s[t]] /\ db = [t \in Tables |-> db[t]]
  BY <1>1 DEF Commit, Rows, s, Sound
<1> QED
  BY <1>7, <1>8

\* The same rows say the same.
LEMMA SameRowsSay ==
  ASSUME NEW d, NEW e, \A t \in Tables : e[t] = d[t], NEW f, NEW n
  PROVE  /\ SaysRows(d, f, n) => SaysRows(e, f, n)
         /\ SaysSeason(d, f) => SaysSeason(e, f)
BY TableNames DEF SaysRows, SaysSeason, Known, LinkedTo, SaysOf, VenueIs

LEMMA ReimportNext == MapperInv /\ ReimportInv /\ [Next]_vars => ReimportInv'
<1> SUFFICES ASSUME MapperInv, ReimportInv, [Next]_vars PROVE ReimportInv'
  OBVIOUS
<1>1. ASSUME NEW f \in Feeds, Open(f) PROVE ReimportInv'
  BY <1>1, ReimportOpens
<1>2. ASSUME InLoop
      PROVE  /\ row \in Nat /\ row - 1 \in Nat /\ (row - 1) + 1 = row /\ (row + 1) - 1 = row
             /\ MapperSessionHolds(session) /\ SaysRows(session, feed, row - 1)
             /\ SaysSeason(session, feed)
  <2>1. Len(feed.rows) \in Nat
    BY <1>2, BatchIsFinite DEF MapperInv, InLoop
  <2> QED
    BY <1>2, <2>1 DEF MapperInv, ReimportInv, InLoop
<1>3. CASE SkipRow
  <2>1. InLoop /\ feed.rows[row].matchday = None
    BY <1>3 DEF SkipRow
  <2>2. SaysRows(session, feed, row)
    BY <1>2, <2>1, SkippedSays
  <2>3. ASSUME Rerun(session, feed, row - 1) PROVE Rerun(session, feed, row)
    <3>1. \A i \in 1..(row - 1) : i \in 1..row
      BY <1>2, <2>1
    <3> QED
      BY <2>3, <3>1 DEF Rerun
  <2>4. /\ db' = db /\ last' = last /\ feed' = feed /\ pc' = pc /\ session' = session
        /\ row' - 1 = row
    BY <1>2, <1>3, <2>1 DEF SkipRow
  <2>5. feed = last => Rerun(session, feed, row - 1)'
    BY <2>1, <2>3, <2>4 DEF Rerun, ReimportInv, InLoop
  <2> QED
    BY <1>2, <2>1, <2>2, <2>4, <2>5 DEF ReimportInv
<1>4. CASE ImportRow
  <2>1. InLoop /\ feed.rows[row].matchday # None /\ SchemaHolds(session')
    BY <1>4 DEF ImportRow
  <2>2. TurnTaken(session, session', feed.rows[row])
    BY <1>2, <1>4, <2>1, TurnIsTaken DEF ImportRow
  <2>3. SaysRows(session', feed, row)
    BY <1>2, <2>1, <2>2, TurnSays
  <2>4. SaysSeason(session', feed)
    BY <1>2, <2>1, <2>2 DEF TurnTaken, SaysSeason
  <2>5. /\ db' = db /\ last' = last /\ feed' = feed /\ pc' = pc /\ row' - 1 = row
    BY <1>2, <1>4, <2>1 DEF ImportRow
  <2>6. ASSUME feed = last PROVE Rerun(session, feed, row - 1)'
    <3>1. Rerun(session', feed, row)
      BY <2>1, <2>2, <2>6, RerunTurns
    <3> QED
      BY <2>5, <3>1 DEF Rerun
  <2> QED
    BY <2>3, <2>4, <2>5, <2>6 DEF ReimportInv
<1>5. CASE Commit
  <2>1. /\ feed \in Feeds /\ feed.rows # <<>> /\ row = Len(feed.rows) + 1
        /\ SaysSeason(session, feed) /\ SaysRows(session, feed, Len(feed.rows))
    <3>1. feed \in Feeds /\ feed.rows # <<>> /\ row \in 1..(Len(feed.rows) + 1)
          /\ row > Len(feed.rows)
      BY <1>5 DEF MapperInv, Commit
    <3>2. Len(feed.rows) \in Nat
      BY <3>1, BatchIsFinite
    <3>3. row = Len(feed.rows) + 1 /\ row - 1 = Len(feed.rows)
      BY <3>1, <3>2
    <3> QED
      BY <1>5, <3>1, <3>3 DEF ReimportInv, Commit
  <2>2. \A t \in Tables : db'[t] = session[t]
    BY <1>5, MapperCommits
  <2>3. SaysSeason(db', feed) /\ SaysRows(db', feed, Len(feed.rows))
    BY <2>1, <2>2, SameRowsSay
  <2> QED
    BY <1>5, <2>1, <2>3 DEF Commit, ReimportInv
<1>6. CASE \E f \in Feeds : NothingToImport(f)
  BY <1>6 DEF NothingToImport, ReimportInv
<1>7. CASE RowRaises \/ Crash \/ GiveUp
  BY <1>7 DEF RowRaises, Crash, GiveUp, ReimportInv
<1>8. CASE UNCHANGED vars
  BY <1>8 DEF vars, ReimportInv, Rerun
<1> QED
  BY <1>1, <1>3, <1>4, <1>5, <1>6, <1>7, <1>8 DEF Next, Done

\* "Idempotent": importing again what was imported last neither fails nor
\* changes a committed row, whatever crashed in between.  The hypothesis: the
\* first run finds no two stadiums of one name, between which the order of a
\* SELECT would choose.
THEOREM ReimportsAreSafe ==
  ASSUME \A d \in StartDBs : VenuesNamedOnce(d)
  PROVE  Spec => ReimportIsSafe
<1> DEFINE Safe == feed = last /\ pc = "rows" => pc' # "raised" /\ db' = db
<1>1. Init => VenuesInv /\ ReimportInv
  BY DEF Init, VenuesInv, ReimportInv
<1>2. MapperInv /\ VenuesInv /\ ReimportInv /\ [Next]_vars => [Safe]_vars
  <2> SUFFICES ASSUME MapperInv, VenuesInv, ReimportInv, [Next]_vars, feed = last, pc = "rows"
               PROVE  pc' # "raised" /\ db' = db
    OBVIOUS
  <2>1. ~RowRaises
    <3>1. SUFFICES ASSUME RowRaises PROVE FALSE
      OBVIOUS
    <3>2. InLoop /\ feed.rows[row].matchday # None
          /\ ~SchemaHolds(AfterRow(session, feed.rows[row]))
      BY <3>1 DEF RowRaises
    <3>3. TurnTaken(session, AfterRow(session, feed.rows[row]), feed.rows[row])
      BY <3>2, TurnIsTaken DEF MapperInv, InLoop
    <3> QED
      BY <3>2, <3>3, RerunTurns
  <2>2. CASE Commit
    BY <2>2, RerunCommits DEF Commit
  <2>3. CASE SkipRow \/ ImportRow \/ Crash \/ UNCHANGED vars
    BY <2>3 DEF SkipRow, ImportRow, Crash, vars
  <2> QED
    BY <2>1, <2>2, <2>3 DEF Next, Open, NothingToImport, GiveUp, Done
<1>3. Init => MapperInv
  BY MapperInit
<1> QED
  BY <1>1, <1>2, MapperInvariant, NamesNext, ReimportNext, PTL DEF Spec, ReimportIsSafe

-----------------------------------------------------------------------------
(* The store of what was last reported *)

\* A row is the fixture of a raw match: of its season, matchday and clubs.
KeyReported(d, m, f, r) ==
  /\ \E s \in d.seasons : s.id = m.season /\ s.year = f.year
  /\ m.matchday = r.matchday
  /\ \E l \in OfSource(d.teamLinks) : l.team = m.home /\ l.ext = r.home.id
  /\ \E l \in OfSource(d.teamLinks) : l.team = m.away /\ l.ext = r.away.id

\* Each linked fixture was reported as what it is.
LinksReported(d) ==
  \A l \in OfSource(d.matchLinks) :
    \E f \in Feeds, m \in d.matches : \E r \in ReportedRows(f) :
      r.id = l.ext /\ m.id = l.match /\ KeyReported(d, m, f, r)

YearsKept(d, e) == \A s \in d.seasons : \E q \in e.seasons : q.id = s.id /\ q.year = s.year

\* So far a run has written and linked only what its first n raw matches report.
RunTouches(s, f, n) ==
  /\ \A m \in s.matches : \/ m \in db.matches
                          \/ \E i \in 1..n : /\ f.rows[i].matchday # None
                                             /\ LinkedTo(s, f.rows[i].id, m)
  /\ \A l \in s.matchLinks \ db.matchLinks :
       /\ l.source = FootballData
       /\ \E i \in 1..n : f.rows[i].matchday # None /\ l.ext = f.rows[i].id

StoreInv ==
  /\ LinksReported(db)
  /\ pc = "rows" => /\ LinksReported(session) /\ YearsKept(db, session)
                    /\ \E s \in session.seasons : s.id = session.season /\ s.year = feed.year
                    /\ RunTouches(session, feed, row - 1)

\* What is stored of a fixture, where its key was reported.
Stored(d, m, f, r) ==
  [year |-> f.year, matchday |-> r.matchday, home |-> r.home.id, away |-> r.away.id,
   at |-> m.at, venue |-> NameOf(d.venues, m.venue), status |-> m.status, score |-> m.score]

LEMMA StoredOfReported ==
  ASSUME NEW d, Sound(d), NEW m \in d.matches, NEW f, NEW r, KeyReported(d, m, f, r)
  PROVE  /\ FactsOf(d, m) = Stored(d, m, f, r)
         /\ \A l \in OfSource(d.matchLinks) :
              l.match = m.id => l.ext \in DOMAIN StoredFacts(d) /\ StoredFacts(d)[l.ext] = FactsOf(d, m)
<1>1. /\ \A q, s \in d.seasons : q.id = s.id => q = s
      /\ \A q, s \in d.matches : q.id = s.id => q = s
      /\ \A q, s \in OfSource(d.teamLinks) : q.team = s.team => q = s
      /\ \A q, s \in OfSource(d.matchLinks) : q.ext = s.ext => q = s
  BY TableNames DEF Sound, KeysHold, SchemaHolds, TeamLinksUnique, MatchLinksUnique, UniqueOn,
     OfSource
<1>2. RowOf(d.seasons, m.season).year = f.year
  BY <1>1 DEF RowOf, KeyReported
<1>3. TeamExt(d, m.home) = r.home.id /\ TeamExt(d, m.away) = r.away.id
  <2>1. ASSUME NEW l \in OfSource(d.teamLinks) PROVE TeamExt(d, l.team) = l.ext
    BY <1>1 DEF TeamExt
  <2> QED
    BY <2>1 DEF KeyReported
<1>4. m.matchday = r.matchday
  BY DEF KeyReported
<1>5. FactsOf(d, m) = Stored(d, m, f, r)
  BY <1>2, <1>3, <1>4 DEF FactsOf, Stored
<1>6. ASSUME NEW l \in OfSource(d.matchLinks), l.match = m.id
      PROVE  l.ext \in DOMAIN StoredFacts(d) /\ StoredFacts(d)[l.ext] = FactsOf(d, m)
  <2>1. (CHOOSE k \in OfSource(d.matchLinks) : k.ext = l.ext) = l
    BY <1>1
  <2>2. LinkedMatch(d, l.ext) = m
    BY <1>1, <1>6, <2>1 DEF LinkedMatch, RowOf
  <2>3. l.ext \in {k.ext : k \in OfSource(d.matchLinks)}
    OBVIOUS
  <2> QED
    BY <2>2, <2>3 DEF StoredFacts
<1> QED
  BY <1>5, <1>6

\* A fixture's key, once reported, stays what it was when rows are added.
LEMMA KeyStaysReported ==
  ASSUME NEW d, NEW e, YearsKept(d, e), d.teamLinks \subseteq e.teamLinks,
         NEW m, NEW n, NaturalKey(n) = NaturalKey(m), NEW f, NEW r, KeyReported(d, m, f, r)
  PROVE  KeyReported(e, n, f, r)
<1>1. n.season = m.season /\ n.matchday = m.matchday /\ n.home = m.home /\ n.away = m.away
  BY DEF NaturalKey
<1>2. OfSource(d.teamLinks) \subseteq OfSource(e.teamLinks)
  BY DEF OfSource
<1> QED
  BY <1>1, <1>2 DEF KeyReported, YearsKept

LEMMA OpenedKeepsYears ==
  ASSUME Sound(db), NEW f \in Feeds, f.rows # <<>>, NEW s, Opened(s, f)
  PROVE  /\ YearsKept(db, s)
         /\ \E season \in s.seasons : season.id = s.season /\ season.year = f.year
<1>1. PICK season :
        /\ season = SeasonAfter(f, FirstFreeId(db)) /\ s.season = season.id
        /\ s.seasons = {r \in db.seasons : r.id # season.id} \cup {season}
  BY DEF Opened
<1>2. /\ ColumnsHold(db)
      /\ \A q, r \in db.seasons : q.id = r.id => q = r
      /\ \A r \in db.seasons : r.id < FirstFreeId(db) /\ r.id \in Nat
      /\ FirstFreeId(db) \in Nat
  BY TableNames, FirstFreeIdIsFree DEF Sound, KeysHold, UniqueOn, Ids, IdsOf
<1>3. \/ season.id = FirstFreeId(db) /\ season.year = f.year
      \/ \E r \in db.seasons : r.year = f.year /\ season.id = r.id /\ season.year = f.year
  BY <1>1, <1>2, SeasonOfBatch DEF SeasonRow
<1>4. season.year = f.year /\ season \in s.seasons
  BY <1>1, <1>3
<1>5. ASSUME NEW r \in db.seasons PROVE \E q \in s.seasons : q.id = r.id /\ q.year = r.year
  <2>1. CASE r.id # season.id
    BY <1>1, <2>1
  <2>2. CASE r.id = season.id
    <3>1. season.id # FirstFreeId(db)
      BY <1>2, <2>2
    <3>2. season.year = r.year
      BY <1>2, <1>3, <2>2, <3>1
    <3> QED
      BY <1>4, <2>2, <3>2
  <2> QED
    BY <2>1, <2>2
<1> QED
  BY <1>1, <1>4, <1>5 DEF YearsKept

\* A turn links a new fixture as what is reported of it, and no other.
LEMMA LinksStayReported ==
  ASSUME NEW s, MapperSessionHolds(s), LinksReported(s), NEW f \in Feeds,
         NEW raw \in ReportedRows(f),
         \E season \in s.seasons : season.id = s.season /\ season.year = f.year,
         NEW t, TurnTaken(s, t, raw)
  PROVE  LinksReported(t)
<1>1. /\ s.teamLinks \subseteq t.teamLinks /\ t.seasons = s.seasons /\ t.season = s.season
      /\ MapperSessionHolds(t) /\ Known(t, raw)
      /\ \A m \in s.matches : \E n \in t.matches : n.id = m.id /\ NaturalKey(n) = NaturalKey(m)
      /\ \A l \in t.matchLinks \ s.matchLinks : l.source = FootballData /\ l.ext = raw.id
  BY DEF TurnTaken
<1>2. YearsKept(s, t)
  BY <1>1 DEF YearsKept
<1>3. ASSUME NEW l \in OfSource(t.matchLinks)
      PROVE  \E g \in Feeds, m \in t.matches : \E r \in ReportedRows(g) :
               r.id = l.ext /\ m.id = l.match /\ KeyReported(t, m, g, r)
  <2>1. CASE l \in s.matchLinks
    <3>1. l \in OfSource(s.matchLinks)
      BY <2>1 DEF OfSource
    <3>2. PICK g \in Feeds, m \in s.matches : \E r \in ReportedRows(g) :
            r.id = l.ext /\ m.id = l.match /\ KeyReported(s, m, g, r)
      BY <3>1 DEF LinksReported
    <3>3. PICK r \in ReportedRows(g) : r.id = l.ext /\ m.id = l.match /\ KeyReported(s, m, g, r)
      BY <3>2
    <3>4. PICK n \in t.matches : n.id = m.id /\ NaturalKey(n) = NaturalKey(m)
      BY <1>1
    <3>5. KeyReported(t, n, g, r)
      BY <1>1, <1>2, <3>3, <3>4, KeyStaysReported
    <3> QED
      BY <3>3, <3>4, <3>5
  <2>2. CASE l \notin s.matchLinks
    <3>1. l.ext = raw.id
      BY <1>1, <2>2 DEF OfSource
    <3>2. \A k \in OfSource(t.matchLinks) : k.ext = raw.id => k = l
      BY <1>1, <3>1 DEF MapperSessionHolds, TurnSchema, UniqueOn, OfSource
    <3>3. raw.id \notin {k.ext : k \in OfSource(s.matchLinks)}
      <4>1. \A k \in OfSource(s.matchLinks) : k \in OfSource(t.matchLinks) /\ k # l
        BY <2>2 DEF TurnTaken, OfSource
      <4> QED
        BY <3>2, <4>1
    <3>4. PICK n \in t.matches : LinkedTo(t, raw.id, n) /\ NaturalKey(n) = RowKey(t, raw)
      BY <3>3 DEF TurnTaken
    <3>5. n.id = l.match
      BY <3>2, <3>4 DEF LinkedTo
    <3>6. /\ n.season = t.season /\ n.matchday = raw.matchday
          /\ n.home = t.teamByExt[raw.home.id] /\ n.away = t.teamByExt[raw.away.id]
      BY <3>4 DEF NaturalKey, RowKey
    <3>7. \A e \in {raw.home.id, raw.away.id} :
            \E k \in OfSource(t.teamLinks) : k.ext = e /\ k.team = t.teamByExt[e]
      BY <1>1 DEF Known, MapperSessionHolds, DictionariesHold
    <3>8. KeyReported(t, n, f, raw)
      BY <1>1, <3>6, <3>7 DEF KeyReported
    <3> QED
      BY <3>1, <3>5, <3>8
  <2> QED
    BY <2>1, <2>2
<1> QED
  BY <1>3 DEF LinksReported

LEMMA TurnTouches ==
  ASSUME NEW s, NEW f, NEW n \in Nat, f.rows[n + 1].matchday # None,
         RunTouches(s, f, n), NEW t, TurnTaken(s, t, f.rows[n + 1])
  PROVE  RunTouches(t, f, n + 1)
<1> DEFINE raw == f.rows[n + 1]
<1>1. PICK touched \in t.matches :
        LinkedTo(t, raw.id, touched) /\ \A m \in t.matches : m # touched => m \in s.matches
  BY DEF TurnTaken
<1>2. /\ \A l \in t.matchLinks \ s.matchLinks : l.source = FootballData /\ l.ext = raw.id
      /\ OfSource(s.matchLinks) \subseteq OfSource(t.matchLinks)
  BY DEF TurnTaken, OfSource
<1>3. n + 1 \in 1..(n + 1) /\ \A i \in 1..n : i \in 1..(n + 1)
  OBVIOUS
<1> HIDE DEF raw
<1>4. ASSUME NEW m \in t.matches, m \notin db.matches
      PROVE  \E i \in 1..(n + 1) : f.rows[i].matchday # None /\ LinkedTo(t, f.rows[i].id, m)
  <2>1. CASE m = touched
    BY <1>1, <1>3, <2>1 DEF raw
  <2>2. CASE m # touched
    <3>1. PICK i \in 1..n : f.rows[i].matchday # None /\ LinkedTo(s, f.rows[i].id, m)
      BY <1>1, <1>4, <2>2 DEF RunTouches
    <3> QED
      BY <1>2, <1>3, <3>1 DEF LinkedTo
  <2> QED
    BY <2>1, <2>2
<1>5. ASSUME NEW l \in t.matchLinks, l \notin db.matchLinks
      PROVE  /\ l.source = FootballData
             /\ \E i \in 1..(n + 1) : f.rows[i].matchday # None /\ l.ext = f.rows[i].id
  <2>1. CASE l \in s.matchLinks
    BY <1>3, <1>5, <2>1 DEF RunTouches
  <2>2. CASE l \notin s.matchLinks
    BY <1>2, <1>3, <2>2 DEF raw
  <2> QED
    BY <2>1, <2>2
<1> QED
  BY <1>4, <1>5 DEF RunTouches

LEMMA StoreOpens ==
  ASSUME MapperInv, StoreInv, NEW f \in Feeds, Open(f)
  PROVE  StoreInv'
<1>0. f.rows # <<>>
  BY DEF Open
<1>1. Opened(session', f) /\ MapperSessionHolds(session')
  BY MapperOpens DEF MapperInv
<1>2. db' = db /\ feed' = f /\ pc' = "rows" /\ row' - 1 = 0
  BY DEF Open
<1>3. /\ YearsKept(db, session')
      /\ \E s \in session'.seasons : s.id = session'.season /\ s.year = f.year
  BY <1>0, <1>1, OpenedKeepsYears DEF MapperInv
<1>4. /\ session'.matches = db.matches /\ session'.matchLinks = db.matchLinks
      /\ session'.teamLinks = db.teamLinks
  BY <1>1, TableNames DEF Opened
<1>5. LinksReported(session')
  <2>1. ASSUME NEW m, NEW g, NEW r, KeyReported(db, m, g, r)
        PROVE  KeyReported(session', m, g, r)
    BY <1>3, <1>4, <2>1, KeyStaysReported
  <2>2. LinksReported(db)
    BY DEF StoreInv
  <2> QED
    BY <1>4, <2>1, <2>2 DEF LinksReported
<1>6. RunTouches(session, feed, row - 1)'
  BY <1>2, <1>4 DEF RunTouches
<1>7. LinksReported(db)'
  BY <1>2 DEF StoreInv
<1> QED
  BY <1>2, <1>3, <1>5, <1>6, <1>7 DEF StoreInv

LEMMA StoreNext == MapperInv /\ StoreInv /\ [Next]_vars => StoreInv'
<1> SUFFICES ASSUME MapperInv, StoreInv, [Next]_vars PROVE StoreInv'
  OBVIOUS
<1>1. ASSUME NEW f \in Feeds, Open(f) PROVE StoreInv'
  BY <1>1, StoreOpens
<1>2. ASSUME InLoop
      PROVE  /\ row - 1 \in Nat /\ (row - 1) + 1 = row /\ (row + 1) - 1 = row
             /\ feed \in Feeds /\ row \in DOMAIN feed.rows
             /\ MapperSessionHolds(session) /\ LinksReported(session)
             /\ YearsKept(db, session) /\ RunTouches(session, feed, row - 1)
             /\ \E s \in session.seasons : s.id = session.season /\ s.year = feed.year
  <2>1. Len(feed.rows) \in Nat /\ DOMAIN feed.rows = 1..Len(feed.rows)
    BY <1>2, BatchIsFinite DEF MapperInv, InLoop
  <2> QED
    BY <1>2, <2>1 DEF MapperInv, StoreInv, InLoop
<1>3. CASE SkipRow
  <2>1. InLoop
    BY <1>3 DEF SkipRow
  <2>2. \A i \in 1..(row - 1) : i \in 1..row
    BY <1>2, <2>1
  <2>3. RunTouches(session, feed, row)
    BY <1>2, <2>1, <2>2 DEF RunTouches
  <2>4. db' = db /\ feed' = feed /\ pc' = pc /\ session' = session /\ row' - 1 = row
    BY <1>2, <1>3, <2>1 DEF SkipRow
  <2>5. RunTouches(session, feed, row - 1)'
    BY <2>3, <2>4 DEF RunTouches
  <2> QED
    BY <1>2, <2>1, <2>4, <2>5 DEF StoreInv
<1>4. CASE ImportRow
  <2>1. InLoop /\ feed.rows[row].matchday # None
    BY <1>4 DEF ImportRow
  <2>2. TurnTaken(session, session', feed.rows[row])
    BY <1>2, <1>4, <2>1, TurnIsTaken DEF ImportRow
  <2>3. feed.rows[row] \in ReportedRows(feed)
    BY <1>2, <2>1 DEF ReportedRows, BatchRows
  <2>4. LinksReported(session')
    BY <1>2, <2>1, <2>2, <2>3, LinksStayReported
  <2>5. RunTouches(session', feed, row)
    BY <1>2, <2>1, <2>2, TurnTouches
  <2>6. db' = db /\ feed' = feed /\ pc' = pc /\ row' - 1 = row
    BY <1>2, <1>4, <2>1 DEF ImportRow
  <2>7. RunTouches(session, feed, row - 1)'
    BY <2>5, <2>6 DEF RunTouches
  <2>8. session'.seasons = session.seasons /\ session'.season = session.season
    BY <2>2 DEF TurnTaken
  <2>9. /\ YearsKept(db, session)'
        /\ \E s \in session'.seasons : s.id = session'.season /\ s.year = feed'.year
    BY <1>2, <2>1, <2>6, <2>8 DEF YearsKept
  <2>10. LinksReported(db)'
    BY <2>6 DEF StoreInv
  <2> QED
    BY <2>4, <2>7, <2>9, <2>10 DEF StoreInv
<1>5. CASE Commit
  <2>1. LinksReported(session)
    BY <1>5 DEF StoreInv, Commit
  <2>2. /\ db'.seasons = session.seasons /\ db'.teamLinks = session.teamLinks
        /\ db'.matches = session.matches /\ db'.matchLinks = session.matchLinks
    BY <1>5, MapperCommits, TableNames
  <2>3. LinksReported(db')
    BY <2>1, <2>2 DEF LinksReported, KeyReported
  <2> QED
    BY <1>5, <2>3 DEF Commit, StoreInv
<1>6. CASE \E f \in Feeds : NothingToImport(f)
  BY <1>6 DEF NothingToImport, StoreInv
<1>7. CASE RowRaises \/ Crash \/ GiveUp
  BY <1>7 DEF RowRaises, Crash, GiveUp, StoreInv
<1>8. CASE UNCHANGED vars
  BY <1>8 DEF vars, StoreInv, RunTouches
<1> QED
  BY <1>1, <1>3, <1>4, <1>5, <1>6, <1>7, <1>8 DEF Next, Done

\* What the reports are held to: a report has one raw match of an id, and an id
\* keeps its season, matchday and clubs from one report to the next.
IdsReportedOnce ==
  \A f \in Feeds : \A q, r \in ReportedRows(f) : q.id = r.id => q = r
IdsKeepFixtures ==
  \A f, g \in Feeds : \A q \in ReportedRows(f), r \in ReportedRows(g) :
    q.id = r.id => /\ f.year = g.year /\ q.matchday = r.matchday
                   /\ q.home.id = r.home.id /\ q.away.id = r.away.id

\* The name of the stadium a match row refers to is the one reported.
LEMMA VenueIsNamed ==
  ASSUME NEW d, Sound(d), NEW id, NEW raw, VenueIs(d, id, raw)
  PROVE  NameOf(d.venues, id) = IF Venueless(raw) THEN None ELSE Cleaned[raw]
<1>1. CASE Venueless(raw)
  BY <1>1 DEF VenueIs, NameOf
<1>2. CASE ~Venueless(raw)
  <2>1. PICK v \in d.venues : v.name = Cleaned[raw] /\ v.id = id
    BY <1>2 DEF VenueIs
  <2>2. /\ \A u, w \in d.venues : u.id = w.id => u = w
        /\ v.id \in Nat
    BY TableNames DEF Sound, KeysHold, UniqueOn, Ids, IdsOf
  <2>3. id # None
    BY <2>1, <2>2, NoneIsNoId
  <2> QED
    BY <1>2, <2>1, <2>2, <2>3 DEF NameOf, RowOf
<1> QED
  BY <1>1, <1>2

\* Rows under the same id keep their name.
LEMMA NamesAreKept ==
  ASSUME NEW d, Sound(d), NEW e, Sound(e), d.venues \subseteq e.venues,
         NEW m \in d.matches
  PROVE  NameOf(e.venues, m.venue) = NameOf(d.venues, m.venue)
<1>1. m.venue \in IdsOf(d.venues) \cup {None}
  BY DEF Sound, ReferencesHold
<1>2. CASE m.venue = None
  BY <1>2 DEF NameOf
<1>3. CASE m.venue # None
  <2>1. PICK v \in d.venues : v.id = m.venue
    BY <1>1, <1>3 DEF IdsOf
  <2>2. \A u, w \in e.venues : u.id = w.id => u = w
    BY TableNames DEF Sound, KeysHold, UniqueOn
  <2>3. RowOf(d.venues, m.venue) = v /\ RowOf(e.venues, m.venue) = v
    BY <2>1, <2>2 DEF RowOf
  <2> QED
    BY <1>3, <2>3 DEF NameOf
<1> QED
  BY <1>2, <1>3

\* A commit replaces what its report speaks of, and nothing else.
LEMMA CommitImports ==
  ASSUME MapperInv, ReimportInv, StoreInv, Commit, IdsReportedOnce, IdsKeepFixtures,
         NEW e, e = db'
  PROVE  /\ DOMAIN StoredFacts(e) = DOMAIN StoredFacts(db) \cup DOMAIN ReportOf(feed)
         /\ \A x \in DOMAIN ReportOf(feed) : StoredFacts(e)[x] = ReportOf(feed)[x]
         /\ \A x \in DOMAIN StoredFacts(db) :
              x \notin DOMAIN ReportOf(feed) => StoredFacts(e)[x] = StoredFacts(db)[x]
<1> DEFINE s == session
           n == Len(feed.rows)
<1>1. /\ Sound(db) /\ Sound(e) /\ \A t \in Tables : e[t] = s[t]
      /\ feed \in Feeds /\ n \in Nat /\ row - 1 = n /\ DOMAIN feed.rows = 1..n
  <2>1. feed \in Feeds /\ feed.rows # <<>> /\ row \in 1..(Len(feed.rows) + 1)
        /\ row > Len(feed.rows)
    BY DEF MapperInv, Commit
  <2>2. n \in Nat /\ DOMAIN feed.rows = 1..n
    BY <2>1, BatchIsFinite
  <2>3. row - 1 = n
    BY <2>1, <2>2
  <2> QED
    BY <2>1, <2>2, <2>3, MapperCommits DEF MapperInv
<1>2. /\ e.seasons = s.seasons /\ e.teamLinks = s.teamLinks /\ e.venues = s.venues
      /\ e.matches = s.matches /\ e.matchLinks = s.matchLinks
  BY <1>1, TableNames
<1> HIDE DEF n
<1>3. SaysRows(s, feed, n) /\ LinksReported(s) /\ YearsKept(db, s) /\ RunTouches(s, feed, n)
      /\ KeepsRows(s) /\ LinksReported(db)
  BY <1>1 DEF ReimportInv, StoreInv, MapperInv, Commit
<1> HIDE DEF s
<1>4. SaysRows(e, feed, n)
  BY <1>1, <1>3, SameRowsSay
<1>5. LinksReported(e) /\ YearsKept(db, e)
  BY <1>2, <1>3 DEF LinksReported, KeyReported, YearsKept
<1>6. /\ \A q, r \in db.matches : q.id = r.id => q = r
      /\ \A k, l \in OfSource(e.matchLinks) : (k.match = l.match \/ k.ext = l.ext) => k = l
      /\ OfSource(db.matchLinks) \subseteq OfSource(e.matchLinks)
  BY <1>1, <1>2, <1>3, TableNames
     DEF Sound, KeysHold, SchemaHolds, MatchLinksUnique, UniqueOn, OfSource, KeepsRows
<1>7. ASSUME NEW x
      PROVE  x \in DOMAIN ReportOf(feed) <=>
               \E i \in 1..n : feed.rows[i].matchday # None /\ feed.rows[i].id = x
  BY <1>1 DEF ReportOf, ReportedRows, BatchRows
<1>8. /\ DOMAIN StoredFacts(e) = {l.ext : l \in OfSource(e.matchLinks)}
      /\ DOMAIN StoredFacts(db) = {l.ext : l \in OfSource(db.matchLinks)}
  BY DEF StoredFacts
<1>9. DOMAIN StoredFacts(e) = DOMAIN StoredFacts(db) \cup DOMAIN ReportOf(feed)
  <2>1. ASSUME NEW x \in DOMAIN StoredFacts(e), x \notin DOMAIN StoredFacts(db)
        PROVE  x \in DOMAIN ReportOf(feed)
    <3>1. PICK l \in OfSource(e.matchLinks) : l.ext = x
      BY <1>8
    <3>2. l \notin db.matchLinks
      BY <1>8, <2>1, <3>1 DEF OfSource
    <3>3. l \in s.matchLinks
      BY <1>2 DEF OfSource
    <3>4. \E i \in 1..n : feed.rows[i].matchday # None /\ l.ext = feed.rows[i].id
      BY <1>3, <3>2, <3>3 DEF RunTouches
    <3> QED
      BY <1>7, <3>1, <3>4
  <2>2. ASSUME NEW x \in DOMAIN ReportOf(feed) PROVE x \in DOMAIN StoredFacts(e)
    <3>1. PICK i \in 1..n : feed.rows[i].matchday # None /\ feed.rows[i].id = x
      BY <1>7
    <3>2. Known(e, feed.rows[i])
      BY <1>4, <3>1 DEF SaysRows
    <3> QED
      BY <1>8, <3>1, <3>2 DEF Known
  <2>3. DOMAIN StoredFacts(db) \subseteq DOMAIN StoredFacts(e)
    <3>1. {l.ext : l \in OfSource(db.matchLinks)} \subseteq {l.ext : l \in OfSource(e.matchLinks)}
      BY <1>6
    <3> QED
      BY <1>8, <3>1
  <2> QED
    BY <2>1, <2>2, <2>3
<1>10. ASSUME NEW x \in DOMAIN ReportOf(feed)
       PROVE  StoredFacts(e)[x] = ReportOf(feed)[x]
  <2>1. PICK i \in 1..n : feed.rows[i].matchday # None /\ feed.rows[i].id = x
    BY <1>7
  <2>2. PICK j \in 1..n : LastOf(feed, n, j) /\ feed.rows[j].id = x
    BY <1>1, <2>1, LastExists
  <2> DEFINE raw == feed.rows[j]
  <2>3. raw \in ReportedRows(feed) /\ raw.id = x /\ Known(e, raw)
    BY <1>1, <1>4, <2>2 DEF ReportedRows, BatchRows, LastOf, SaysRows
  <2>4. (CHOOSE r \in ReportedRows(feed) : r.id = x) = raw
    BY <1>1, <2>3 DEF IdsReportedOnce
  <2>5. ReportOf(feed)[x] = Reported(feed, raw)
    BY <2>4 DEF ReportOf
  <2>6. PICK l \in OfSource(e.matchLinks) : l.ext = x
    BY <2>3 DEF Known
  <2>7. PICK f \in Feeds, m \in e.matches : \E r \in ReportedRows(f) :
          r.id = l.ext /\ m.id = l.match /\ KeyReported(e, m, f, r)
    BY <1>5 DEF LinksReported
  <2>8. PICK r \in ReportedRows(f) : r.id = l.ext /\ m.id = l.match /\ KeyReported(e, m, f, r)
    BY <2>7
  <2>9. StoredFacts(e)[x] = Stored(e, m, f, r)
    BY <1>1, <2>6, <2>8, StoredOfReported
  <2>10. /\ f.year = feed.year /\ r.matchday = raw.matchday
         /\ r.home.id = raw.home.id /\ r.away.id = raw.away.id
    BY <1>1, <2>3, <2>6, <2>8 DEF IdsKeepFixtures
  <2>11. SaysOf(e, m, raw)
    <3>1. LinkedTo(e, raw.id, m)
      BY <2>3, <2>6, <2>8 DEF LinkedTo
    <3> QED
      BY <1>4, <2>2, <3>1 DEF SaysRows
  <2>12. NameOf(e.venues, m.venue) = IF Venueless(raw.venue) THEN None ELSE Cleaned[raw.venue]
    BY <1>1, <2>11, VenueIsNamed DEF SaysOf
  <2>13. m.at = raw.at /\ m.status = MapStatus(raw.status) /\ m.score = raw.score
    BY <2>11 DEF SaysOf
  <2> HIDE DEF raw
  <2>14. Stored(e, m, f, r) = Reported(feed, raw)
    BY <2>10, <2>12, <2>13 DEF Stored, Reported
  <2> QED
    BY <2>5, <2>9, <2>14
<1>11. ASSUME NEW x \in DOMAIN StoredFacts(db), x \notin DOMAIN ReportOf(feed)
       PROVE  StoredFacts(e)[x] = StoredFacts(db)[x]
  <2>1. PICK l \in OfSource(db.matchLinks) : l.ext = x
    BY <1>8
  <2>2. PICK f \in Feeds, m \in db.matches : \E r \in ReportedRows(f) :
          r.id = l.ext /\ m.id = l.match /\ KeyReported(db, m, f, r)
    BY <1>3 DEF LinksReported
  <2>3. PICK r \in ReportedRows(f) : r.id = l.ext /\ m.id = l.match /\ KeyReported(db, m, f, r)
    BY <2>2
  <2>4. PICK o \in e.matches : o.id = m.id
    BY <1>2, <1>3 DEF KeepsRows
  <2>5. l \in OfSource(e.matchLinks)
    BY <1>6
  <2>6. o \in db.matches
    <3>1. CASE o \notin db.matches
      <4>1. PICK i \in 1..n : feed.rows[i].matchday # None /\ LinkedTo(s, feed.rows[i].id, o)
        BY <1>2, <1>3, <3>1 DEF RunTouches
      <4>2. PICK k \in OfSource(s.matchLinks) : k.ext = feed.rows[i].id /\ k.match = o.id
        BY <4>1 DEF LinkedTo
      <4>3. k \in OfSource(e.matchLinks)
        BY <1>2 DEF OfSource
      <4>4. k = l
        BY <1>6, <2>3, <2>4, <2>5, <4>2, <4>3
      <4> QED
        BY <1>7, <1>11, <2>1, <4>1, <4>2, <4>4
    <3> QED
      BY <3>1
  <2>7. o = m
    BY <1>6, <2>4, <2>6
  <2>8. m \in e.matches
    BY <2>7
  <2>9. KeyReported(e, m, f, r)
    BY <1>2, <1>3, <1>5, <2>3, KeyStaysReported DEF KeepsRows
  <2>10. StoredFacts(e)[x] = Stored(e, m, f, r)
    BY <1>1, <2>1, <2>3, <2>5, <2>8, <2>9, StoredOfReported
  <2>11. StoredFacts(db)[x] = Stored(db, m, f, r)
    BY <1>1, <2>1, <2>3, StoredOfReported
  <2>12. NameOf(e.venues, m.venue) = NameOf(db.venues, m.venue)
    BY <1>1, <1>2, <1>3, NamesAreKept DEF KeepsRows
  <2> QED
    BY <2>10, <2>11, <2>12 DEF Stored
<1> QED
  BY <1>9, <1>10, <1>11

\* The run's flushes, dictionaries, retries and rollbacks come to one atomic
\* replacement of what was last reported of each fixture.  The hypotheses: the
\* first run finds no fixture linked to the API, a report has one raw match of
\* an id, and an id stays that of the fixture it was given to.
THEOREM ReplacesWhatIsReported ==
  ASSUME \A d \in StartDBs : OfSource(d.matchLinks) = {}, IdsReportedOnce, IdsKeepFixtures
  PROVE  Spec => ImplementsStore
<1>1. Init => StoreInv /\ Store!Init
  <2> SUFFICES ASSUME Init PROVE StoreInv /\ Store!Init
    OBVIOUS
  <2>1. OfSource(db.matchLinks) = {} /\ pc = "idle"
    BY DEF Init
  <2>2. StoreInv
    BY <2>1 DEF StoreInv, LinksReported
  <2>3. StoredFacts(db) = <<>>
    BY <2>1 DEF StoredFacts
  <2> QED
    BY <2>2, <2>3 DEF Store!Init
<1>2. MapperInv /\ ReimportInv /\ StoreInv /\ [Next]_vars => [Store!Next]_(StoredFacts(db))
  <2> SUFFICES ASSUME MapperInv, ReimportInv, StoreInv, [Next]_vars
               PROVE  [Store!Next]_(StoredFacts(db))
    OBVIOUS
  <2>1. CASE Commit
    <3>1. feed \in Feeds
      BY <2>1 DEF MapperInv, Commit
    <3> DEFINE report == ReportOf(feed)
    <3>2. report \in FeedReports
      BY <3>1 DEF FeedReports
    <3>3. /\ DOMAIN StoredFacts(db') = DOMAIN StoredFacts(db) \cup DOMAIN report
          /\ \A x \in DOMAIN report : StoredFacts(db')[x] = report[x]
          /\ \A x \in DOMAIN StoredFacts(db) :
               x \notin DOMAIN report => StoredFacts(db')[x] = StoredFacts(db)[x]
      BY <2>1, CommitImports
    <3>4. StoredFacts(db') = [x \in DOMAIN StoredFacts(db') |-> StoredFacts(db')[x]]
      BY DEF StoredFacts
    <3> DEFINE F == StoredFacts(db')
               G == StoredFacts(db)
    <3> HIDE DEF F, G, report
    <3>5. F = [x \in DOMAIN G \cup DOMAIN report |-> IF x \in DOMAIN report THEN report[x] ELSE G[x]]
      BY <3>3, <3>4 DEF F, G
    <3>6. Store!Import(report)
      BY <3>5 DEF Store!Import, F, G
    <3> QED
      BY <3>2, <3>6 DEF Store!Next
  <2>2. CASE ~Commit
    <3>1. db' = db
      BY <2>2 DEF Next, Open, NothingToImport, SkipRow, ImportRow, RowRaises, Crash, GiveUp,
         Done, vars
    <3> QED
      BY <3>1
  <2> QED
    BY <2>1, <2>2
<1>3. Init => ReimportInv
  BY DEF Init, ReimportInv
<1> QED
  BY <1>1, <1>2, <1>3, MapperInvariant, ReimportNext, StoreNext, PTL
     DEF Spec, ImplementsStore, Store!Spec

-----------------------------------------------------------------------------
(* Finished seasons *)

SameFixture(q, r) ==
  q.matchday = r.matchday /\ q.home.id = r.home.id /\ q.away.id = r.away.id

\* A report of a season that it takes for finished has every fixture that any
\* report of the season has.
FinishedReportsAreWhole ==
  \A f, g \in Feeds : f.year = g.year /\ f.rows # <<>> /\ BatchStatus(f) = "finished" =>
    \A r \in ReportedRows(g) : \E q \in ReportedRows(f) : SameFixture(q, r)

\* What is still open was reported by the API.
OpenLinked(d) ==
  \A m \in d.matches : m.status \in NonTerminal =>
    \E l \in OfSource(d.matchLinks) : l.match = m.id

SeasonsElse(s, f) == \A q \in s.seasons : q.year # f.year => q \in db.seasons

OverInv ==
  /\ OpenLinked(db) /\ FinishedSeasonIsOver
  /\ pc = "rows" => OpenLinked(session) /\ SeasonsElse(session, feed)

LEMMA TurnKeepsOpenLinked ==
  ASSUME NEW s, OpenLinked(s), NEW raw, NEW t, TurnTaken(s, t, raw)
  PROVE  OpenLinked(t)
<1>1. PICK touched \in t.matches :
        LinkedTo(t, raw.id, touched) /\ \A m \in t.matches : m # touched => m \in s.matches
  BY DEF TurnTaken
<1>2. OfSource(s.matchLinks) \subseteq OfSource(t.matchLinks)
  BY DEF TurnTaken, OfSource
<1> QED
  BY <1>1, <1>2 DEF OpenLinked, LinkedTo

\* Two rows that were reported as one fixture are one.
LEMMA OneRowPerFixture ==
  ASSUME NEW d, Sound(d), NEW m \in d.matches, NEW n \in d.matches,
         NEW f, NEW r, KeyReported(d, m, f, r),
         NEW g, NEW q, KeyReported(d, n, g, q), f.year = g.year, SameFixture(q, r)
  PROVE  m = n
<1>1. /\ \A x, y \in d.seasons : x.year = y.year => x = y
      /\ \A x, y \in OfSource(d.teamLinks) : x.ext = y.ext => x = y
      /\ \A x, y \in d.matches : NaturalKey(x) = NaturalKey(y) => x = y
  BY DEF Sound, SchemaHolds, SeasonsUnique, TeamLinksUnique, MatchesUnique, UniqueOn, OfSource
<1>2. m.season = n.season /\ m.matchday = n.matchday /\ m.home = n.home /\ m.away = n.away
  BY <1>1 DEF KeyReported, SameFixture
<1> QED
  BY <1>1, <1>2 DEF NaturalKey

LEMMA CommitLeavesItOver ==
  ASSUME MapperInv, ReimportInv, StoreInv, OverInv, Commit,
         IdsKeepFixtures, FinishedReportsAreWhole
  PROVE  FinishedSeasonIsOver'
<1> DEFINE s == session
           n == Len(feed.rows)
           e == db'
<1>1. /\ Sound(db) /\ Sound(e) /\ \A t \in Tables : e[t] = s[t]
      /\ feed \in Feeds /\ feed.rows # <<>> /\ n \in Nat /\ row - 1 = n /\ DOMAIN feed.rows = 1..n
  <2>1. feed \in Feeds /\ feed.rows # <<>> /\ row \in 1..(Len(feed.rows) + 1)
        /\ row > Len(feed.rows)
    BY DEF MapperInv, Commit
  <2>2. n \in Nat /\ DOMAIN feed.rows = 1..n
    BY <2>1, BatchIsFinite
  <2>3. row - 1 = n
    BY <2>1, <2>2
  <2> QED
    BY <2>1, <2>2, <2>3, MapperCommits DEF MapperInv
<1>2. /\ e.seasons = s.seasons /\ e.teamLinks = s.teamLinks
      /\ e.matches = s.matches /\ e.matchLinks = s.matchLinks
  BY <1>1, TableNames
<1> HIDE DEF n
<1>3. /\ SaysRows(s, feed, n) /\ SaysSeason(s, feed) /\ LinksReported(s)
      /\ RunTouches(s, feed, n) /\ OpenLinked(s) /\ SeasonsElse(s, feed)
  BY <1>1 DEF ReimportInv, StoreInv, OverInv, Commit
<1> HIDE DEF s
<1>4. /\ SaysRows(e, feed, n) /\ SaysSeason(e, feed)
      /\ LinksReported(e) /\ OpenLinked(e)
  BY <1>1, <1>2, <1>3, SameRowsSay DEF LinksReported, KeyReported, OpenLinked
<1> HIDE DEF e
<1>5. ASSUME NEW m \in e.matches, RowOf(e.seasons, m.season).status = "finished",
             m.status \in NonTerminal
      PROVE  FALSE
  <2> DEFINE q == RowOf(e.seasons, m.season)
  <2>1. q \in e.seasons /\ q.id = m.season
    BY <1>1 DEF Sound, ReferencesHold, IdsOf, RowOf
  <2>2. PICK l \in OfSource(e.matchLinks) : l.match = m.id
    BY <1>4, <1>5 DEF OpenLinked
  <2>3. PICK g \in Feeds, o \in e.matches : \E r \in ReportedRows(g) :
          r.id = l.ext /\ o.id = l.match /\ KeyReported(e, o, g, r)
    BY <1>4 DEF LinksReported
  <2>4. PICK r \in ReportedRows(g) : r.id = l.ext /\ o.id = l.match /\ KeyReported(e, o, g, r)
    BY <2>3
  <2>5. o = m
    BY <1>1, <2>2, <2>4, TableNames DEF Sound, KeysHold, UniqueOn
  <2>6. /\ \A x, y \in e.seasons : (x.id = y.id \/ x.year = y.year) => x = y
        /\ \A x, y \in db.seasons : x.id = y.id => x = y
        /\ \A x, y \in OfSource(e.matchLinks) : (x.ext = y.ext \/ x.match = y.match) => x = y
    BY <1>1, TableNames
       DEF Sound, KeysHold, SchemaHolds, SeasonsUnique, MatchLinksUnique, UniqueOn, OfSource
  <2>7. q.year = g.year
    BY <2>1, <2>4, <2>5, <2>6 DEF KeyReported
  <2>8. q.status = "finished"
    BY <1>5
  <2> HIDE DEF q
  <2>9. CASE q.year = feed.year
    <3>1. BatchStatus(feed) = "finished"
      BY <1>4, <2>1, <2>6, <2>8, <2>9 DEF SaysSeason
    <3>2. PICK p \in ReportedRows(feed) : SameFixture(p, r)
      BY <1>1, <2>7, <2>9, <3>1 DEF FinishedReportsAreWhole
    <3>3. PICK i \in 1..n : feed.rows[i] = p /\ feed.rows[i].matchday # None
      BY <1>1 DEF ReportedRows, BatchRows
    <3>4. PICK j \in 1..n : LastOf(feed, n, j) /\ feed.rows[j].id = p.id
      BY <1>1, <3>3, LastExists
    <3> DEFINE raw == feed.rows[j]
    <3>5. raw \in ReportedRows(feed) /\ Known(e, raw) /\ raw \in BatchRows(feed)
      BY <1>1, <1>4, <3>4 DEF LastOf, ReportedRows, BatchRows, SaysRows
    <3>6. MapStatus(raw.status) \notin NonTerminal
      BY <3>1, <3>5 DEF BatchStatus
    <3> HIDE DEF raw
    <3>7. PICK k \in OfSource(e.matchLinks) : k.ext = p.id
      BY <3>4, <3>5 DEF Known, raw
    <3>8. PICK h \in Feeds, x \in e.matches : \E y \in ReportedRows(h) :
            y.id = k.ext /\ x.id = k.match /\ KeyReported(e, x, h, y)
      BY <1>4 DEF LinksReported
    <3>9. PICK y \in ReportedRows(h) : y.id = k.ext /\ x.id = k.match /\ KeyReported(e, x, h, y)
      BY <3>8
    <3>10. h.year = feed.year /\ SameFixture(y, p)
      BY <1>1, <3>7, <3>9 DEF IdsKeepFixtures, SameFixture
    <3>11. SameFixture(y, r) /\ g.year = h.year
      BY <2>7, <2>9, <3>2, <3>10 DEF SameFixture
    <3>12. m = x
      BY <1>1, <2>4, <2>5, <3>9, <3>11, OneRowPerFixture
    <3>13. LinkedTo(e, raw.id, m)
      BY <3>4, <3>7, <3>9, <3>12 DEF LinkedTo, raw
    <3>14. SaysOf(e, m, raw)
      BY <1>4, <3>4, <3>13 DEF SaysRows, raw
    <3> QED
      BY <1>5, <3>6, <3>14 DEF SaysOf
  <2>10. CASE q.year # feed.year
    <3>1. q \in db.seasons
      BY <1>2, <1>3, <2>1, <2>10 DEF SeasonsElse
    <3>2. m \in db.matches
      <4>1. CASE m \notin db.matches
        <5>1. PICK i \in 1..n : feed.rows[i].matchday # None /\ LinkedTo(s, feed.rows[i].id, m)
          BY <1>2, <1>3, <4>1 DEF RunTouches
        <5>2. PICK k \in OfSource(s.matchLinks) : k.ext = feed.rows[i].id /\ k.match = m.id
          BY <5>1 DEF LinkedTo
        <5>3. k = l
          BY <1>2, <2>2, <2>6, <5>2
        <5>4. feed.rows[i] \in ReportedRows(feed) /\ feed.rows[i].id = r.id
          BY <1>1, <2>4, <5>1, <5>2, <5>3 DEF ReportedRows, BatchRows
        <5>5. feed.year = g.year
          BY <1>1, <5>4 DEF IdsKeepFixtures
        <5> QED
          BY <2>7, <2>10, <5>5
      <4> QED
        BY <4>1
    <3>3. RowOf(db.seasons, m.season) = q
      BY <2>1, <2>6, <3>1 DEF RowOf
    <3>4. m.status \notin NonTerminal
      BY <2>8, <3>2, <3>3 DEF OverInv, FinishedSeasonIsOver
    <3> QED
      BY <1>5, <3>4
  <2> QED
    BY <2>9, <2>10
<1> QED
  BY <1>5 DEF FinishedSeasonIsOver, e

LEMMA OverNext ==
  ASSUME IdsKeepFixtures, FinishedReportsAreWhole
  PROVE  MapperInv /\ ReimportInv /\ StoreInv /\ OverInv /\ [Next]_vars => OverInv'
<1> SUFFICES ASSUME MapperInv, ReimportInv, StoreInv, OverInv, [Next]_vars PROVE OverInv'
  OBVIOUS
<1>1. ASSUME NEW f \in Feeds, Open(f) PROVE OverInv'
  <2>1. Opened(session', f)
    BY <1>1, MapperOpens DEF MapperInv
  <2>2. db' = db /\ feed' = f /\ f.rows # <<>>
    BY <1>1 DEF Open
  <2>3. session'.matches = db.matches /\ session'.matchLinks = db.matchLinks
    BY <2>1, TableNames DEF Opened
  <2>4. OpenLinked(session')
    BY <2>3 DEF OpenLinked, OverInv
  <2>5. SeasonsElse(session, feed)'
    <3>1. PICK season :
            /\ season = SeasonAfter(f, FirstFreeId(db))
            /\ session'.seasons = {r \in db.seasons : r.id # season.id} \cup {season}
      BY <2>1 DEF Opened
    <3>2. ColumnsHold(db)
      BY DEF MapperInv, Sound
    <3>3. season.year = f.year
      BY <2>2, <3>1, <3>2, SeasonOfBatch DEF SeasonRow
    <3> QED
      BY <2>2, <3>1, <3>3 DEF SeasonsElse
  <2> QED
    BY <2>2, <2>4, <2>5 DEF OverInv, FinishedSeasonIsOver
<1>2. CASE ImportRow
  <2>1. /\ TurnTaken(session, session', feed.rows[row])
        /\ db' = db /\ feed' = feed /\ pc = "rows"
    BY <1>2, TurnIsTaken DEF ImportRow, InLoop, MapperInv
  <2>2. OpenLinked(session')
    BY <2>1, TurnKeepsOpenLinked DEF OverInv
  <2>3. SeasonsElse(session, feed)'
    BY <2>1 DEF OverInv, SeasonsElse, TurnTaken
  <2> QED
    BY <2>1, <2>2, <2>3 DEF OverInv, FinishedSeasonIsOver
<1>3. CASE Commit
  <2>1. FinishedSeasonIsOver'
    BY <1>3, CommitLeavesItOver
  <2>2. db'.matches = session.matches /\ db'.matchLinks = session.matchLinks
    BY <1>3, MapperCommits, TableNames
  <2>3. OpenLinked(db')
    BY <1>3, <2>2 DEF Commit, OverInv, OpenLinked
  <2> QED
    BY <1>3, <2>1, <2>3 DEF Commit, OverInv
<1>4. CASE ~(\E f \in Feeds : Open(f)) /\ ~ImportRow /\ ~Commit
  <2>1. db' = db /\ (pc' = "rows" => pc = "rows" /\ session' = session /\ feed' = feed)
    BY <1>4 DEF Next, NothingToImport, SkipRow, RowRaises, Crash, GiveUp, Done, vars
  <2> QED
    BY <2>1 DEF OverInv, FinishedSeasonIsOver, SeasonsElse
<1> QED
  BY <1>1, <1>2, <1>3, <1>4

\* A season is marked finished only when none of its fixtures is still open.
\* The hypotheses: the first run finds settled fixtures alone, none of the API's
\* (the bootstrap leaves no others); an id stays that of the fixture it was given
\* to; a report of a finished season has all its fixtures.
THEOREM FinishedSeasonsAreOver ==
  ASSUME \A d \in StartDBs : /\ OfSource(d.matchLinks) = {}
                             /\ \A m \in d.matches : m.status \notin NonTerminal,
         IdsKeepFixtures, FinishedReportsAreWhole
  PROVE  Spec => []FinishedSeasonIsOver
<1>1. Init => ReimportInv /\ StoreInv /\ OverInv
  <2> SUFFICES ASSUME Init PROVE ReimportInv /\ StoreInv /\ OverInv
    OBVIOUS
  <2>1. /\ OfSource(db.matchLinks) = {} /\ pc = "idle" /\ last = None
        /\ \A m \in db.matches : m.status \notin NonTerminal
    BY DEF Init
  <2> QED
    BY <2>1 DEF ReimportInv, StoreInv, LinksReported, OverInv, OpenLinked, FinishedSeasonIsOver
<1>2. OverInv => FinishedSeasonIsOver
  BY DEF OverInv
<1> QED
  BY <1>1, <1>2, MapperInvariant, ReimportNext, StoreNext, OverNext, PTL DEF Spec
=============================================================================
