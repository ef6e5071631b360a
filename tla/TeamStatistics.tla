--------------------------- MODULE TeamStatistics ---------------------------
(***************************************************************************)
(* src/ingestion/api_football_ingest.py: what one entry of the provider's  *)
(* list of teams does to the session of an ingest.  A session is a view of *)
(* the database with the season of the run and the three dictionaries it   *)
(* made of the tables when it opened.                                      *)
(***************************************************************************)
EXTENDS CoreSchema

CONSTANTS Cleaned,   \* _clean_text, per raw text
          Lowered    \* str.lower, per cleaned text

\* Faulty variant: the links of the other provider.
OfOtherSource(links) == {l \in links : l.source = FootballData}

\* .where(TeamExternalId.source == SOURCE)
OfSource(links) == {l \in links : l.source = ApiFootball}

\* .where(TeamSeasonStatsRaw.season_id == season.id)
OfSeason(stats, season) == {r \in stats : r.season = season}

StatsKey(r) == <<r.team, r.season, r.source>>

\* The three dictionaries.
LinkedIds(links) == DictOf(links, LAMBDA l : l.ext, LAMBDA l : l.team)
FoldedIds(teams) == DictOf(teams, LAMBDA t : Lowered[t.name], LAMBDA t : t.id)
StatsIds(stats)  == DictOf(stats, StatsKey, LAMBDA r : r.id)

\* A session on database d for a season, whatever dictionaries it has read.
Sessions(d, season) ==
  {Joined([season |-> season.id, nextId |-> FirstFreeId(d),
           teamByExt |-> byExt, teamByName |-> byName, statsByKey |-> stats], d) :
     byExt \in LinkedIds(OfSource(d.teamLinks)), byName \in FoldedIds(d.teams),
     stats \in StatsIds(OfSeason(d.stats, season.id))}

\* A name the provider leaves out is the empty text.
ApiName(api) == IF api.name = None THEN "" ELSE Cleaned[api.name]

\* No link and no name leads to a team: a new one is flushed.
IsUnmatched(s, api) ==
  api.id \notin DOMAIN s.teamByExt /\ Lowered[ApiName(api)] \notin DOMAIN s.teamByName

\* Faulty variant: the new team is not entered in the dictionary of names.
ResolveTeamUnnamed(s, api) ==
  IF api.id \in DOMAIN s.teamByExt THEN s
  ELSE LET key  == Lowered[ApiName(api)]
           team == IF IsUnmatched(s, api) THEN s.nextId ELSE s.teamByName[key]
       IN [s EXCEPT
             !.teams = IF IsUnmatched(s, api)
                         THEN @ \cup {[id |-> team, name |-> ApiName(api)]} ELSE @,
             !.nextId = @ + 2,
             !.teamLinks = @ \cup {[id |-> s.nextId + 1, team |-> team,
                                   source |-> ApiFootball, ext |-> api.id]},
             !.teamByExt = Put(@, api.id, team)]

\* _resolve_team: by external id, else by folded name, else a new team; found
\* by name or new, it is linked to the external id.
ResolveTeam(s, api) ==
  IF api.id \in DOMAIN s.teamByExt THEN s
  ELSE LET key  == Lowered[ApiName(api)]
           team == IF IsUnmatched(s, api) THEN s.nextId ELSE s.teamByName[key]
       IN [s EXCEPT
             !.teams = IF IsUnmatched(s, api)
                         THEN @ \cup {[id |-> team, name |-> ApiName(api)]} ELSE @,
             !.nextId = @ + 2,
             !.teamByName = Put(@, key, team),
             !.teamLinks = @ \cup {[id |-> s.nextId + 1, team |-> team,
                                   source |-> ApiFootball, ext |-> api.id]},
             !.teamByExt = Put(@, api.id, team)]

\* The statistics of a team in the season: replaced in place, or added.
UpsertStats(s, api, payload) ==
  LET team == s.teamByExt[api.id]
      key  == <<team, s.season, ApiFootball>>
  IN IF key \in DOMAIN s.statsByKey
       THEN [s EXCEPT !.stats = {IF r.id = s.statsByKey[key]
                                   THEN [r EXCEPT !.payload = payload] ELSE r : r \in @}]
       ELSE [s EXCEPT
               !.stats = @ \cup {[id |-> s.nextId, team |-> team, season |-> s.season,
                                 source |-> ApiFootball, payload |-> payload]},
               !.nextId = @ + 1,
               !.statsByKey = Put(@, key, s.nextId)]
=============================================================================
