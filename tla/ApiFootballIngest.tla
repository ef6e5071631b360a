------------------------- MODULE ApiFootballIngest -------------------------
(***************************************************************************)
(* src/ingestion/api_football_ingest.py: ingest_team_season_stats, one     *)
(* process after another, on the client and the quota of                   *)
(* APIFootballClient.  A run asks for the teams of a season, opens one     *)
(* transaction, and asks for the statistics of team after team inside it.  *)
(*                                                                         *)
(* `session` is the transaction's view.  Links wait in it unflushed: only  *)
(* a new team's flush and the commit show the view to the constraints.     *)
(***************************************************************************)
EXTENDS APIFootballClient, TeamStatistics

CONSTANTS Listings,  \* lists of teams the provider may answer with: [id, name]
          Payloads,  \* statistics it may answer with
          Years,     \* seasons a run may be asked for
          StartDBs   \* databases the first run may find

ASSUME IngestAssumption ==
  /\ \A d \in StartDBs : Sound(d)
  /\ \A l \in Listings : l \in Seq({l[i] : i \in DOMAIN l})

VARIABLES db,       \* the committed rows
          session,  \* the transaction's view
          stage,    \* where ingest_team_season_stats is
          year,     \* season_year
          listing,  \* raw_teams
          entry,    \* the entry the loop is at
          began,    \* history: the day the run began, and what the provider
                    \* would then grant it for certain
          fetched   \* history: the statistics answered to this run, by team

transaction == <<session, listing, entry, fetched>>
ingestVars == <<vars, db, transaction, stage, year, began>>

\* How a run ends: normally, or with the exception that ended it.
Failures == {"refused", "client error", "no season", "key error", "integrity error"}
Over == Failures \cup {"ended"}
InTransaction == {"entries", "resolved", "stats"}
Stages == Over \cup InTransaction \cup {"start", "teams"}

NoSession == [season |-> None]
Rows(s) == [t \in Tables |-> s[t]]

\* What is left even if every call given up before is still counted.
Beginning == [day |-> day, left |-> serverLeft - astray]

NoTransaction == /\ session' = NoSession /\ listing' = <<>>
                 /\ entry' = 1 /\ fetched' = <<>>

IngestInit ==
  /\ Init
  /\ db \in StartDBs
  /\ session = NoSession /\ listing = <<>> /\ entry = 1 /\ fetched = <<>>
  /\ stage = "start"
  /\ year \in Years
  /\ began = Beginning

-----------------------------------------------------------------------------
(* The list of teams *)

AskTeams ==
  /\ stage = "start"
  /\ StartRequest
  /\ stage' = "teams"
  /\ UNCHANGED <<db, transaction, year, began>>

\* A call and its retries, while a request is under way.
OnCall ==
  /\ stage \in {"teams", "stats"}
  /\ Call \/ Retry
  /\ UNCHANGED <<db, transaction, stage, year, began>>

\* An answer the client returns.
Answered == Receive /\ answer.verdict = "payload"

NoTeams ==
  /\ stage = "teams" /\ Answered
  /\ <<>> \in Listings
  /\ stage' = "ended"
  /\ UNCHANGED <<db, transaction, year, began>>

SeasonRows == {s \in db.seasons : s.year = year}

\* DataValidationError, once a call has been spent.
SeasonMissing ==
  /\ stage = "teams" /\ Answered
  /\ SeasonRows = {}
  /\ Listings # {<<>>}
  /\ stage' = "no season"
  /\ UNCHANGED <<db, transaction, year, began>>

OpenSession ==
  /\ stage = "teams" /\ Answered
  /\ \E season \in SeasonRows : session' \in Sessions(db, season)
  /\ listing' \in Listings \ {<<>>}
  /\ entry' = 1 /\ fetched' = <<>>
  /\ stage' = "entries"
  /\ UNCHANGED <<db, year, began>>

-----------------------------------------------------------------------------
(* The loop over the entries *)

Api == listing[entry]
InLoop == stage = "entries" /\ entry <= Len(listing)

\* Faulty variant: the transaction is left open.
FailWithoutRollback(reason) ==
  /\ stage' = reason
  /\ UNCHANGED <<vars, db, transaction, year, began>>

\* An exception of the ingest itself leaves the with block.
Fail(reason) ==
  /\ stage' = reason
  /\ NoTransaction
  /\ UNCHANGED <<vars, db, year, began>>

\* api_team["id"] of an entry without one.
NoId == InLoop /\ Api.id = None /\ Fail("key error")

\* The view a new team's flush sends: what is pending, and the team.
FlushRaises ==
  /\ InLoop
  /\ Api.id # None
  /\ IsUnmatched(session, Api)
  /\ ~SchemaHolds(session)
  /\ Fail("integrity error")

Resolve ==
  /\ InLoop
  /\ Api.id # None
  /\ IsUnmatched(session, Api) => SchemaHolds(session)
  /\ session' = ResolveTeam(session, Api)
  /\ stage' = "resolved"
  /\ UNCHANGED <<vars, db, year, listing, entry, fetched, began>>

AskStatistics ==
  /\ stage = "resolved"
  /\ StartRequest
  /\ stage' = "stats"
  /\ UNCHANGED <<db, transaction, year, began>>

NoStatistics ==
  /\ stage = "stats" /\ Answered
  /\ entry' = entry + 1
  /\ stage' = "entries"
  /\ UNCHANGED <<db, session, year, listing, began, fetched>>

StoreStatistics ==
  /\ stage = "stats" /\ Answered
  /\ \E payload \in Payloads :
       /\ session' = UpsertStats(session, Api, payload)
       /\ fetched' = [t \in DOMAIN fetched \cup {Api.id} |->
                        IF t = Api.id THEN payload ELSE fetched[t]]
  /\ entry' = entry + 1
  /\ stage' = "entries"
  /\ UNCHANGED <<db, year, listing, began>>

\* The quota guard refuses a request: the exception leaves the with block,
\* which rolls back.
Refused ==
  /\ stage \in {"start", "resolved"}
  /\ Refuse
  /\ stage' = "refused"
  /\ NoTransaction
  /\ UNCHANGED <<db, year, began>>

\* The client gives a request up, or the body of the answer is an error.
RequestFails ==
  /\ stage \in {"teams", "stats"}
  /\ Raise \/ (Receive /\ answer.verdict # "payload")
  /\ stage' = "client error"
  /\ NoTransaction
  /\ UNCHANGED <<db, year, began>>

\* Faulty variant: a team's statistics are committed as they come.
CommitEarly ==
  /\ stage = "entries"
  /\ entry > 1
  /\ SchemaHolds(session)
  /\ db' = Rows(session)
  /\ stage' = IF entry > Len(listing) THEN "ended" ELSE stage
  /\ IF entry > Len(listing) THEN NoTransaction ELSE UNCHANGED transaction
  /\ UNCHANGED <<vars, year, began>>

Commit ==
  /\ stage = "entries"
  /\ entry > Len(listing)
  /\ SchemaHolds(session)
  /\ db' = Rows(session)
  /\ stage' = "ended"
  /\ NoTransaction
  /\ UNCHANGED <<vars, year, began>>

CommitRaises ==
  /\ stage = "entries"
  /\ entry > Len(listing)
  /\ ~SchemaHolds(session)
  /\ Fail("integrity error")

-----------------------------------------------------------------------------
(* The process *)

\* The process has ended or is killed, and the next one is started; the server
\* rolls an open transaction back.
NewRun ==
  /\ NewClient
  /\ year' \in Years
  /\ stage' = "start"
  /\ NoTransaction
  /\ began' = Beginning
  /\ UNCHANGED db

MidnightPasses ==
  Midnight /\ UNCHANGED <<db, transaction, stage, year, began>>

\* The provider counts a call that was given up.
CountedLate ==
  CountLate /\ UNCHANGED <<db, transaction, stage, year, began>>

AllDone ==
  /\ stage \in Over /\ clients = MaxClients /\ day = LastDay
  /\ UNCHANGED ingestVars

IngestStep ==
  \/ AskTeams \/ OnCall \/ NoTeams \/ SeasonMissing \/ OpenSession
  \/ NoId \/ FlushRaises \/ Resolve \/ AskStatistics
  \/ NoStatistics \/ StoreStatistics
  \/ Refused \/ RequestFails \/ Commit \/ CommitRaises

IngestNext == IngestStep \/ CountedLate \/ NewRun \/ MidnightPasses \/ AllDone

IngestSpec == IngestInit /\ [][IngestNext]_ingestVars

-----------------------------------------------------------------------------
(* Properties *)

\* Committed data satisfy models.py, and a transaction is open in its stages.
IngestTypeOK ==
  /\ TypeOK
  /\ Sound(db)
  /\ stage \in Stages /\ year \in Years
  /\ listing \in Listings \cup {<<>>}
  /\ session # NoSession <=> stage \in InTransaction
  /\ entry \in 1..(Len(listing) + 1)
  /\ stage \in {"resolved", "stats"} => entry <= Len(listing)
  /\ stage \in {"teams", "stats"} <=> pc \in {"limiter", "answered"}

\* The statistics on record, under the provider's ids.
Owner(d, team) == (CHOOSE l \in OfSource(d.teamLinks) : l.team = team).ext
StatsOf(d) ==
  [k \in {<<r.season, Owner(d, r.team)>> : r \in d.stats} |->
     (CHOOSE r \in d.stats : <<r.season, Owner(d, r.team)>> = k).payload]

\* "fetches and upserts each team's aggregated season statistics": whatever
\* failed before, a run that writes at all writes, in one step, the statistics
\* of every team it was answered for in the last answer's form, leaves the
\* others on record alone, and has gone through the whole list.
CommitsWhatItFetched ==
  [][db' # db \/ (stage = "entries" /\ stage' = "ended") =>
       /\ entry = Len(listing) + 1
       /\ \A i \in DOMAIN listing :
            \E l \in OfSource(db'.teamLinks) : l.ext = listing[i].id
       /\ StatsOf(db') =
            [k \in DOMAIN StatsOf(db) \cup {<<session.season, t>> : t \in DOMAIN fetched} |->
               IF k[1] = session.season /\ k[2] \in DOMAIN fetched
                 THEN fetched[k[2]] ELSE StatsOf(db)[k]]]_ingestVars

\* "case-insensitive, trimmed": no run adds a second row for a club that the
\* bootstrap or the mapper has stored in some spelling, nor two for one club
\* of its own list.
NoTwinIsAdded ==
  [][\A t \in db'.teams \ db.teams, u \in db'.teams :
       Lowered[t.name] = Lowered[u.name] => t = u]_ingestVars

\* Names come to links only as long as they name one club each.  Two ids of
\* one folded name, both in the list or one of them linked before, are two
\* links of one team and source; nothing else makes the constraints refuse a
\* run, and such a list never comes to be stored.  The name that counts is the
\* one an id comes with first.
Namesakes ==
  LET links == OfSource(db.teamLinks)
      unlinked == {i \in DOMAIN listing :
                     /\ listing[i].id \notin {l.ext : l \in links}
                     /\ \A j \in 1..(i - 1) : listing[j].id # listing[i].id}
      Name(i) == Lowered[ApiName(listing[i])]
  IN \/ \E i, j \in unlinked : i # j /\ Name(i) = Name(j)
     \/ \E i \in unlinked, l \in links :
          Name(i) \in DOMAIN session.teamByName /\ session.teamByName[Name(i)] = l.team

RefusedOnlyForNamesakes ==
  [][/\ stage' = "integrity error" /\ stage = "entries" => Namesakes
     /\ db' # db => ~Namesakes]_ingestVars

\* What a run needs to get through: the buffer and MaxAttempts calls for every
\* request it has had answered.  On the day it began it is refused only if it
\* began with less, so a league fits in a day whenever the quota says so.
RefusedOnlyWhenShort ==
  [][stage' = "refused" /\ stage # "refused" /\ day = began.day =>
       began.left < SafetyBuffer +
         MaxAttempts * (IF stage = "start" THEN 0 ELSE entry)]_ingestVars
=============================================================================
