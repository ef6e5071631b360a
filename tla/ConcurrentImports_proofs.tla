---------------------- MODULE ConcurrentImports_proofs ----------------------
(***************************************************************************)
(* Theorems of ConcurrentImports, for any jobs, any sound database they    *)
(* may find and any number of runs: whatever interleaves, what has been    *)
(* committed satisfies models.py; and a run that no other run disturbs is  *)
(* not refused.                                                            *)
(***************************************************************************)
EXTENDS ConcurrentImports, CoreSchema_proofs, SequenceTheorems

-----------------------------------------------------------------------------
(* What no UPDATE reaches *)

\* The columns an importer overwrites in a row that exists, and what is left.
Mutable(t) ==
  CASE t = "seasons" -> {"start", "end", "status"}
    [] t = "matches" -> {"at", "venue", "status", "score"}
    [] OTHER         -> {}

Fixed(t, r) ==
  CASE t = "seasons" -> <<r.year>>
    [] t = "matches" -> NaturalKey(r)
    [] OTHER         -> r

\* Two versions of one row.
Alike(t, q, r) == q.id = r.id /\ Fixed(t, q) = Fixed(t, r)

\* The rows a row refers to are among those known.
RefersInto(t, r, known) ==
  CASE t = "teamLinks"  -> r.team \in known["teams"]
    [] t = "matchLinks" -> r.match \in known["matches"]
    [] t = "matches"    -> /\ r.season \in known["seasons"]
                           /\ r.home \in known["teams"] /\ r.away \in known["teams"]
                           /\ r.venue \in known["venues"] \cup {None}
    [] t \in {"seasonTeams", "stats"} ->
         r.season \in known["seasons"] /\ r.team \in known["teams"]
    [] OTHER -> TRUE

Known(d, s) == [t \in Tables |-> IdsOf(d[t]) \cup IdsOf(s[t])]

-----------------------------------------------------------------------------
(* The rows a run works on *)

\* In a session that has given out the ids from first up to, not including,
\* next: every row is one of those, or is a version of a committed one; and what
\* it refers to is committed or in the session.
RowsRight(d, first, next, s) ==
  /\ \A t \in Tables :
       /\ UniqueOn(s[t], LAMBDA r : r.id)
       /\ \A r \in s[t] :
            /\ r.id \in first..(next - 1) \/ \E q \in d[t] : Alike(t, q, r)
            /\ RefersInto(t, r, Known(d, s))
  /\ ColumnsHold(s)

Texts(rows) == {r.name : r \in rows}
Folded(kind, name) == IF kind = "mapper" THEN Lowered[name] ELSE name

\* The names of the dictionaries are those of the rows, and every id they hold
\* is known.
MapperDicts(d, s) ==
  /\ DOMAIN s = Tables \cup {"open", "nextId", "season", "teamByExt", "teamByName",
                             "venueByName", "matchByExt", "matchByKey"}
  /\ s.season \in IdsOf(s.seasons)
  /\ \A e \in DOMAIN s.teamByExt : s.teamByExt[e] \in Known(d, s)["teams"]
  /\ DOMAIN s.teamByName = {Lowered[n] : n \in Texts(s.teams)}
  /\ \A n \in DOMAIN s.teamByName : s.teamByName[n] \in IdsOf(s.teams)
  /\ DOMAIN s.venueByName = Texts(s.venues)
  /\ \A n \in DOMAIN s.venueByName : s.venueByName[n] \in IdsOf(s.venues)
  /\ \A e \in DOMAIN s.matchByExt : s.matchByExt[e] \in Known(d, s)["matches"]
  /\ \A k \in DOMAIN s.matchByKey : s.matchByKey[k] \in Known(d, s)["matches"]

BootstrapDicts(s) ==
  /\ DOMAIN s = Tables \cup {"open", "nextId", "seasonByYear", "teamByName", "venueByName",
                             "matchKeys", "seasonTeamKeys"}
  /\ DOMAIN s.seasonByYear = {q.year : q \in s.seasons}
  /\ \A y \in DOMAIN s.seasonByYear : s.seasonByYear[y] \in IdsOf(s.seasons)
  /\ DOMAIN s.teamByName = Texts(s.teams)
  /\ \A n \in DOMAIN s.teamByName : s.teamByName[n] \in IdsOf(s.teams)
  /\ DOMAIN s.venueByName = Texts(s.venues)
  /\ \A n \in DOMAIN s.venueByName : s.venueByName[n] \in IdsOf(s.venues)

Dicts(d, kind, s) == IF kind = "mapper" THEN MapperDicts(d, s) ELSE BootstrapDicts(s)

\* A team or a venue that the run has added has a name no other in the session
\* has; a team that a mapper has added is linked to the id that came with it.
Sides(job) == UNION {{job.rows[i].home, job.rows[i].away} : i \in DOMAIN job.rows}
Links(l, t, job) ==
  \E side \in Sides(job) : /\ t.name = Cleaned[side.name]
                           /\ l.team = t.id /\ l.source = FootballData /\ l.ext = side.id

NamesApart(job, first, s) ==
  LET own(r) == r.id \in first..(s.nextId - 1)
  IN /\ \A r, q \in s.teams :
          own(r) /\ r # q => Folded(job.kind, r.name) # Folded(job.kind, q.name)
     /\ \A r, q \in s.venues : own(r) /\ r # q => r.name # q.name
     /\ job.kind = "mapper" =>
          \A t \in s.teams : own(t) => \E l \in s.teamLinks : own(l) /\ Links(l, t, job)

\* A session in the loop.
SessionRight(d, job, first, s) ==
  /\ Dicts(d, job.kind, s)
  /\ s.nextId \in Nat
  /\ RowsRight(d, first, s.nextId, s)
  /\ NamesApart(job, first, s)

\* One session after the other, when some rows were changed and some added.
RowsMoved(s, u) ==
  /\ s.nextId \in Nat /\ u.nextId \in Nat /\ s.nextId <= u.nextId
  /\ \A t \in Tables :
       /\ \A r \in s[t] : \E q \in u[t] : Alike(t, r, q)
       /\ \A q \in u[t] : (\E r \in s[t] : Alike(t, r, q)) \/ q.id \in s.nextId..(u.nextId - 1)

-----------------------------------------------------------------------------
(* A run *)

InLoopPhase(r) == r.pc \in {"rows", "closing"}

First(r) == FirstId(r.no)
Base(r)  == First(r) + (IF r.job.kind = "mapper" THEN 1 ELSE 0)
NextOf(r) == IF InLoopPhase(r) THEN r.session.nextId ELSE Base(r)
OwnIds(r) == First(r)..(NextOf(r) - 1)

\* What a run is called by, and where it stands.
Standing(r, how) ==
  /\ DOMAIN r = {"pc", "no", "job", "step", "row", "session", "flushed", "queue", "sent"}
  /\ r.pc \in {"reading", "read", "rows", "closing"}
  /\ r.job \in Jobs
  /\ r.no \in DOMAIN how /\ how[r.no] = [kind |-> r.job.kind, how |-> "open"]
  /\ r.step \in Nat /\ 1 <= r.step
  /\ r.pc = "reading" => r.step <= Len(Plan(r.job.kind))
  /\ r.pc = "rows" => r.step <= Lookups(r.job.kind)
  /\ r.pc \in {"read", "closing"} => r.step = 1
  /\ r.row \in 1..(Len(r.job.rows) + 1)
  /\ ~InLoopPhase(r) => r.row = 1
  /\ r.pc = "rows" /\ r.step > 1 =>
       /\ r.row <= Len(r.job.rows)
       /\ ~(r.job.kind = "mapper" /\ r.job.rows[r.row].matchday = None)

\* The ids a run takes stay within those set aside for it.
WithinIds(r) ==
  InLoopPhase(r) =>
    /\ r.session.nextId \in Nat
    /\ Base(r) <= r.session.nextId
    /\ r.session.nextId <= First(r) + 1 + IdsPerTurn * (r.row - 1) + 2 * (r.step - 1)

\* The lookups of the turn before the next have found what they look for.
FoundSoFar(r) ==
  r.pc = "rows" /\ r.job.kind = "mapper" /\ r.row <= Len(r.job.rows) =>
    LET raw == r.job.rows[r.row]
    IN /\ r.step > 1 => raw.home.id \in DOMAIN r.session.teamByExt
       /\ r.step > 2 => raw.away.id \in DOMAIN r.session.teamByExt
       /\ r.step > 3 => Mapper!Venueless(raw.venue)
                        \/ Cleaned[raw.venue] \in DOMAIN r.session.venueByName

\* While it reads, a run knows committed rows and, a mapper, its season.
ReadSoFar(d, r) ==
  /\ DOMAIN r.session = Tables
  /\ RowsRight(d, First(r), Base(r), r.session)
  /\ \A t \in Tables \ {"seasons"} : \A x \in r.session[t] : x.id \notin OwnIds(r)
  /\ r.pc = "reading" /\ r.step = 1 => r.session = EmptyDB
  /\ r.job.kind = "mapper" /\ ~(r.pc = "reading" /\ r.step = 1) =>
       \E s \in r.session.seasons : s.year = r.job.year

\* No importer of fixtures touches team_season_stats.
Working(d, r) ==
  /\ r.session["stats"] = {}
  /\ IF InLoopPhase(r) THEN SessionRight(d, r.job, First(r), r.session) ELSE ReadSoFar(d, r)

\* The rows as of the last flush.
FlushRight(r) ==
  /\ \A t \in Tables :
       /\ UniqueOn(r.flushed[t], LAMBDA x : x.id)
       /\ \A x \in r.flushed[t] : \E y \in r.session[t] : Alike(t, x, y)
       /\ \A y \in r.session[t] : y.id \in IdsOf(r.flushed[t]) \/ y.id \in OwnIds(r)
  /\ ColumnsHold(r.flushed)
  /\ r.pc # "rows" => \A t \in Tables : r.flushed[t] = r.session[t]

-----------------------------------------------------------------------------
(* The statements of a run *)

\* The columns of one row; ColumnsHold of all.
Shaped(t, r) ==
  CASE t = "seasons" -> /\ r = [id |-> r.id, year |-> r.year, start |-> r.start,
                                end |-> r.end, status |-> r.status]
                        /\ r.start \in Int /\ r.end \in Int
    [] t = "matches" -> r = [id |-> r.id, season |-> r.season, matchday |-> r.matchday,
                             home |-> r.home, away |-> r.away, at |-> r.at,
                             venue |-> r.venue, status |-> r.status, score |-> r.score]
    [] t = "stats"   -> r = [id |-> r.id, team |-> r.team, season |-> r.season,
                             source |-> r.source, payload |-> r.payload]
    [] OTHER         -> TRUE

SentOf(r) == {r.sent[i] : i \in DOMAIN r.sent}
AllOf(r)  == r.queue \cup SentOf(r)

InsertRight(d, r, st) ==
  /\ st.id = st.columns.id /\ st.id \in OwnIds(r)
  /\ \E x \in r.flushed[st.table] : Alike(st.table, x, st.columns)
  /\ RefersInto(st.table, st.columns, Known(d, r.flushed))
  /\ Shaped(st.table, st.columns)

UpdateRight(d, r, st) ==
  /\ st.table \in {"seasons", "matches"} /\ DOMAIN st.columns \subseteq Mutable(st.table)
  /\ "venue" \in DOMAIN st.columns =>
       st.columns["venue"] \in Known(d, r.flushed)["venues"] \cup {None}
  /\ \A c \in {"start", "end"} : c \in DOMAIN st.columns => st.columns[c] \in Int

StatementsRight(d, r) ==
  /\ r.sent \in Seq(SentOf(r))
  /\ \A st \in AllOf(r) :
       /\ st.table \in Tables \ {"stats"}
       /\ st.insert \in BOOLEAN
       /\ st.insert => InsertRight(d, r, st)
       /\ ~st.insert => UpdateRight(d, r, st)
  /\ \A st, other \in AllOf(r) :
       st.insert /\ other.insert /\ st.table = other.table /\ st.id = other.id => st = other
  /\ \A t \in Tables : \A x \in r.flushed[t] :
       x.id \in OwnIds(r) => \E st \in AllOf(r) : st.insert /\ st.table = t /\ st.id = x.id

Clash(st, other) ==
  /\ st.insert /\ other.insert /\ st.table = other.table
  /\ Keys(st.table, st.columns) \cap Keys(st.table, other.columns) # {}

\* What was sent got past the unique indexes.
SentApart(d, r) ==
  /\ \A st \in SentOf(r) : st.insert =>
       /\ \A x \in d[st.table] : Keys(st.table, x) \cap Keys(st.table, st.columns) = {}
       /\ st.table = "matches" => st.columns.home # st.columns.away
  /\ \A st, other \in SentOf(r) : st # other => ~Clash(st, other)

-----------------------------------------------------------------------------
(* The invariant *)

\* The run has selected the table.
HasRead(r, t) ==
  r.pc = "reading" => \E i \in 1..(r.step - 1) : Plan(r.job.kind)[i] = t

\* A team or a venue that a run has not seen was committed while it was open.
UnseenOverlap(d, pairs, r) ==
  \A t \in {"teams", "venues"} : HasRead(r, t) =>
    \A q \in d[t] : q.id \in IdsOf(r.session[t]) \/ {RunOf(q.id), r.no} \in pairs

RunRight(d, how, pairs, r) ==
  /\ Standing(r, how) /\ WithinIds(r) /\ FoundSoFar(r)
  /\ Working(d, r) /\ FlushRight(r)
  /\ StatementsRight(d, r) /\ SentApart(d, r)
  /\ UnseenOverlap(d, pairs, r)

\* The committed rows: sound, and each with the id of a run that has committed.
CommittedRun(how, i) == i \in DOMAIN how /\ how[i].how = "committed"

DbRight(d, how) ==
  /\ DOMAIN d = Tables
  /\ \A t \in Tables : UniqueOn(d[t], LAMBDA r : r.id)
  /\ \A t \in Tables : \A r \in d[t] :
       /\ r.id \in Nat
       /\ RunOf(r.id) = 0 \/ CommittedRun(how, RunOf(r.id))
  /\ ColumnsHold(d) /\ SchemaHolds(d) /\ ReferencesHold(d)

OpenTogether ==
  \A v, w \in Workers : v # w /\ Open(v) /\ Open(w) =>
    run[v].no # run[w].no /\ {run[v].no, run[w].no} \in overlaps

FateRight ==
  /\ fate \in Seq([kind : {"mapper", "bootstrap"},
                   how : {"open", "committed", "refused", "deadlocked", "crashed"}])
  /\ Len(fate) <= MaxRuns
  /\ overlaps \subseteq {{i, j} : i, j \in DOMAIN fate}
  /\ DOMAIN run = Workers
  /\ \A w \in Workers : ~Open(w) => run[w] = NoRun
  /\ {i \in DOMAIN fate : fate[i].how = "open"} = {run[w].no : w \in {w \in Workers : Open(w)}}
  /\ OpenTogether

\* Two open transactions have not sent the same key.
KeysApart ==
  \A v, w \in Workers : v # w /\ Open(v) /\ Open(w) =>
    \A st \in SentOf(run[v]), other \in SentOf(run[w]) : ~Clash(st, other)

ImportsInv ==
  /\ FateRight
  /\ DbRight(db, fate)
  /\ \A w \in Workers : Open(w) => RunRight(db, fate, overlaps, run[w])
  /\ KeysApart

\* A team that a mapper has stored is linked to the id it came with.
ClubsLinked ==
  \A t \in db.teams : StoredBy(t) = "mapper" =>
    \E l \in db.teamLinks, job \in Jobs : job.kind = "mapper" /\ Links(l, t, job)

-----------------------------------------------------------------------------
(* Ids *)

\* The ids set aside for a run are told from those of every other, and from
\* those found at the start.
LEMMA RunOfOwnId ==
  ASSUME NEW no \in Nat, NEW id \in Int, FirstId(no) <= id, id < FirstId(no) + IdsPerRun
  PROVE  FirstId(no) \in Nat /\ id \in Nat /\ RunOf(id) = no
<1> DEFINE P == IdsPerRun  F == IdsPerRun * no
<1>1. P \in Nat
  BY ImportsAssumption
<1>2. F \in Nat
  BY <1>1
<1>3. id \in Nat /\ P > 0
  BY <1>1, <1>2 DEF FirstId
<1> DEFINE q == id \div P   m == id % P
<1>4. q \in Int /\ m \in Int /\ id = P * q + m /\ 0 <= m /\ m < P
  BY <1>1, <1>3
<1>5. P * q <= F + P - 1 /\ F <= P * q + P - 1
  BY <1>4, <1>2, <1>1, <1>3 DEF FirstId
<1>6. q <= no
  <2>1. CASE q >= no + 1
    <3>1. P * q >= P * (no + 1)
      BY <2>1, <1>3, <1>4, <1>1
    <3> QED BY <3>1, <1>5, <1>1, <1>2, <1>4
  <2> QED BY <2>1, <1>4
<1>7. q >= no
  <2>1. CASE q <= no - 1
    <3>1. P * q <= P * (no - 1)
      BY <2>1, <1>3, <1>4, <1>1
    <3> QED BY <3>1, <1>5, <1>1, <1>2, <1>4
  <2> QED BY <2>1, <1>4
<1> QED
  BY <1>2, <1>3, <1>4, <1>6, <1>7 DEF FirstId, RunOf

LEMMA RunOfFoundId ==
  ASSUME NEW id \in Nat, id < IdsPerRun
  PROVE  RunOf(id) = 0
<1>1. FirstId(0) = 0 /\ IdsPerRun \in Nat
  BY ImportsAssumption DEF FirstId
<1> QED
  BY <1>1, RunOfOwnId

-----------------------------------------------------------------------------
(* Rows *)

\* The versions of a row have the same keys and, but for the stadium of a match,
\* refer to the same rows; outside of seasons and matches they are one row.
LEMMA AlikeRows ==
  ASSUME NEW t \in Tables, NEW q, NEW r, Alike(t, q, r)
  PROVE  /\ Keys(t, q) = Keys(t, r)
         /\ t = "seasons" => q.year = r.year
         /\ t = "matches" => /\ q.season = r.season /\ q.matchday = r.matchday
                             /\ q.home = r.home /\ q.away = r.away
         /\ t \notin {"seasons", "matches"} => q = r
BY TableNames DEF Alike, Fixed, Keys, NaturalKey

LEMMA AlikeItself ==
  ASSUME NEW t, NEW q, NEW r, NEW s
  PROVE  /\ Alike(t, q, q)
         /\ Alike(t, q, r) => Alike(t, r, q)
         /\ Alike(t, q, r) /\ Alike(t, r, s) => Alike(t, q, s)
BY DEF Alike

LEMMA RefersFurther ==
  ASSUME NEW t \in Tables, NEW r, NEW known, NEW more, RefersInto(t, r, known),
         \A u \in Tables : known[u] \subseteq more[u]
  PROVE  RefersInto(t, r, more)
BY TableNames DEF RefersInto

LEMMA AlikeRefers ==
  ASSUME NEW t \in Tables, NEW q, NEW r, NEW known, Alike(t, q, r), RefersInto(t, q, known),
         t = "matches" => r.venue \in known["venues"] \cup {None}
  PROVE  RefersInto(t, r, known)
BY AlikeRows DEF RefersInto

-----------------------------------------------------------------------------
(* Databases, row by row *)

LEMMA ColumnsByRow ==
  ASSUME NEW d
  PROVE  ColumnsHold(d) <=> \A t \in Tables : \A r \in d[t] : Shaped(t, r)
<1>1. ASSUME ColumnsHold(d), NEW t \in Tables, NEW r \in d[t]
      PROVE  Shaped(t, r)
  BY <1>1, TableNames DEF ColumnsHold, Shaped
<1>2. ASSUME \A t \in Tables : \A r \in d[t] : Shaped(t, r)
      PROVE  ColumnsHold(d)
  <2>1. /\ \A r \in d.seasons : Shaped("seasons", r)
        /\ \A r \in d.matches : Shaped("matches", r)
        /\ \A r \in d.stats : Shaped("stats", r)
    BY <1>2, TableNames
  <2> QED
    BY <2>1 DEF ColumnsHold, Shaped
<1> QED
  BY <1>1, <1>2

LEMMA ReferencesByRow ==
  ASSUME NEW d
  PROVE  ReferencesHold(d) <=> \A t \in Tables : \A r \in d[t] : RefersInto(t, r, Known(d, d))
<1> DEFINE K == Known(d, d)
<1>0. /\ K["seasons"] = IdsOf(d.seasons) /\ K["teams"] = IdsOf(d.teams)
      /\ K["venues"] = IdsOf(d.venues) /\ K["matches"] = IdsOf(d.matches)
  BY TableNames DEF Known
<1> HIDE DEF K
<1>1. ASSUME ReferencesHold(d), NEW t \in Tables, NEW r \in d[t]
      PROVE  RefersInto(t, r, K)
  BY <1>0, <1>1, TableNames DEF ReferencesHold, RefersInto
<1>2. ASSUME \A t \in Tables : \A r \in d[t] : RefersInto(t, r, K)
      PROVE  ReferencesHold(d)
  <2>1. /\ \A r \in d.teamLinks : RefersInto("teamLinks", r, K)
        /\ \A r \in d.matchLinks : RefersInto("matchLinks", r, K)
        /\ \A r \in d.matches : RefersInto("matches", r, K)
        /\ \A r \in d.seasonTeams : RefersInto("seasonTeams", r, K)
        /\ \A r \in d.stats : RefersInto("stats", r, K)
    BY <1>2, TableNames
  <2> QED
    BY <1>0, <2>1 DEF ReferencesHold, RefersInto
<1> QED
  BY <1>1, <1>2 DEF K

\* The unique constraints: no two rows of a table share a key.
KeysUnique(d, t) ==
  \A q, r \in d[t] : q # r => Keys(t, q) \cap Keys(t, r) = {}

LEMMA SchemaByKeys ==
  ASSUME NEW d
  PROVE  SchemaHolds(d) <=> /\ \A t \in Tables : KeysUnique(d, t)
                            /\ StatsUnique(d) /\ SidesDistinct(d)
<1>0. \A a, b : {a} \cap {b} = {} <=> a # b
  OBVIOUS
<1>9. \A a, b, c, e : {a, b} \cap {c, e} = {} <=> a # c /\ a # e /\ b # c /\ b # e
  OBVIOUS
<1>1. SeasonsUnique(d) <=> KeysUnique(d, "seasons")
  <2>1. \A q, r : Keys("seasons", q) \cap Keys("seasons", r) = {} <=> q.year # r.year
    <3>1. ASSUME NEW q, NEW r
          PROVE  Keys("seasons", q) \cap Keys("seasons", r) = {} <=> <<q.year>> # <<r.year>>
      BY <1>0, Zenon DEF Keys
    <3> QED
      BY <3>1
  <2> QED
    BY <2>1 DEF SeasonsUnique, UniqueOn, KeysUnique
<1>2. MatchesUnique(d) <=> KeysUnique(d, "matches")
  BY DEF MatchesUnique, UniqueOn, KeysUnique, Keys
<1>3. SeasonTeamsUnique(d) <=> KeysUnique(d, "seasonTeams")
  BY DEF SeasonTeamsUnique, UniqueOn, KeysUnique, Keys
<1>4. TeamLinksUnique(d) <=> KeysUnique(d, "teamLinks")
  <2>1. \A q, r : Keys("teamLinks", q) \cap Keys("teamLinks", r) = {} <=>
                    /\ <<q.team, q.source>> # <<r.team, r.source>>
                    /\ <<q.source, q.ext>> # <<r.source, r.ext>>
    <3>1. \A q : Keys("teamLinks", q) =
                   {<<"team", q.team, q.source>>, <<"source", q.ext, q.source>>}
      BY DEF Keys
    <3>2. ASSUME NEW q, NEW r
          PROVE  Keys("teamLinks", q) \cap Keys("teamLinks", r) = {} <=>
                   /\ <<"team", q.team, q.source>> # <<"team", r.team, r.source>>
                   /\ <<"team", q.team, q.source>> # <<"source", r.ext, r.source>>
                   /\ <<"source", q.ext, q.source>> # <<"team", r.team, r.source>>
                   /\ <<"source", q.ext, q.source>> # <<"source", r.ext, r.source>>
      <4> DEFINE a == <<"team", q.team, q.source>>   b == <<"source", q.ext, q.source>>
                 c == <<"team", r.team, r.source>>   e == <<"source", r.ext, r.source>>
      <4>1. Keys("teamLinks", q) = {a, b} /\ Keys("teamLinks", r) = {c, e}
        BY <3>1
      <4> HIDE DEF a, b, c, e
      <4>2. {a, b} \cap {c, e} = {} <=> a # c /\ a # e /\ b # c /\ b # e
        BY <1>9
      <4> QED
        BY <4>1, <4>2 DEF a, b, c, e
    <3> QED
      BY <3>2
  <2> QED
    BY <2>1 DEF TeamLinksUnique, UniqueOn, KeysUnique
<1>5. MatchLinksUnique(d) <=> KeysUnique(d, "matchLinks")
  <2>1. \A q, r : Keys("matchLinks", q) \cap Keys("matchLinks", r) = {} <=>
                    /\ <<q.match, q.source>> # <<r.match, r.source>>
                    /\ <<q.source, q.ext>> # <<r.source, r.ext>>
    <3>1. \A q : Keys("matchLinks", q) =
                   {<<"match", q.match, q.source>>, <<"source", q.ext, q.source>>}
      BY DEF Keys
    <3>2. ASSUME NEW q, NEW r
          PROVE  Keys("matchLinks", q) \cap Keys("matchLinks", r) = {} <=>
                   /\ <<"match", q.match, q.source>> # <<"match", r.match, r.source>>
                   /\ <<"match", q.match, q.source>> # <<"source", r.ext, r.source>>
                   /\ <<"source", q.ext, q.source>> # <<"match", r.match, r.source>>
                   /\ <<"source", q.ext, q.source>> # <<"source", r.ext, r.source>>
      <4> DEFINE a == <<"match", q.match, q.source>>   b == <<"source", q.ext, q.source>>
                 c == <<"match", r.match, r.source>>   e == <<"source", r.ext, r.source>>
      <4>1. Keys("matchLinks", q) = {a, b} /\ Keys("matchLinks", r) = {c, e}
        BY <3>1
      <4> HIDE DEF a, b, c, e
      <4>2. {a, b} \cap {c, e} = {} <=> a # c /\ a # e /\ b # c /\ b # e
        BY <1>9
      <4> QED
        BY <4>1, <4>2 DEF a, b, c, e
    <3> QED
      BY <3>2
  <2> QED
    BY <2>1 DEF MatchLinksUnique, UniqueOn, KeysUnique
<1>6. KeysUnique(d, "teams") /\ KeysUnique(d, "venues") /\ KeysUnique(d, "stats")
  BY DEF KeysUnique, Keys
<1> QED
  BY <1>1, <1>2, <1>3, <1>4, <1>5, <1>6, TableNames DEF SchemaHolds

-----------------------------------------------------------------------------
(* What a COMMIT writes *)

\* An update of a row of the table sets columns that may change.
Overwrites(st, t) ==
  /\ t \in {"seasons", "matches"} /\ DOMAIN st.columns \subseteq Mutable(t)
  /\ \A c \in {"start", "end"} : c \in DOMAIN st.columns => st.columns[c] \in Int

LEMMA WrittenRow ==
  ASSUME NEW S, NEW sent \in Seq(S), NEW t \in Tables, NEW r, Shaped(t, r),
         \A i \in DOMAIN sent :
           ~sent[i].insert /\ sent[i].table = t => Overwrites(sent[i], t)
  PROVE  LET w == Written(sent, t, r) IN
         /\ Alike(t, r, w) /\ Shaped(t, w)
         /\ t = "matches" =>
              \/ w.venue = r.venue
              \/ \E i \in DOMAIN sent :
                   /\ ~sent[i].insert /\ sent[i].table = t /\ "venue" \in DOMAIN sent[i].columns
                   /\ w.venue = sent[i].columns["venue"]
<1> DEFINE w == Written(sent, t, r)
           Setting(c) == {i \in DOMAIN sent :
                            /\ ~sent[i].insert
                            /\ sent[i].table = t /\ sent[i].id = r.id
                            /\ c \in DOMAIN sent[i].columns}
           Now(c) == IF Setting(c) = {} THEN r[c] ELSE sent[Highest(Setting(c))].columns[c]
<1>1. ASSUME NEW c, Setting(c) # {}
      PROVE  Highest(Setting(c)) \in Setting(c)
  <2>1. Setting(c) \subseteq 1..Len(sent) /\ Len(sent) \in Nat
    OBVIOUS
  <2>2. IsFiniteSet(Setting(c))
    BY <2>1, FS_Interval, FS_Subset
  <2> HIDE DEF Setting
  <2> QED
    BY <1>1, <2>1, <2>2, HighestOfFinite
<1>2. w = IF \A c \in DOMAIN r : Setting(c) = {} THEN r ELSE [c \in DOMAIN r |-> Now(c)]
  BY DEF Written
<1>3. ASSUME NEW c
      PROVE  \/ Now(c) = r[c]
             \/ /\ t \in {"seasons", "matches"} /\ c \in Mutable(t)
                /\ c \in {"start", "end"} => Now(c) \in Int
                /\ \E i \in DOMAIN sent :
                     /\ ~sent[i].insert /\ sent[i].table = t /\ c \in DOMAIN sent[i].columns
                     /\ Now(c) = sent[i].columns[c]
  <2>1. CASE Setting(c) = {}
    BY <2>1
  <2>2. CASE Setting(c) # {}
    <3> DEFINE i == Highest(Setting(c))
    <3>1. i \in Setting(c) /\ Now(c) = sent[i].columns[c]
      BY <1>1, <2>2
    <3> HIDE DEF i, Now
    <3>2. /\ i \in DOMAIN sent /\ ~sent[i].insert /\ sent[i].table = t
          /\ c \in DOMAIN sent[i].columns
      BY <3>1
    <3> HIDE DEF Setting
    <3>3. Overwrites(sent[i], t)
      BY <3>2
    <3> QED
      BY <3>1, <3>2, <3>3 DEF Overwrites
  <2> QED
    BY <2>1, <2>2
<1> HIDE DEF Now, Setting
<1>4. CASE t = "seasons"
  <2>1. /\ r = [id |-> r.id, year |-> r.year, start |-> r.start, end |-> r.end,
                status |-> r.status]
        /\ r.start \in Int /\ r.end \in Int
    BY <1>4 DEF Shaped
  <2>2. DOMAIN r = {"id", "year", "start", "end", "status"}
    BY <2>1
  <2>3. Now("id") = r["id"] /\ Now("year") = r["year"]
    BY <1>3, <1>4 DEF Mutable
  <2>4. Now("start") \in Int /\ Now("end") \in Int
    BY <1>3, <2>1
  <2>5. w = r \/ w = [id |-> Now("id"), year |-> Now("year"), start |-> Now("start"),
                      end |-> Now("end"), status |-> Now("status")]
    BY <1>2, <2>2
  <2> HIDE DEF w
  <2> QED
    BY <1>4, <2>1, <2>3, <2>4, <2>5 DEF Alike, Fixed, Shaped, w
<1>5. CASE t = "matches"
  <2>1. r = [id |-> r.id, season |-> r.season, matchday |-> r.matchday,
             home |-> r.home, away |-> r.away, at |-> r.at,
             venue |-> r.venue, status |-> r.status, score |-> r.score]
    BY <1>5 DEF Shaped
  <2>2. DOMAIN r = {"id", "season", "matchday", "home", "away", "at", "venue", "status", "score"}
    BY <2>1
  <2>3. /\ Now("id") = r["id"] /\ Now("season") = r["season"]
        /\ Now("matchday") = r["matchday"]
        /\ Now("home") = r["home"] /\ Now("away") = r["away"]
    BY <1>3, <1>5 DEF Mutable
  <2>4. w = r \/ w = [id |-> Now("id"), season |-> Now("season"),
                      matchday |-> Now("matchday"), home |-> Now("home"),
                      away |-> Now("away"), at |-> Now("at"), venue |-> Now("venue"),
                      status |-> Now("status"), score |-> Now("score")]
    BY <1>2, <2>2
  <2>5. \/ Now("venue") = r["venue"]
        \/ \E i \in DOMAIN sent :
             /\ ~sent[i].insert /\ sent[i].table = t /\ "venue" \in DOMAIN sent[i].columns
             /\ Now("venue") = sent[i].columns["venue"]
    BY <1>3
  <2> HIDE DEF w
  <2> QED
    BY <1>5, <2>1, <2>3, <2>4, <2>5 DEF Alike, Fixed, NaturalKey, Shaped, w
<1>6. CASE t \notin {"seasons", "matches"}
  <2>1. \A c \in DOMAIN r : Setting(c) = {}
    BY <1>6 DEF Setting, Overwrites
  <2> QED
    BY <1>2, <1>6, <2>1 DEF Alike
<1> QED
  BY <1>4, <1>5, <1>6

-----------------------------------------------------------------------------
(* The ids of a run *)

IsHistory(how) ==
  how \in Seq([kind : {"mapper", "bootstrap"},
               how : {"open", "committed", "refused", "deadlocked", "crashed"}])

\* What is assumed of the jobs, by field.
LEMMA JobsAre ==
  ASSUME NEW job \in Jobs
  PROVE  /\ job.kind \in {"mapper", "bootstrap"}
         /\ Len(job.rows) \in Nat /\ DOMAIN job.rows = 1..Len(job.rows) /\ Len(job.rows) >= 1
         /\ \A i \in DOMAIN job.rows : job.rows[i].at \in Int
         /\ IdsPerTurn * Len(job.rows) < IdsPerRun /\ IdsPerRun \in Nat
<1>1. /\ job.kind \in {"mapper", "bootstrap"}
      /\ job.rows # <<>> /\ job.rows \in Seq({job.rows[i] : i \in DOMAIN job.rows})
      /\ \A i \in DOMAIN job.rows : job.rows[i].at \in Int
      /\ IdsPerTurn * Len(job.rows) < IdsPerRun /\ IdsPerRun \in Nat
  BY ImportsAssumption
<1> DEFINE R == job.rows
<1>2. PICK S : R \in Seq(S)
  BY <1>1
<1> HIDE DEF R
<1>3. Len(R) \in Nat /\ DOMAIN R = 1..Len(R) /\ (R # <<>> => Len(R) >= 1)
  BY <1>2
<1> QED
  BY <1>1, <1>3 DEF R

\* A run takes no more ids than are set aside for it, and they tell its number.
LEMMA OwnIdsAreOwn ==
  ASSUME NEW how, IsHistory(how), NEW r, Standing(r, how), WithinIds(r)
  PROVE  /\ r.no \in Nat \ {0} /\ First(r) \in Nat /\ NextOf(r) \in Int
         /\ First(r) <= Base(r) /\ Base(r) <= NextOf(r)
         /\ NextOf(r) <= First(r) + IdsPerRun
         /\ \A id \in OwnIds(r) : id \in Nat /\ RunOf(id) = r.no
<1>1. r.no \in Nat \ {0}
  BY DEF Standing, IsHistory
<1>2. First(r) \in Nat
  BY <1>1, ImportsAssumption DEF First, FirstId
<1> DEFINE N == Len(r.job.rows)  F == First(r)
<1>3. /\ r.job.kind \in {"mapper", "bootstrap"}
      /\ N \in Nat /\ N >= 1 /\ 20 * N < IdsPerRun /\ IdsPerRun \in Nat
  BY JobsAre DEF Standing, IdsPerTurn
<1>4. Base(r) \in Nat /\ F <= Base(r) /\ Base(r) <= F + 1
  BY <1>2 DEF Base
<1>5. NextOf(r) \in Int /\ Base(r) <= NextOf(r) /\ NextOf(r) <= F + 1 + 20 * N
  <2>1. CASE ~InLoopPhase(r)
    BY <1>2, <1>3, <1>4, <2>1 DEF NextOf
  <2>2. CASE InLoopPhase(r)
    <3>1. /\ r.row \in Nat /\ r.row <= N + 1 /\ r.row >= 1
          /\ r.step \in Nat /\ r.step >= 1 /\ r.step <= 5
          /\ r.step > 1 => r.row <= N
      BY <1>3, <2>2 DEF Standing, InLoopPhase, Lookups
    <3>2. /\ r.session.nextId \in Nat /\ Base(r) <= r.session.nextId
          /\ r.session.nextId <= F + 1 + 20 * (r.row - 1) + 2 * (r.step - 1)
      BY <2>2 DEF WithinIds, IdsPerTurn
    <3> HIDE DEF N, F
    <3>3. r.session.nextId <= F + 1 + 20 * N
      <4>1. CASE r.step > 1
        BY <1>2, <1>3, <3>1, <3>2, <4>1 DEF F
      <4>2. CASE r.step = 1
        BY <1>2, <1>3, <3>1, <3>2, <4>2 DEF F
      <4> QED
        BY <3>1, <4>1, <4>2
    <3> QED
      BY <2>2, <3>2, <3>3 DEF NextOf
  <2> QED
    BY <2>1, <2>2
<1>6. NextOf(r) <= F + IdsPerRun
  BY <1>2, <1>3, <1>5
<1>7. \A id \in OwnIds(r) : id \in Int /\ FirstId(r.no) <= id /\ id < FirstId(r.no) + IdsPerRun
  BY <1>2, <1>3, <1>5, <1>6 DEF OwnIds, First
<1> QED
  BY <1>1, <1>2, <1>4, <1>5, <1>6, <1>7, RunOfOwnId

-----------------------------------------------------------------------------
(* The commit of a run *)

\* Where the committed rows come from, and what becomes of them.
LEMMA CommitMoves ==
  ASSUME NEW d, ColumnsHold(d), NEW r, StatementsRight(d, r), r.queue = {},
         NEW t \in Tables
  PROVE  LET e == Applied(d, r.sent) IN
         /\ \A x \in d[t] : \E y \in e[t] : Alike(t, x, y)
         /\ \A st \in SentOf(r) : st.insert /\ st.table = t =>
              \E y \in e[t] : Alike(t, st.columns, y)
         /\ \A y \in e[t] :
              /\ Shaped(t, y)
              /\ t = "matches" => y.venue \in Known(d, r.flushed)["venues"] \cup {None}
                                  \/ \E x \in d[t] : y.venue = x.venue
              /\ \/ \E x \in d[t] : Alike(t, x, y)
                 \/ \E st \in SentOf(r) : st.insert /\ st.table = t /\ Alike(t, st.columns, y)
         /\ \A y, z \in e[t] : y # z =>
              \/ \E x, w \in d[t] : x # w /\ Alike(t, x, y) /\ Alike(t, w, z)
              \/ \E x \in d[t], st \in SentOf(r) :
                   /\ st.insert /\ st.table = t
                   /\ \/ Alike(t, x, y) /\ Alike(t, st.columns, z)
                      \/ Alike(t, x, z) /\ Alike(t, st.columns, y)
              \/ \E st, other \in SentOf(r) :
                   /\ st # other /\ st.insert /\ other.insert
                   /\ st.table = t /\ other.table = t
                   /\ Alike(t, st.columns, y) /\ Alike(t, other.columns, z)
<1> DEFINE e == Applied(d, r.sent)
           New == {st.columns : st \in {st \in SentOf(r) : st.insert /\ st.table = t}}
           Now(x) == Written(r.sent, t, x)
           K == Known(d, r.flushed)["venues"] \cup {None}
<1>1. e[t] = {Now(x) : x \in d[t] \cup New}
  <2>1. Inserted(r.sent, t) = New
    BY DEF Inserted, SentOf
  <2> QED
    BY <2>1 DEF Applied
<1>2. \A st \in SentOf(r) :
        /\ st.insert => Shaped(st.table, st.columns)
                        /\ RefersInto(st.table, st.columns, Known(d, r.flushed))
        /\ ~st.insert => /\ UpdateRight(d, r, st) /\ Overwrites(st, st.table)
  BY DEF StatementsRight, AllOf, InsertRight, UpdateRight, Overwrites
<1>3. \A i \in DOMAIN r.sent : r.sent[i] \in SentOf(r)
  BY DEF SentOf
<1>4. \A x \in d[t] \cup New : Shaped(t, x)
  BY <1>2, ColumnsByRow
<1>5. ASSUME NEW x \in d[t] \cup New
      PROVE  /\ Alike(t, x, Now(x)) /\ Shaped(t, Now(x))
             /\ t = "matches" => Now(x).venue = x.venue \/ Now(x).venue \in K
  <2>1. \A i \in DOMAIN r.sent :
          ~r.sent[i].insert /\ r.sent[i].table = t => Overwrites(r.sent[i], t)
    BY <1>2, <1>3
  <2>2. r.sent \in Seq(SentOf(r))
    BY DEF StatementsRight
  <2>3. \A i \in DOMAIN r.sent :
          ~r.sent[i].insert /\ "venue" \in DOMAIN r.sent[i].columns
            => r.sent[i].columns["venue"] \in K
    BY <1>2, <1>3 DEF UpdateRight
  <2> HIDE DEF K, New
  <2> QED
    BY <1>4, <2>1, <2>2, <2>3, WrittenRow
<1>6. \A x \in New : t = "matches" => x.venue \in K
  BY <1>2 DEF RefersInto
<1> HIDE DEF e, Now, K
<1>7. ASSUME NEW y \in e[t]
      PROVE  /\ Shaped(t, y)
             /\ t = "matches" => y.venue \in K \/ \E x \in d[t] : y.venue = x.venue
             /\ \/ \E x \in d[t] : Alike(t, x, y)
                \/ \E st \in SentOf(r) : st.insert /\ st.table = t /\ Alike(t, st.columns, y)
  <2>1. PICK x \in d[t] \cup New : y = Now(x)
    BY <1>1
  <2> QED
    BY <1>5, <1>6, <2>1
<1>8. ASSUME NEW y \in e[t], NEW z \in e[t], y # z
      PROVE  \/ \E x, w \in d[t] : x # w /\ Alike(t, x, y) /\ Alike(t, w, z)
             \/ \E x \in d[t], st \in SentOf(r) :
                  /\ st.insert /\ st.table = t
                  /\ \/ Alike(t, x, y) /\ Alike(t, st.columns, z)
                     \/ Alike(t, x, z) /\ Alike(t, st.columns, y)
             \/ \E st, other \in SentOf(r) :
                  /\ st # other /\ st.insert /\ other.insert
                  /\ st.table = t /\ other.table = t
                  /\ Alike(t, st.columns, y) /\ Alike(t, other.columns, z)
  <2>1. PICK x \in d[t] \cup New, w \in d[t] \cup New : y = Now(x) /\ z = Now(w)
    BY <1>1
  <2>2. Alike(t, x, y) /\ Alike(t, w, z) /\ x # w
    BY <1>5, <1>8, <2>1
  <2> QED
    BY <2>2
<1>9. \A x \in d[t] \cup New : \E y \in e[t] : Alike(t, x, y)
  BY <1>1, <1>5
<1>10. \A st \in SentOf(r) : st.insert /\ st.table = t =>
         \E y \in e[t] : Alike(t, st.columns, y)
  BY <1>9
<1>11. \A x \in d[t] : \E y \in e[t] : Alike(t, x, y)
  BY <1>9
<1> HIDE DEF New
<1> QED
  BY <1>7, <1>8, <1>10, <1>11 DEF e, K

\* The commit of a run that is right leaves a database that is right.
LEMMA CommitRight ==
  ASSUME NEW d, NEW how, IsHistory(how), DbRight(d, how), NEW pairs,
         NEW r, RunRight(d, how, pairs, r), r.pc = "closing", r.queue = {}
  PROVE  DbRight(Applied(d, r.sent), [how EXCEPT ![r.no].how = "committed"])
<1> DEFINE e == Applied(d, r.sent)
           now == [how EXCEPT ![r.no].how = "committed"]
<1>1. /\ ColumnsHold(d) /\ SchemaHolds(d) /\ ReferencesHold(d)
      /\ Standing(r, how) /\ WithinIds(r) /\ StatementsRight(d, r) /\ SentApart(d, r)
  BY DEF DbRight, RunRight
<1>2. /\ r.no \in Nat \ {0} /\ r.no \in DOMAIN how /\ how[r.no].how = "open"
      /\ \A id \in OwnIds(r) : id \in Nat /\ RunOf(id) = r.no
  BY <1>1, OwnIdsAreOwn DEF Standing
<1>3. \A t \in Tables : \A x \in d[t] : x.id \notin OwnIds(r)
  BY <1>2 DEF DbRight, CommittedRun
<1>4. \A st \in SentOf(r) :
        /\ st.table \in Tables \ {"stats"}
        /\ st.insert => /\ st.id = st.columns.id /\ st.id \in OwnIds(r)
                        /\ RefersInto(st.table, st.columns, Known(d, r.flushed))
  BY <1>1 DEF StatementsRight, AllOf, InsertRight
<1>5. ASSUME NEW t \in Tables
      PROVE  /\ \A x \in d[t] : \E y \in e[t] : Alike(t, x, y)
             /\ \A st \in SentOf(r) : st.insert /\ st.table = t =>
                  \E y \in e[t] : Alike(t, st.columns, y)
             /\ \A y \in e[t] :
                  /\ Shaped(t, y)
                  /\ t = "matches" => y.venue \in Known(d, r.flushed)["venues"] \cup {None}
                                      \/ \E x \in d[t] : y.venue = x.venue
                  /\ \/ \E x \in d[t] : Alike(t, x, y)
                     \/ \E st \in SentOf(r) : st.insert /\ st.table = t /\ Alike(t, st.columns, y)
             /\ \A y, z \in e[t] : y # z =>
                  \/ \E x, w \in d[t] : x # w /\ Alike(t, x, y) /\ Alike(t, w, z)
                  \/ \E x \in d[t], st \in SentOf(r) :
                       /\ st.insert /\ st.table = t
                       /\ \/ Alike(t, x, y) /\ Alike(t, st.columns, z)
                          \/ Alike(t, x, z) /\ Alike(t, st.columns, y)
                  \/ \E st, other \in SentOf(r) :
                       /\ st # other /\ st.insert /\ other.insert
                       /\ st.table = t /\ other.table = t
                       /\ Alike(t, st.columns, y) /\ Alike(t, other.columns, z)
  BY <1>1, CommitMoves
<1>6. DOMAIN e = Tables
  BY DEF Applied
<1> HIDE DEF e
<1>7. ASSUME NEW t \in Tables
      PROVE  UniqueOn(e[t], LAMBDA x : x.id)
  <2>1. ASSUME NEW y \in e[t], NEW z \in e[t], y # z, y.id = z.id
        PROVE  FALSE
    <3>1. CASE \E x, w \in d[t] : x # w /\ Alike(t, x, y) /\ Alike(t, w, z)
      BY <2>1, <3>1 DEF Alike, DbRight, UniqueOn
    <3>2. CASE \E x \in d[t], st \in SentOf(r) :
                 /\ st.insert /\ st.table = t
                 /\ \/ Alike(t, x, y) /\ Alike(t, st.columns, z)
                    \/ Alike(t, x, z) /\ Alike(t, st.columns, y)
      BY <1>3, <1>4, <2>1, <3>2 DEF Alike
    <3>3. CASE \E st, other \in SentOf(r) :
                 /\ st # other /\ st.insert /\ other.insert
                 /\ st.table = t /\ other.table = t
                 /\ Alike(t, st.columns, y) /\ Alike(t, other.columns, z)
      BY <1>1, <1>4, <2>1, <3>3 DEF Alike, StatementsRight, AllOf
    <3> QED
      BY <1>5, <2>1, <3>1, <3>2, <3>3
  <2> QED
    BY <2>1 DEF UniqueOn
<1>0. /\ DOMAIN now = DOMAIN how /\ now[r.no].how = "committed"
      /\ \A i \in DOMAIN how : i # r.no => now[i] = how[i]
  <2>1. how[r.no] = [kind |-> r.job.kind, how |-> "open"]
    BY <1>1 DEF Standing
  <2> QED
    BY <1>2, <2>1
<1> HIDE DEF now
<1>8. ASSUME NEW t \in Tables, NEW y \in e[t]
      PROVE  y.id \in Nat /\ (RunOf(y.id) = 0 \/ CommittedRun(now, RunOf(y.id)))
  <2>1. CASE \E x \in d[t] : Alike(t, x, y)
    <3>1. y.id \in Nat /\ (RunOf(y.id) = 0 \/ CommittedRun(how, RunOf(y.id)))
      BY <2>1 DEF Alike, DbRight
    <3> QED
      BY <1>0, <1>2, <3>1 DEF CommittedRun
  <2>2. CASE \E st \in SentOf(r) : st.insert /\ st.table = t /\ Alike(t, st.columns, y)
    <3>1. y.id \in Nat /\ RunOf(y.id) = r.no
      BY <1>2, <1>4, <2>2 DEF Alike
    <3> QED
      BY <1>0, <1>2, <3>1 DEF CommittedRun
  <2> QED
    BY <1>5, <2>1, <2>2
<1>9. ColumnsHold(e)
  BY <1>5, ColumnsByRow
<1>10. SchemaHolds(e)
  <2>1. ASSUME NEW t \in Tables
        PROVE  KeysUnique(e, t)
    <3>1. ASSUME NEW y \in e[t], NEW z \in e[t], y # z
          PROVE  Keys(t, y) \cap Keys(t, z) = {}
      <4>1. CASE \E x, w \in d[t] : x # w /\ Alike(t, x, y) /\ Alike(t, w, z)
        <5>1. KeysUnique(d, t)
          BY <1>1, SchemaByKeys
        <5> QED
          BY <4>1, <5>1, AlikeRows DEF KeysUnique
      <4>2. CASE \E x \in d[t], st \in SentOf(r) :
                   /\ st.insert /\ st.table = t
                   /\ \/ Alike(t, x, y) /\ Alike(t, st.columns, z)
                      \/ Alike(t, x, z) /\ Alike(t, st.columns, y)
        <5>1. PICK x \in d[t], st \in SentOf(r) :
                   /\ st.insert /\ st.table = t
                   /\ \/ Alike(t, x, y) /\ Alike(t, st.columns, z)
                      \/ Alike(t, x, z) /\ Alike(t, st.columns, y)
          BY <4>2
        <5>2. Keys(t, x) \cap Keys(t, st.columns) = {}
          BY <1>1, <5>1 DEF SentApart
        <5> QED
          BY <5>1, <5>2, AlikeRows
      <4>3. CASE \E st, other \in SentOf(r) :
                   /\ st # other /\ st.insert /\ other.insert
                   /\ st.table = t /\ other.table = t
                   /\ Alike(t, st.columns, y) /\ Alike(t, other.columns, z)
        <5>1. PICK st \in SentOf(r), other \in SentOf(r) :
                   /\ st # other /\ st.insert /\ other.insert
                   /\ st.table = t /\ other.table = t
                   /\ Alike(t, st.columns, y) /\ Alike(t, other.columns, z)
          BY <4>3
        <5>2. Keys(t, st.columns) \cap Keys(t, other.columns) = {}
          BY <1>1, <5>1 DEF SentApart, Clash
        <5> QED
          BY <5>1, <5>2, AlikeRows
      <4> QED
        BY <1>5, <3>1, <4>1, <4>2, <4>3
    <3> QED
      BY <3>1 DEF KeysUnique
  <2>2. StatsUnique(e)
    <3>1. e["stats"] \subseteq d["stats"]
      BY <1>4, <1>5, AlikeRows, TableNames
    <3> QED
      BY <1>1, <3>1 DEF SchemaHolds, StatsUnique, UniqueOn
  <2>3. SidesDistinct(e)
    <3>1. ASSUME NEW y \in e["matches"]
          PROVE  y.home # y.away
      <4>1. CASE \E x \in d["matches"] : Alike("matches", x, y)
        BY <1>1, <4>1, AlikeRows, TableNames DEF SchemaHolds, SidesDistinct
      <4>2. CASE \E st \in SentOf(r) : st.insert /\ st.table = "matches"
                                       /\ Alike("matches", st.columns, y)
        BY <1>1, <4>2, AlikeRows, TableNames DEF SentApart
      <4> QED
        BY <1>5, <4>1, <4>2, TableNames
    <3> QED
      BY <3>1 DEF SidesDistinct
  <2> QED
    BY <2>1, <2>2, <2>3, SchemaByKeys
<1>11. \A t \in Tables : IdsOf(d[t]) \subseteq IdsOf(e[t])
                         /\ IdsOf(r.flushed[t]) \subseteq IdsOf(e[t])
  <2>1. ASSUME NEW t \in Tables, NEW x \in d[t]
        PROVE  x.id \in IdsOf(e[t])
    BY <1>5 DEF IdsOf, Alike
  <2>2. ASSUME NEW t \in Tables, NEW x \in r.flushed[t]
        PROVE  x.id \in IdsOf(e[t])
    <3>1. PICK y \in r.session[t] : y.id = x.id
      BY DEF RunRight, FlushRight, Alike
    <3>2. CASE y.id \in OwnIds(r)
      <4>1. PICK st \in SentOf(r) : st.insert /\ st.table = t /\ st.id = x.id
        BY <1>1, <3>1, <3>2 DEF StatementsRight, AllOf
      <4> QED
        BY <1>4, <1>5, <4>1 DEF IdsOf, Alike
    <3>3. CASE \E q \in d[t] : Alike(t, q, y)
      BY <2>1, <3>1, <3>3 DEF Alike
    <3>4. InLoopPhase(r) /\ OwnIds(r) = First(r)..(r.session.nextId - 1)
      BY DEF InLoopPhase, OwnIds, NextOf
    <3>5. RowsRight(d, First(r), r.session.nextId, r.session)
      BY <3>4 DEF RunRight, Working, SessionRight
    <3> QED
      BY <3>2, <3>3, <3>4, <3>5 DEF RowsRight
  <2> QED
    BY <2>1, <2>2 DEF IdsOf
<1>12. ReferencesHold(e)
  <2>1. \A u \in Tables : /\ Known(d, d)[u] \subseteq Known(e, e)[u]
                          /\ Known(d, r.flushed)[u] \subseteq Known(e, e)[u]
    BY <1>11 DEF Known
  <2>2. ASSUME NEW t \in Tables, NEW x \in d[t]
        PROVE  RefersInto(t, x, Known(e, e))
    BY <1>1, <2>1, ReferencesByRow, RefersFurther
  <2>3. ASSUME NEW t \in Tables, NEW y \in e[t]
        PROVE  RefersInto(t, y, Known(e, e))
    <3>1. t = "matches" => y.venue \in Known(e, e)["venues"] \cup {None}
      <4>1. \A x \in d["matches"] : x.venue \in Known(e, e)["venues"] \cup {None}
        BY <2>2, TableNames DEF RefersInto
      <4> QED
        BY <1>5, <2>1, <4>1, TableNames
    <3>2. CASE \E x \in d[t] : Alike(t, x, y)
      BY <2>2, <3>1, <3>2, AlikeRefers
    <3>3. CASE \E st \in SentOf(r) : st.insert /\ st.table = t /\ Alike(t, st.columns, y)
      BY <1>4, <2>1, <3>1, <3>3, RefersFurther, AlikeRefers
    <3> QED
      BY <1>5, <3>2, <3>3
  <2> QED
    BY <2>3, ReferencesByRow
<1> QED
  BY <1>6, <1>7, <1>8, <1>9, <1>10, <1>12 DEF DbRight, e, now

-----------------------------------------------------------------------------
(* One lookup of the loop *)

\* Nobody else has the ids that were set aside for a run.
Reserved(d, first) ==
  /\ first \in Nat /\ IdsPerRun \in Nat
  /\ \A t \in Tables : \A q \in d[t] : q.id \notin first..(first + IdsPerRun - 1)

\* Of a table, the rows a lookup leaves: versions of those it found, and new ones.
Moved(d, s, u, t) ==
  LET new(q) == q.id \in s.nextId..(u.nextId - 1)
  IN /\ \A x \in s[t] : \E q \in u[t] : Alike(t, x, q)
     /\ \A q \in u[t] :
          /\ Shaped(t, q)
          /\ \/ /\ \E x \in s[t] : Alike(t, x, q)
                /\ t = "matches" => q.venue \in Known(d, u)["venues"] \cup {None}
             \/ new(q) /\ RefersInto(t, q, Known(d, u))
     /\ \A q, p \in u[t] : q # p =>
          \/ \E x, y \in s[t] : x # y /\ Alike(t, x, q) /\ Alike(t, y, p)
          \/ \E x \in s[t] : Alike(t, x, q) /\ new(p)
          \/ \E x \in s[t] : Alike(t, x, p) /\ new(q)
          \/ q.id # p.id

LEMMA SessionMoves ==
  ASSUME NEW d, NEW first, Reserved(d, first),
         NEW s, RowsRight(d, first, s.nextId, s), s.nextId \in Nat, first <= s.nextId,
         NEW u, u.nextId \in Nat, s.nextId <= u.nextId, u.nextId <= first + IdsPerRun,
         \A t \in Tables : u[t] = s[t] \/ Moved(d, s, u, t)
  PROVE  /\ RowsRight(d, first, u.nextId, u) /\ RowsMoved(s, u)
         /\ \A t \in Tables : Known(d, s)[t] \subseteq Known(d, u)[t]
<1>1. \A t \in Tables : \A x \in s[t] : \E q \in u[t] : Alike(t, x, q)
  BY AlikeItself DEF Moved
<1>2. \A t \in Tables : IdsOf(s[t]) \subseteq IdsOf(u[t])
  BY <1>1 DEF IdsOf, Alike
<1>3. \A t \in Tables : Known(d, s)[t] \subseteq Known(d, u)[t]
  BY <1>2 DEF Known
<1>4. \A t \in Tables : \A q \in u[t] :
        (\E x \in s[t] : Alike(t, x, q)) \/ q.id \in s.nextId..(u.nextId - 1)
  BY AlikeItself DEF Moved
<1>5. RowsMoved(s, u)
  BY <1>1, <1>4 DEF RowsMoved
<1>6. \A t \in Tables : \A x \in s[t] :
        /\ x.id \in first..(s.nextId - 1) \/ \E q \in d[t] : Alike(t, q, x)
        /\ x.id \notin s.nextId..(u.nextId - 1)
  <2>1. \A id \in s.nextId..(u.nextId - 1) :
          id \in first..(first + IdsPerRun - 1) /\ id \notin first..(s.nextId - 1)
    BY DEF Reserved
  <2> QED
    BY <2>1 DEF RowsRight, Reserved, Alike
<1>7. ASSUME NEW t \in Tables
      PROVE  UniqueOn(u[t], LAMBDA r : r.id)
  <2>1. ASSUME NEW q \in u[t], NEW p \in u[t], q # p, q.id = p.id
        PROVE  FALSE
    <3>1. \A x, y \in s[t] : x.id = y.id => x = y
      BY DEF RowsRight, UniqueOn
    <3>2. CASE u[t] = s[t]
      BY <2>1, <3>1, <3>2
    <3>3. CASE Moved(d, s, u, t)
      BY <1>6, <2>1, <3>1, <3>3 DEF Moved, Alike
    <3> QED
      BY <3>2, <3>3
  <2> QED
    BY <2>1 DEF UniqueOn
<1>8. ASSUME NEW t \in Tables, NEW q \in u[t]
      PROVE  /\ q.id \in first..(u.nextId - 1) \/ \E r \in d[t] : Alike(t, r, q)
             /\ RefersInto(t, q, Known(d, u))
             /\ Shaped(t, q)
  <2>1. \A x \in s[t] : RefersInto(t, x, Known(d, u)) /\ Shaped(t, x)
    BY <1>3, RefersFurther, ColumnsByRow DEF RowsRight
  <2>2. RefersInto(t, q, Known(d, u))
    BY <2>1, AlikeRefers DEF Moved
  <2>3. Shaped(t, q)
    BY <2>1 DEF Moved
  <2>4. CASE q.id \in s.nextId..(u.nextId - 1)
    BY <2>2, <2>3, <2>4 DEF Reserved
  <2>5. CASE \E x \in s[t] : Alike(t, x, q)
    <3>1. PICK x \in s[t] : Alike(t, x, q)
      BY <2>5
    <3>2. x.id = q.id
      BY <3>1 DEF Alike
    <3> QED
      BY <1>6, <2>2, <2>3, <3>1, <3>2, AlikeItself DEF Reserved
  <2> QED
    BY <1>4, <2>4, <2>5
<1>9. ColumnsHold(u)
  BY <1>8, ColumnsByRow
<1> QED
  BY <1>3, <1>5, <1>7, <1>8, <1>9 DEF RowsRight

\* A table to which rows are added.
Added(d, s, u, t) ==
  /\ s[t] \subseteq u[t]
  /\ \A q \in u[t] \ s[t] : /\ q.id \in s.nextId..(u.nextId - 1)
                            /\ Shaped(t, q) /\ RefersInto(t, q, Known(d, u))
  /\ \A q, p \in u[t] \ s[t] : q # p => q.id # p.id

LEMMA SessionAdds ==
  ASSUME NEW d, NEW first, Reserved(d, first),
         NEW s, RowsRight(d, first, s.nextId, s), s.nextId \in Nat, first <= s.nextId,
         NEW u, u.nextId \in Nat, s.nextId <= u.nextId, u.nextId <= first + IdsPerRun,
         \A t \in Tables : u[t] = s[t] \/ Added(d, s, u, t)
  PROVE  /\ RowsRight(d, first, u.nextId, u) /\ RowsMoved(s, u)
         /\ \A t \in Tables : Known(d, s)[t] \subseteq Known(d, u)[t]
<1>1. \A t \in Tables : Known(d, s)[t] \subseteq Known(d, u)[t]
  <2>1. \A t \in Tables : IdsOf(s[t]) \subseteq IdsOf(u[t])
    BY DEF Added, IdsOf
  <2> QED
    BY <2>1 DEF Known
<1>2. ASSUME NEW t \in Tables, Added(d, s, u, t)
      PROVE  Moved(d, s, u, t)
  <2>1. \A q \in s[t] : /\ Alike(t, q, q) /\ Shaped(t, q)
                        /\ t = "matches" => q.venue \in Known(d, u)["venues"] \cup {None}
    <3>1. \A q \in s[t] : RefersInto(t, q, Known(d, u)) /\ Shaped(t, q)
      BY <1>1, RefersFurther, ColumnsByRow DEF RowsRight
    <3> QED
      BY <3>1, AlikeItself DEF RefersInto
  <2> QED
    BY <1>2, <2>1 DEF Added, Moved
<1> QED
  BY <1>2, SessionMoves

MapperFields == Tables \cup {"open", "nextId", "season", "teamByExt", "teamByName",
                             "venueByName", "matchByExt", "matchByKey"}

Looked(d, job, first, s, u, most) ==
  /\ SessionRight(d, job, first, u) /\ RowsMoved(s, u)
  /\ u.nextId <= s.nextId + most

LEMMA NothingNew ==
  ASSUME NEW d, NEW job, NEW first, NEW s, SessionRight(d, job, first, s), NEW most \in Nat
  PROVE  Looked(d, job, first, s, s, most)
BY AlikeItself DEF Looked, SessionRight, RowsMoved

\* A row that was there is not under a new id.
LEMMA OldIds ==
  ASSUME NEW d, NEW first, Reserved(d, first),
         NEW s, RowsRight(d, first, s.nextId, s), s.nextId \in Nat, first <= s.nextId,
         NEW next \in Nat, s.nextId <= next, next <= first + IdsPerRun,
         NEW t \in Tables, NEW x \in s[t]
  PROVE  x.id \in first..(next - 1) <=> x.id \in first..(s.nextId - 1)
<1>1. x.id \in first..(s.nextId - 1) \/ x.id \notin first..(first + IdsPerRun - 1)
  BY DEF RowsRight, Reserved, Alike
<1>2. first \in Nat /\ IdsPerRun \in Nat
  BY DEF Reserved
<1> QED
  BY <1>1, <1>2

LEMMA ResolveTeamRight ==
  ASSUME NEW d, NEW first, Reserved(d, first), NEW job, job.kind = "mapper",
         NEW s, SessionRight(d, job, first, s),
         first <= s.nextId, s.nextId + 2 <= first + IdsPerRun, NEW api \in Sides(job)
  PROVE  LET u == Mapper!ResolveTeam(s, api) IN
         /\ Looked(d, job, first, s, u, 2)
         /\ DOMAIN u.teamByExt = DOMAIN s.teamByExt \cup {api.id}
         /\ u.venueByName = s.venueByName
<1> DEFINE u == Mapper!ResolveTeam(s, api)
           name == Cleaned[api.name]
           key  == Lowered[name]
           known == key \in DOMAIN s.teamByName
           team == IF known THEN s.teamByName[key] ELSE s.nextId
           newTeam == [id |-> s.nextId, name |-> name]
           newLink == [id |-> s.nextId + 1, team |-> team, source |-> FootballData,
                       ext |-> api.id]
<1>0. /\ MapperDicts(d, s) /\ s.nextId \in Nat /\ RowsRight(d, first, s.nextId, s)
      /\ NamesApart(job, first, s) /\ DOMAIN s = MapperFields
  BY DEF SessionRight, Dicts, MapperDicts, MapperFields
<1>1. CASE api.id \in DOMAIN s.teamByExt
  <2>1. u = s
    BY <1>1 DEF Mapper!ResolveTeam
  <2> QED
    BY <1>1, <2>1, NothingNew
<1>2. CASE api.id \notin DOMAIN s.teamByExt
  <2>1. /\ DOMAIN u = MapperFields
        /\ u.teams = IF known THEN s.teams ELSE s.teams \cup {newTeam}
        /\ u.nextId = s.nextId + 2
        /\ u.teamByName = Put(s.teamByName, key, team)
        /\ u.teamLinks = s.teamLinks \cup {newLink}
        /\ u.teamByExt = Put(s.teamByExt, api.id, team)
        /\ \A f \in MapperFields \ {"teams", "nextId", "teamByName", "teamLinks", "teamByExt"} :
             u[f] = s[f]
    BY <1>0, <1>2, TableNames DEF Mapper!ResolveTeam, MapperFields, Mapper!Put, Put,
       FootballData, Mapper!FootballData
  <2> HIDE DEF u, name, key
  <2>2. /\ u.season = s.season /\ u.venueByName = s.venueByName /\ u.matchByExt = s.matchByExt
        /\ u.matchByKey = s.matchByKey /\ u.seasons = s.seasons /\ u.venues = s.venues
        /\ \A t \in Tables \ {"teams", "teamLinks"} : u[t] = s[t]
    BY <2>1, TableNames DEF MapperFields
  <2>3. /\ DOMAIN u.teamByName = DOMAIN s.teamByName \cup {key}
        /\ u.teamByName[key] = team
        /\ \A n \in DOMAIN s.teamByName : n # key => u.teamByName[n] = s.teamByName[n]
        /\ DOMAIN u.teamByExt = DOMAIN s.teamByExt \cup {api.id}
        /\ u.teamByExt[api.id] = team
        /\ \A e \in DOMAIN s.teamByExt : e # api.id => u.teamByExt[e] = s.teamByExt[e]
    BY <2>1 DEF Put
  <2>4. /\ newTeam.id = s.nextId /\ newTeam.name = name
        /\ newLink.id = s.nextId + 1 /\ newLink.team = team
        /\ newLink.source = FootballData /\ newLink.ext = api.id
    OBVIOUS
  <2> HIDE DEF newTeam, newLink
  <2>5. IdsOf(s.teams) \subseteq IdsOf(u.teams) /\ team \in IdsOf(u.teams)
    <3>1. CASE known
      BY <1>0, <2>1, <3>1 DEF MapperDicts
    <3>2. CASE ~known
      BY <2>1, <2>4, <3>2 DEF IdsOf
    <3> QED
      BY <3>1, <3>2
  <2> HIDE DEF team
  <2>6. team \in Known(d, u)["teams"]
    BY <2>5, TableNames DEF Known
  <2>7. \A t \in Tables : u[t] = s[t] \/ Added(d, s, u, t)
    <3>1. Added(d, s, u, "teamLinks")
      BY <1>0, <2>1, <2>4, <2>6, TableNames DEF Added, Shaped, RefersInto
    <3>2. u.teams = s.teams \/ Added(d, s, u, "teams")
      BY <1>0, <2>1, <2>4, TableNames DEF Added, Shaped, RefersInto
    <3> QED
      BY <2>2, <3>1, <3>2
  <2>8. /\ RowsRight(d, first, u.nextId, u) /\ RowsMoved(s, u)
        /\ \A t \in Tables : Known(d, s)[t] \subseteq Known(d, u)[t]
    BY <1>0, <2>1, <2>7, SessionAdds
  <2>9. Dicts(d, job.kind, u)
    <3>1. DOMAIN u.teamByName = {Lowered[n] : n \in Texts(u.teams)}
      <4>1. CASE known
        BY <1>0, <2>1, <2>3, <4>1 DEF MapperDicts
      <4>2. CASE ~known
        <5>1. Texts(u.teams) = Texts(s.teams) \cup {name}
          BY <2>1, <2>4, <4>2 DEF Texts
        <5> QED
          BY <1>0, <2>3, <5>1 DEF MapperDicts, key
      <4> QED
        BY <4>1, <4>2
    <3>2. \A n \in DOMAIN u.teamByName : u.teamByName[n] \in IdsOf(u.teams)
      BY <1>0, <2>3, <2>5 DEF MapperDicts
    <3>3. \A e \in DOMAIN u.teamByExt : u.teamByExt[e] \in Known(d, u)["teams"]
      BY <1>0, <2>3, <2>6, <2>8, TableNames DEF MapperDicts
    <3> QED
      BY <1>0, <2>1, <2>2, <2>8, <3>1, <3>2, <3>3, TableNames
      DEF Dicts, MapperDicts, MapperFields
  <2>10. NamesApart(job, first, u)
    <3> DEFINE old(x) == x.id \in first..(s.nextId - 1)
               own(x) == x.id \in first..(u.nextId - 1)
    <3>1. \A t \in Tables : \A x \in s[t] : own(x) <=> old(x)
      BY <1>0, <2>1, OldIds
    <3>2. own(newTeam) /\ own(newLink)
      BY <1>0, <2>1, <2>4 DEF Reserved
    <3>3. \A x \in s.teams : (own(x) <=> old(x)) /\ (~known => Lowered[x.name] # key)
      BY <1>0, <3>1, TableNames DEF MapperDicts, Texts
    <3>4. Lowered[newTeam.name] = key
      BY <2>4 DEF key
    <3>5. \A x, y \in s.teams : old(x) /\ x # y => Lowered[x.name] # Lowered[y.name]
      BY <1>0 DEF NamesApart, Folded
    <3>6. \A x \in s.teams : old(x) =>
            \E l \in s.teamLinks : old(l) /\ Links(l, x, job)
      BY <1>0 DEF NamesApart
    <3>7. \A x, y \in s.venues : old(x) /\ x # y => x.name # y.name
      BY <1>0 DEF NamesApart
    <3>8. ~known => Links(newLink, newTeam, job)
      BY <2>4 DEF Links, name, team
    <3>9. \A x \in s.venues : own(x) <=> old(x)
      BY <3>1, TableNames
    <3>10. \A l \in s.teamLinks : own(l) <=> old(l)
      BY <3>1, TableNames
    <3> HIDE DEF own, old, known
    <3>11. \A x, y \in u.teams : own(x) /\ x # y => Lowered[x.name] # Lowered[y.name]
      BY <2>1, <3>3, <3>4, <3>5
    <3>12. \A x, y \in u.venues : own(x) /\ x # y => x.name # y.name
      BY <2>2, <3>7, <3>9
    <3>13. \A x \in u.teams : own(x) =>
             \E l \in u.teamLinks : own(l) /\ Links(l, x, job)
      BY <2>1, <3>2, <3>3, <3>6, <3>8, <3>10
    <3> QED
      BY <3>11, <3>12, <3>13 DEF NamesApart, Folded, own
  <2> QED
    BY <1>0, <2>1, <2>2, <2>3, <2>8, <2>9, <2>10 DEF Looked, SessionRight, u
<1> QED
  BY <1>1, <1>2

\* Names stay apart when a lookup adds nothing that has one.
LEMMA NamesStayApart ==
  ASSUME NEW d, NEW first, Reserved(d, first), NEW job,
         NEW s, RowsRight(d, first, s.nextId, s), s.nextId \in Nat, first <= s.nextId,
         NamesApart(job, first, s),
         NEW u, u.nextId \in Nat, s.nextId <= u.nextId, u.nextId <= first + IdsPerRun,
         u.teams = s.teams, u.teamLinks = s.teamLinks,
         \/ u.venues = s.venues
         \/ \E new : u.venues = s.venues \cup {new} /\ new.name \notin Texts(s.venues)
  PROVE  NamesApart(job, first, u)
<1> DEFINE old(x) == x.id \in first..(s.nextId - 1)
           own(x) == x.id \in first..(u.nextId - 1)
<1>1. \A t \in Tables : \A x \in s[t] : own(x) <=> old(x)
  BY OldIds
<1>2. /\ \A x \in s.teams : own(x) <=> old(x)
      /\ \A x \in s.venues : own(x) <=> old(x)
      /\ \A l \in s.teamLinks : own(l) <=> old(l)
  BY <1>1, TableNames
<1>3. /\ \A x, y \in s.teams :
           old(x) /\ x # y => Folded(job.kind, x.name) # Folded(job.kind, y.name)
      /\ \A x, y \in s.venues : old(x) /\ x # y => x.name # y.name
      /\ job.kind = "mapper" =>
           \A x \in s.teams : old(x) => \E l \in s.teamLinks : old(l) /\ Links(l, x, job)
  BY DEF NamesApart
<1> HIDE DEF old, own
<1>4. \A x, y \in u.venues : own(x) /\ x # y => x.name # y.name
  BY <1>2, <1>3 DEF Texts
<1>5. \A x, y \in u.teams :
        own(x) /\ x # y => Folded(job.kind, x.name) # Folded(job.kind, y.name)
  BY <1>2, <1>3
<1>6. job.kind = "mapper" =>
        \A x \in u.teams : own(x) => \E l \in u.teamLinks : own(l) /\ Links(l, x, job)
  BY <1>2, <1>3
<1> QED
  BY <1>4, <1>5, <1>6 DEF NamesApart, own

LEMMA ResolveVenueRight ==
  ASSUME NEW d, NEW first, Reserved(d, first), NEW job, job.kind = "mapper",
         NEW s, SessionRight(d, job, first, s),
         first <= s.nextId, s.nextId + 2 <= first + IdsPerRun, NEW raw
  PROVE  LET u == Mapper!ResolveVenue(s, raw) IN
         /\ Looked(d, job, first, s, u, 2)
         /\ u.teamByExt = s.teamByExt
         /\ Mapper!Venueless(raw) \/ Cleaned[raw] \in DOMAIN u.venueByName
<1> DEFINE u == Mapper!ResolveVenue(s, raw)
           name == Cleaned[raw]
           new == [id |-> s.nextId, name |-> name]
<1>0. /\ MapperDicts(d, s) /\ s.nextId \in Nat /\ RowsRight(d, first, s.nextId, s)
      /\ NamesApart(job, first, s) /\ DOMAIN s = MapperFields
  BY DEF SessionRight, Dicts, MapperDicts, MapperFields
<1>1. CASE Mapper!Venueless(raw) \/ name \in DOMAIN s.venueByName
  <2>1. u = s
    BY <1>1 DEF Mapper!ResolveVenue
  <2> QED
    BY <1>1, <2>1, NothingNew
<1>2. CASE ~(Mapper!Venueless(raw) \/ name \in DOMAIN s.venueByName)
  <2>1. /\ DOMAIN u = MapperFields
        /\ u.venues = s.venues \cup {new}
        /\ u.nextId = s.nextId + 1
        /\ u.venueByName = Put(s.venueByName, name, s.nextId)
        /\ \A f \in MapperFields \ {"venues", "nextId", "venueByName"} : u[f] = s[f]
    BY <1>0, <1>2, TableNames DEF Mapper!ResolveVenue, MapperFields, Mapper!Put, Put
  <2> HIDE DEF u, name
  <2>2. /\ u.season = s.season /\ u.teamByName = s.teamByName /\ u.teamByExt = s.teamByExt
        /\ u.matchByExt = s.matchByExt /\ u.matchByKey = s.matchByKey
        /\ u.seasons = s.seasons /\ u.teams = s.teams /\ u.teamLinks = s.teamLinks
        /\ \A t \in Tables \ {"venues"} : u[t] = s[t]
    BY <2>1, TableNames DEF MapperFields
  <2>3. /\ DOMAIN u.venueByName = DOMAIN s.venueByName \cup {name}
        /\ u.venueByName[name] = s.nextId
        /\ \A n \in DOMAIN s.venueByName : n # name => u.venueByName[n] = s.venueByName[n]
    BY <2>1 DEF Put
  <2>4. new.id = s.nextId /\ new.name = name
    OBVIOUS
  <2> HIDE DEF new
  <2>5. Added(d, s, u, "venues")
    BY <1>0, <2>1, <2>4, TableNames DEF Added, Shaped, RefersInto
  <2>11. u.nextId \in Nat /\ s.nextId <= u.nextId /\ u.nextId <= first + IdsPerRun
    BY <1>0, <2>1 DEF Reserved
  <2>6. /\ RowsRight(d, first, u.nextId, u) /\ RowsMoved(s, u)
        /\ \A t \in Tables : Known(d, s)[t] \subseteq Known(d, u)[t]
    BY <1>0, <2>2, <2>5, <2>11, SessionAdds
  <2>7. Texts(u.venues) = Texts(s.venues) \cup {name} /\ name \notin Texts(s.venues)
    BY <1>0, <1>2, <2>1, <2>4 DEF Texts, MapperDicts, name
  <2>8. \A n \in DOMAIN u.venueByName : u.venueByName[n] \in IdsOf(u.venues)
    BY <1>0, <2>1, <2>3, <2>4 DEF MapperDicts, IdsOf
  <2>9. Dicts(d, job.kind, u)
    BY <1>0, <2>1, <2>2, <2>3, <2>6, <2>7, <2>8, TableNames DEF Dicts, MapperDicts, MapperFields
  <2>10. NamesApart(job, first, u)
    BY <1>0, <2>1, <2>2, <2>4, <2>7, <2>11, NamesStayApart
  <2> QED
    BY <1>0, <2>1, <2>2, <2>3, <2>6, <2>9, <2>10 DEF Looked, SessionRight, u, name
<1> QED
  BY <1>1, <1>2

LEMMA UpsertMatchRight ==
  ASSUME NEW d, NEW first, Reserved(d, first), NEW job, job.kind = "mapper",
         NEW s, SessionRight(d, job, first, s),
         first <= s.nextId, s.nextId + 2 <= first + IdsPerRun,
         NEW raw, raw.home.id \in DOMAIN s.teamByExt, raw.away.id \in DOMAIN s.teamByExt,
         Mapper!Venueless(raw.venue) \/ Cleaned[raw.venue] \in DOMAIN s.venueByName
  PROVE  Looked(d, job, first, s, Mapper!UpsertMatch(s, raw), 2)
<1> DEFINE u == Mapper!UpsertMatch(s, raw)
           home == s.teamByExt[raw.home.id]
           away == s.teamByExt[raw.away.id]
           key  == <<s.season, raw.matchday, home, away>>
           linked == raw.id \in DOMAIN s.matchByExt
           found  == linked \/ key \in DOMAIN s.matchByKey
           match  == IF linked THEN s.matchByExt[raw.id]
                     ELSE IF found THEN s.matchByKey[key] ELSE s.nextId
           venue  == Mapper!VenueId(s, raw.venue)
           status == Mapper!MapStatus(raw.status)
           new == [id |-> match, season |-> s.season, matchday |-> raw.matchday,
                   home |-> home, away |-> away, at |-> raw.at, venue |-> venue,
                   status |-> status, score |-> raw.score]
           newLink == [id |-> s.nextId + 1, match |-> match, source |-> FootballData,
                       ext |-> raw.id]
           Now(m) == IF m.id = match
                       THEN [id |-> m.id, season |-> m.season, matchday |-> m.matchday,
                             home |-> m.home, away |-> m.away, at |-> raw.at,
                             venue |-> venue, status |-> status, score |-> raw.score]
                       ELSE m
<1>0. /\ MapperDicts(d, s) /\ s.nextId \in Nat /\ RowsRight(d, first, s.nextId, s)
      /\ NamesApart(job, first, s) /\ DOMAIN s = MapperFields
  BY DEF SessionRight, Dicts, MapperDicts, MapperFields
<1>1. /\ DOMAIN u = MapperFields
      /\ u.matches = IF found THEN {Now(m) : m \in s.matches} ELSE s.matches \cup {new}
      /\ u.nextId = s.nextId + 2
      /\ u.matchByKey = IF found THEN s.matchByKey ELSE Put(s.matchByKey, key, match)
      /\ u.matchLinks = IF linked THEN s.matchLinks ELSE s.matchLinks \cup {newLink}
      /\ u.matchByExt = Put(s.matchByExt, raw.id, match)
      /\ \A f \in MapperFields \ {"matches", "nextId", "matchByKey", "matchLinks", "matchByExt"} :
           u[f] = s[f]
  BY <1>0, TableNames DEF Mapper!UpsertMatch, Mapper!Overwritten, MapperFields, Mapper!Put, Put,
     FootballData, Mapper!FootballData
<1>2. /\ u.season = s.season /\ u.teamByName = s.teamByName /\ u.teamByExt = s.teamByExt
      /\ u.venueByName = s.venueByName /\ u.venues = s.venues
      /\ u.seasons = s.seasons /\ u.teams = s.teams /\ u.teamLinks = s.teamLinks
      /\ \A t \in Tables \ {"matches", "matchLinks"} : u[t] = s[t]
  BY <1>1, TableNames DEF MapperFields
<1> HIDE DEF u
<1>3. venue \in IdsOf(s.venues) \cup {None}
  BY <1>0 DEF Mapper!VenueId, MapperDicts
<1>4. home \in Known(d, u)["teams"] /\ away \in Known(d, u)["teams"]
  BY <1>0, <1>2, TableNames DEF MapperDicts, Known
<1>5. /\ new.id = match /\ new.season = s.season /\ new.home = home /\ new.away = away
      /\ new.venue = venue /\ Shaped("matches", new)
      /\ newLink.id = s.nextId + 1 /\ newLink.match = match
  BY DEF Shaped
<1>6. found => match \in Known(d, s)["matches"]
  BY <1>0 DEF MapperDicts
<1>7. ~found => match = s.nextId
  OBVIOUS
<1>8. \A m \in s.matches : /\ Alike("matches", m, Now(m)) /\ Shaped("matches", Now(m))
                           /\ Now(m).venue = venue \/ Now(m).venue = m.venue
  <2>1. \A m \in s.matches : Shaped("matches", m)
    BY <1>0, ColumnsByRow, TableNames DEF RowsRight
  <2> HIDE DEF venue, status, match
  <2> QED
    BY <2>1 DEF Alike, Fixed, NaturalKey, Shaped
<1> HIDE DEF new, newLink, Now, match, venue, status, home, away, linked, key
<1>9. s.season \in Known(d, u)["seasons"] /\ venue \in Known(d, u)["venues"] \cup {None}
  BY <1>0, <1>2, <1>3, TableNames DEF MapperDicts, Known
<1>10. \A m \in s.matches : m.venue \in Known(d, u)["venues"] \cup {None}
  <2>1. \A m \in s.matches : RefersInto("matches", m, Known(d, s))
    BY <1>0, TableNames DEF RowsRight
  <2>2. Known(d, u)["venues"] = Known(d, s)["venues"]
    BY <1>2, TableNames DEF Known
  <2> QED
    BY <2>1, <2>2 DEF RefersInto
<1>11. Moved(d, s, u, "matches") /\ IdsOf(s.matches) \subseteq IdsOf(u.matches)
  <2>1. CASE found
    <3>1. u.matches = {Now(m) : m \in s.matches}
      BY <1>1, <2>1
    <3>2. IdsOf(s.matches) \subseteq IdsOf(u.matches)
      BY <1>8, <3>1 DEF IdsOf, Alike
    <3> QED
      BY <1>8, <1>9, <1>10, <3>1, <3>2 DEF Moved
  <2>2. CASE ~found
    <3>1. u.matches = s.matches \cup {new}
      BY <1>1, <2>2
    <3>2. IdsOf(s.matches) \subseteq IdsOf(u.matches)
      BY <3>1 DEF IdsOf
    <3>3. /\ new.id \in s.nextId..(u.nextId - 1)
          /\ RefersInto("matches", new, Known(d, u))
      BY <1>0, <1>1, <1>4, <1>5, <1>7, <1>9, <2>2 DEF RefersInto
    <3>4. \A m \in s.matches : Shaped("matches", m) /\ Alike("matches", m, m)
      BY <1>0, ColumnsByRow, TableNames, AlikeItself DEF RowsRight
    <3> QED
      BY <1>5, <1>10, <3>1, <3>2, <3>3, <3>4 DEF Moved
  <2> QED
    BY <2>1, <2>2
<1>12. match \in Known(d, u)["matches"]
  <2>1. CASE found
    BY <1>6, <1>11, <2>1, TableNames DEF Known
  <2>2. CASE ~found
    BY <1>1, <1>5, <2>2, TableNames DEF Known, IdsOf
  <2> QED
    BY <2>1, <2>2
<1>13. u.matchLinks = s.matchLinks \/ Moved(d, s, u, "matchLinks")
  <2>1. CASE u.matchLinks = s.matchLinks \cup {newLink}
    <3>1. \A l \in s.matchLinks : Shaped("matchLinks", l) /\ Alike("matchLinks", l, l)
      BY AlikeItself DEF Shaped
    <3>2. newLink.id \in s.nextId..(u.nextId - 1)
      BY <1>0, <1>1, <1>5
    <3> QED
      BY <1>5, <1>12, <2>1, <3>1, <3>2 DEF Moved, Shaped, RefersInto
  <2> QED
    BY <1>1, <2>1
<1>14. /\ RowsRight(d, first, u.nextId, u) /\ RowsMoved(s, u)
       /\ \A t \in Tables : Known(d, s)[t] \subseteq Known(d, u)[t]
  BY <1>0, <1>1, <1>2, <1>11, <1>13, SessionMoves
<1>15. Dicts(d, job.kind, u)
  <2>1. \A e \in DOMAIN u.matchByExt : u.matchByExt[e] \in Known(d, u)["matches"]
    BY <1>0, <1>1, <1>12, <1>14, TableNames DEF MapperDicts, Put
  <2>2. \A k \in DOMAIN u.matchByKey : u.matchByKey[k] \in Known(d, u)["matches"]
    BY <1>0, <1>1, <1>12, <1>14, TableNames DEF MapperDicts, Put
  <2> QED
    BY <1>0, <1>1, <1>2, <1>14, <2>1, <2>2, TableNames DEF Dicts, MapperDicts, MapperFields
<1>16. NamesApart(job, first, u)
  BY <1>0, <1>1, <1>2, NamesStayApart DEF Reserved
<1> QED
  BY <1>0, <1>1, <1>14, <1>15, <1>16 DEF Looked, SessionRight, u

BootstrapFields == Tables \cup {"open", "nextId", "seasonByYear", "teamByName",
                                "venueByName", "matchKeys", "seasonTeamKeys"}

\* The season of a row has a first and a last date in the file.
LEMMA FileDates ==
  ASSUME NEW job \in Jobs, NEW i \in DOMAIN job.rows
  PROVE  LET dates == Bootstrap!DatesOf(job.rows, job.rows[i].year) IN
         /\ dates \subseteq Int
         /\ Lowest(dates) \in dates /\ \A x \in dates : Lowest(dates) <= x
         /\ Highest(dates) \in dates /\ \A x \in dates : x <= Highest(dates)
<1> DEFINE R == job.rows
           dates == Bootstrap!DatesOf(R, R[i].year)
           lines == {j \in DOMAIN R : R[j].year = R[i].year}
           f == [j \in lines |-> LocalDate(R[j].at)]
<1>1. IsFiniteSet(lines) /\ i \in lines
  <2>1. Len(R) \in Nat /\ DOMAIN R = 1..Len(R) /\ i \in lines
    BY JobsAre
  <2> HIDE DEF R
  <2>2. IsFiniteSet(1..Len(R)) /\ lines \subseteq 1..Len(R)
    BY <2>1, FS_Interval
  <2> QED
    BY <2>1, <2>2, FS_Subset
<1>2. f \in Surjection(lines, dates)
  BY DEF Surjection, Bootstrap!DatesOf, Bootstrap!LocalDate, LocalDate
<1>3. IsFiniteSet(dates) /\ dates # {}
  <2>1. f[i] \in dates
    BY <1>1, <1>2 DEF Surjection
  <2> HIDE DEF f, dates, lines
  <2> QED
    BY <1>1, <1>2, <2>1, FS_Surjection
<1>4. dates \subseteq Int
  <2>1. \A j \in lines : f[j] \in Int
    BY JobsAre DEF LocalDate
  <2> QED
    BY <1>2, <2>1 DEF Surjection
<1> HIDE DEF dates
<1>5. Lowest(dates) \in dates /\ \A x \in dates : Lowest(dates) <= x
  BY <1>3, <1>4, LowestOfFinite
<1>6. Highest(dates) \in dates /\ \A x \in dates : Highest(dates) >= x
  BY <1>3, <1>4, HighestOfFinite
<1> QED
  BY <1>4, <1>5, <1>6 DEF dates

LEMMA WithSeasonRight ==
  ASSUME NEW d, NEW first, Reserved(d, first), NEW job \in Jobs, job.kind = "bootstrap",
         NEW s, SessionRight(d, job, first, s),
         first <= s.nextId, s.nextId + 1 <= first + IdsPerRun, NEW i \in DOMAIN job.rows
  PROVE  LET u == Bootstrap!WithSeason(s, job.rows, job.rows[i]) IN
         /\ Looked(d, job, first, s, u, 1)
         /\ job.rows[i].year \in DOMAIN u.seasonByYear
<1> DEFINE r == job.rows[i]
           u == Bootstrap!WithSeason(s, job.rows, r)
           dates == Bootstrap!DatesOf(job.rows, r.year)
           start == Lowest(dates)
           end   == Highest(dates)
           known == r.year \in DOMAIN s.seasonByYear
           id == s.seasonByYear[r.year]
           Now(q) == IF q.id = id
                       THEN [id |-> q.id, year |-> q.year, start |-> Lowest({q.start, start}),
                             end |-> Highest({q.end, end}), status |-> q.status]
                       ELSE q
           new == [id |-> s.nextId, year |-> r.year, start |-> start, end |-> end,
                   status |-> "finished"]
<1>0. /\ BootstrapDicts(s) /\ s.nextId \in Nat /\ RowsRight(d, first, s.nextId, s)
      /\ NamesApart(job, first, s) /\ DOMAIN s = BootstrapFields
  BY DEF SessionRight, Dicts, BootstrapDicts, BootstrapFields
<1>1. start \in Int /\ end \in Int
  BY FileDates
<1>2. /\ Bootstrap!Lowest(dates) = start /\ Bootstrap!Highest(dates) = end
      /\ \A x, y : /\ Bootstrap!Lowest({x, y}) = Lowest({x, y})
                   /\ Bootstrap!Highest({x, y}) = Highest({x, y})
  BY DEF Lowest, Highest, Bootstrap!Lowest, Bootstrap!Highest
<1> HIDE DEF start, end
<1>3. /\ DOMAIN u = BootstrapFields
      /\ u.seasons = IF known THEN {Now(q) : q \in s.seasons} ELSE s.seasons \cup {new}
      /\ u.nextId = IF known THEN s.nextId ELSE s.nextId + 1
      /\ u.seasonByYear = IF known THEN s.seasonByYear ELSE Put(s.seasonByYear, r.year, s.nextId)
      /\ \A f \in BootstrapFields \ {"seasons", "nextId", "seasonByYear"} : u[f] = s[f]
  BY <1>0, <1>2, TableNames DEF Bootstrap!WithSeason, BootstrapFields, Bootstrap!Put, Put
<1>4. /\ u.teamByName = s.teamByName /\ u.venueByName = s.venueByName
      /\ u.teams = s.teams /\ u.teamLinks = s.teamLinks /\ u.venues = s.venues
      /\ \A t \in Tables \ {"seasons"} : u[t] = s[t]
  BY <1>3, TableNames DEF BootstrapFields
<1>5. \A q \in s.seasons : Shaped("seasons", q)
  BY <1>0, ColumnsByRow, TableNames DEF RowsRight
<1>6. ASSUME NEW q \in s.seasons
      PROVE  Alike("seasons", q, Now(q)) /\ Shaped("seasons", Now(q)) /\ Now(q).year = q.year
  <2>1. /\ q = [id |-> q.id, year |-> q.year, start |-> q.start, end |-> q.end,
                status |-> q.status]
        /\ q.start \in Int /\ q.end \in Int
    BY <1>5 DEF Shaped
  <2> DEFINE low == Lowest({q.start, start})   high == Highest({q.end, end})
  <2>2. low \in Int
    BY <1>1, <2>1, BoundsOfTwo
  <2>3. high \in Int
    BY <1>1, <2>1, BoundsOfTwo
  <2> HIDE DEF low, high
  <2> QED
    BY <2>1, <2>2, <2>3 DEF Alike, Fixed, Shaped, low, high
<1>7. new.id = s.nextId /\ new.year = r.year /\ Shaped("seasons", new)
  BY <1>1 DEF Shaped
<1> HIDE DEF u, Now, new, id, r
<1>8. u.nextId \in Nat /\ s.nextId <= u.nextId /\ u.nextId <= first + IdsPerRun
      /\ u.nextId <= s.nextId + 1
  BY <1>0, <1>3 DEF Reserved
<1>9. Moved(d, s, u, "seasons") /\ IdsOf(s.seasons) \subseteq IdsOf(u.seasons)
  <2>1. CASE known
    <3>1. u.seasons = {Now(q) : q \in s.seasons}
      BY <1>3, <2>1
    <3> QED
      BY <1>6, <3>1 DEF Moved, IdsOf, Alike
  <2>2. CASE ~known
    <3>1. u.seasons = s.seasons \cup {new} /\ new.id \in s.nextId..(u.nextId - 1)
      BY <1>0, <1>3, <1>7, <2>2
    <3>2. \A q \in s.seasons : Alike("seasons", q, q)
      BY AlikeItself
    <3> QED
      BY <1>5, <1>7, <3>1, <3>2 DEF Moved, IdsOf, RefersInto
  <2> QED
    BY <2>1, <2>2
<1>10. /\ RowsRight(d, first, u.nextId, u) /\ RowsMoved(s, u)
       /\ \A t \in Tables : Known(d, s)[t] \subseteq Known(d, u)[t]
  BY <1>0, <1>4, <1>8, <1>9, SessionMoves
<1>11. Dicts(d, job.kind, u) /\ r.year \in DOMAIN u.seasonByYear
  <2>1. /\ DOMAIN u.seasonByYear = {q.year : q \in u.seasons}
        /\ \A y \in DOMAIN u.seasonByYear : u.seasonByYear[y] \in IdsOf(u.seasons)
        /\ r.year \in DOMAIN u.seasonByYear
    <3>1. CASE known
      <4>1. {q.year : q \in u.seasons} = {q.year : q \in s.seasons}
        BY <1>3, <1>6, <3>1
      <4> QED
        BY <1>0, <1>3, <1>9, <3>1, <4>1 DEF BootstrapDicts
    <3>2. CASE ~known
      <4>1. /\ DOMAIN u.seasonByYear = DOMAIN s.seasonByYear \cup {r.year}
            /\ u.seasonByYear[r.year] = s.nextId
            /\ \A y \in DOMAIN s.seasonByYear :
                 y # r.year => u.seasonByYear[y] = s.seasonByYear[y]
        BY <1>3, <3>2 DEF Put
      <4>2. s.nextId \in IdsOf(u.seasons) /\ u.seasons = s.seasons \cup {new}
        BY <1>3, <1>7, <3>2 DEF IdsOf
      <4>3. {q.year : q \in u.seasons} = {q.year : q \in s.seasons} \cup {r.year}
        BY <1>7, <4>2
      <4>4. \A y \in DOMAIN u.seasonByYear : u.seasonByYear[y] \in IdsOf(u.seasons)
        BY <1>0, <1>9, <4>1, <4>2 DEF BootstrapDicts
      <4> QED
        BY <1>0, <4>1, <4>3, <4>4 DEF BootstrapDicts
    <3> QED
      BY <3>1, <3>2
  <2> QED
    BY <1>0, <1>3, <1>4, <2>1 DEF Dicts, BootstrapDicts, BootstrapFields
<1>12. NamesApart(job, first, u)
  BY <1>0, <1>4, <1>8, NamesStayApart
<1> QED
  BY <1>8, <1>10, <1>11, <1>12 DEF Looked, SessionRight, u, r

\* The lookups lose no name.
LookupsGrow(s, u) ==
  /\ DOMAIN s.seasonByYear \subseteq DOMAIN u.seasonByYear
  /\ DOMAIN s.teamByName \subseteq DOMAIN u.teamByName
  /\ DOMAIN s.venueByName \subseteq DOMAIN u.venueByName

LEMMA NewNameApart ==
  ASSUME NEW d, NEW first, Reserved(d, first), NEW job, job.kind = "bootstrap",
         NEW s, RowsRight(d, first, s.nextId, s), s.nextId \in Nat, first <= s.nextId,
         NamesApart(job, first, s),
         NEW u, u.nextId \in Nat, s.nextId <= u.nextId, u.nextId <= first + IdsPerRun,
         \E new : u.teams = s.teams \cup {new} /\ new.name \notin Texts(s.teams),
         u.venues = s.venues
  PROVE  NamesApart(job, first, u)
<1> DEFINE old(x) == x.id \in first..(s.nextId - 1)
           own(x) == x.id \in first..(u.nextId - 1)
<1>1. \A t \in Tables : \A x \in s[t] : own(x) <=> old(x)
  BY OldIds
<1>2. /\ \A x \in s.teams : own(x) <=> old(x)
      /\ \A x \in s.venues : own(x) <=> old(x)
  BY <1>1, TableNames
<1>3. /\ \A x, y \in s.teams : old(x) /\ x # y => x.name # y.name
      /\ \A x, y \in s.venues : old(x) /\ x # y => x.name # y.name
  BY DEF NamesApart, Folded
<1> HIDE DEF old, own
<1>4. \A x, y \in u.teams : own(x) /\ x # y => x.name # y.name
  BY <1>2, <1>3 DEF Texts
<1>5. \A x, y \in u.venues : own(x) /\ x # y => x.name # y.name
  BY <1>2, <1>3
<1> QED
  BY <1>4, <1>5 DEF NamesApart, Folded, own

LEMMA WithTeamRight ==
  ASSUME NEW d, NEW first, Reserved(d, first), NEW job, job.kind = "bootstrap",
         NEW s, SessionRight(d, job, first, s),
         first <= s.nextId, s.nextId + 1 <= first + IdsPerRun, NEW name
  PROVE  LET u == Bootstrap!WithTeam(s, name) IN
         /\ Looked(d, job, first, s, u, 1) /\ LookupsGrow(s, u)
         /\ name \in DOMAIN u.teamByName
<1> DEFINE u == Bootstrap!WithTeam(s, name)
           new == [id |-> s.nextId, name |-> name]
<1>0. /\ BootstrapDicts(s) /\ s.nextId \in Nat /\ RowsRight(d, first, s.nextId, s)
      /\ NamesApart(job, first, s) /\ DOMAIN s = BootstrapFields
  BY DEF SessionRight, Dicts, BootstrapDicts, BootstrapFields
<1>1. CASE name \in DOMAIN s.teamByName
  <2>1. u = s
    BY <1>1 DEF Bootstrap!WithTeam
  <2> QED
    BY <1>1, <2>1, NothingNew DEF LookupsGrow
<1>2. CASE name \notin DOMAIN s.teamByName
  <2>1. /\ DOMAIN u = BootstrapFields
        /\ u.teams = s.teams \cup {new}
        /\ u.nextId = s.nextId + 1
        /\ u.teamByName = Put(s.teamByName, name, s.nextId)
        /\ \A f \in BootstrapFields \ {"teams", "nextId", "teamByName"} : u[f] = s[f]
    BY <1>0, <1>2, TableNames DEF Bootstrap!WithTeam, BootstrapFields, Bootstrap!Put, Put
  <2> HIDE DEF u
  <2>2. /\ u.seasonByYear = s.seasonByYear /\ u.venueByName = s.venueByName
        /\ u.seasons = s.seasons /\ u.venues = s.venues
        /\ \A t \in Tables \ {"teams"} : u[t] = s[t]
    BY <2>1, TableNames DEF BootstrapFields
  <2>3. /\ DOMAIN u.teamByName = DOMAIN s.teamByName \cup {name}
        /\ u.teamByName[name] = s.nextId
        /\ \A n \in DOMAIN s.teamByName : n # name => u.teamByName[n] = s.teamByName[n]
    BY <2>1 DEF Put
  <2>4. new.id = s.nextId /\ new.name = name
    OBVIOUS
  <2> HIDE DEF new
  <2>5. Added(d, s, u, "teams")
    BY <1>0, <2>1, <2>4, TableNames DEF Added, Shaped, RefersInto
  <2>6. u.nextId \in Nat /\ s.nextId <= u.nextId /\ u.nextId <= first + IdsPerRun
    BY <1>0, <2>1 DEF Reserved
  <2>7. RowsRight(d, first, u.nextId, u) /\ RowsMoved(s, u)
    BY <1>0, <2>2, <2>5, <2>6, SessionAdds
  <2>8. Texts(u.teams) = Texts(s.teams) \cup {name} /\ name \notin Texts(s.teams)
    BY <1>0, <1>2, <2>1, <2>4 DEF Texts, BootstrapDicts
  <2>9. \A n \in DOMAIN u.teamByName : u.teamByName[n] \in IdsOf(u.teams)
    BY <1>0, <2>1, <2>3, <2>4 DEF BootstrapDicts, IdsOf
  <2>10. Dicts(d, job.kind, u)
    BY <1>0, <2>1, <2>2, <2>3, <2>8, <2>9 DEF Dicts, BootstrapDicts, BootstrapFields
  <2>11. NamesApart(job, first, u)
    BY <1>0, <2>1, <2>2, <2>4, <2>6, <2>8, NewNameApart
  <2> QED
    BY <1>0, <2>1, <2>2, <2>3, <2>6, <2>7, <2>10, <2>11 DEF Looked, SessionRight, LookupsGrow, u
<1> QED
  BY <1>1, <1>2

LEMMA WithVenueRight ==
  ASSUME NEW d, NEW first, Reserved(d, first), NEW job, job.kind = "bootstrap",
         NEW s, SessionRight(d, job, first, s),
         first <= s.nextId, s.nextId + 1 <= first + IdsPerRun, NEW name
  PROVE  LET u == Bootstrap!WithVenue(s, name) IN
         /\ Looked(d, job, first, s, u, 1) /\ LookupsGrow(s, u)
         /\ name \in DOMAIN u.venueByName
<1> DEFINE u == Bootstrap!WithVenue(s, name)
           new == [id |-> s.nextId, name |-> name]
<1>0. /\ BootstrapDicts(s) /\ s.nextId \in Nat /\ RowsRight(d, first, s.nextId, s)
      /\ NamesApart(job, first, s) /\ DOMAIN s = BootstrapFields
  BY DEF SessionRight, Dicts, BootstrapDicts, BootstrapFields
<1>1. CASE name \in DOMAIN s.venueByName
  <2>1. u = s
    BY <1>1 DEF Bootstrap!WithVenue
  <2> QED
    BY <1>1, <2>1, NothingNew DEF LookupsGrow
<1>2. CASE name \notin DOMAIN s.venueByName
  <2>1. /\ DOMAIN u = BootstrapFields
        /\ u.venues = s.venues \cup {new}
        /\ u.nextId = s.nextId + 1
        /\ u.venueByName = Put(s.venueByName, name, s.nextId)
        /\ \A f \in BootstrapFields \ {"venues", "nextId", "venueByName"} : u[f] = s[f]
    BY <1>0, <1>2, TableNames DEF Bootstrap!WithVenue, BootstrapFields, Bootstrap!Put, Put
  <2> HIDE DEF u
  <2>2. /\ u.seasonByYear = s.seasonByYear /\ u.teamByName = s.teamByName
        /\ u.seasons = s.seasons /\ u.teams = s.teams /\ u.teamLinks = s.teamLinks
        /\ \A t \in Tables \ {"venues"} : u[t] = s[t]
    BY <2>1, TableNames DEF BootstrapFields
  <2>3. /\ DOMAIN u.venueByName = DOMAIN s.venueByName \cup {name}
        /\ u.venueByName[name] = s.nextId
        /\ \A n \in DOMAIN s.venueByName : n # name => u.venueByName[n] = s.venueByName[n]
    BY <2>1 DEF Put
  <2>4. new.id = s.nextId /\ new.name = name
    OBVIOUS
  <2> HIDE DEF new
  <2>5. Added(d, s, u, "venues")
    BY <1>0, <2>1, <2>4, TableNames DEF Added, Shaped, RefersInto
  <2>6. u.nextId \in Nat /\ s.nextId <= u.nextId /\ u.nextId <= first + IdsPerRun
    BY <1>0, <2>1 DEF Reserved
  <2>7. RowsRight(d, first, u.nextId, u) /\ RowsMoved(s, u)
    BY <1>0, <2>2, <2>5, <2>6, SessionAdds
  <2>8. Texts(u.venues) = Texts(s.venues) \cup {name} /\ name \notin Texts(s.venues)
    BY <1>0, <1>2, <2>1, <2>4 DEF Texts, BootstrapDicts
  <2>9. \A n \in DOMAIN u.venueByName : u.venueByName[n] \in IdsOf(u.venues)
    BY <1>0, <2>1, <2>3, <2>4 DEF BootstrapDicts, IdsOf
  <2>10. Dicts(d, job.kind, u)
    BY <1>0, <2>1, <2>2, <2>3, <2>8, <2>9 DEF Dicts, BootstrapDicts, BootstrapFields
  <2>11. NamesApart(job, first, u)
    BY <1>0, <2>1, <2>2, <2>4, <2>6, <2>8, NamesStayApart
  <2> QED
    BY <1>0, <2>1, <2>2, <2>3, <2>6, <2>7, <2>10, <2>11 DEF Looked, SessionRight, LookupsGrow, u
<1> QED
  BY <1>1, <1>2

LEMMA WithParticipantRight ==
  ASSUME NEW d, NEW first, Reserved(d, first), NEW job, job.kind = "bootstrap",
         NEW s, SessionRight(d, job, first, s),
         first <= s.nextId, s.nextId + 1 <= first + IdsPerRun,
         NEW season \in IdsOf(s.seasons), NEW team \in IdsOf(s.teams)
  PROVE  LET u == Bootstrap!WithParticipant(s, season, team) IN
         /\ Looked(d, job, first, s, u, 1)
         /\ u.seasons = s.seasons /\ u.teams = s.teams /\ u.venues = s.venues
         /\ u.venueByName = s.venueByName
<1> DEFINE u == Bootstrap!WithParticipant(s, season, team)
           new == [id |-> s.nextId, season |-> season, team |-> team]
<1>0. /\ BootstrapDicts(s) /\ s.nextId \in Nat /\ RowsRight(d, first, s.nextId, s)
      /\ NamesApart(job, first, s) /\ DOMAIN s = BootstrapFields
  BY DEF SessionRight, Dicts, BootstrapDicts, BootstrapFields
<1>1. CASE <<season, team>> \in s.seasonTeamKeys
  <2>1. u = s
    BY <1>1 DEF Bootstrap!WithParticipant
  <2> QED
    BY <2>1, NothingNew
<1>2. CASE <<season, team>> \notin s.seasonTeamKeys
  <2>1. /\ DOMAIN u = BootstrapFields
        /\ u.seasonTeams = s.seasonTeams \cup {new}
        /\ u.nextId = s.nextId + 1
        /\ \A f \in BootstrapFields \ {"seasonTeams", "nextId", "seasonTeamKeys"} : u[f] = s[f]
    BY <1>0, <1>2, TableNames DEF Bootstrap!WithParticipant, BootstrapFields
  <2> HIDE DEF u
  <2>2. /\ u.seasonByYear = s.seasonByYear /\ u.teamByName = s.teamByName
        /\ u.venueByName = s.venueByName /\ u.teamLinks = s.teamLinks
        /\ u.seasons = s.seasons /\ u.teams = s.teams /\ u.venues = s.venues
        /\ \A t \in Tables \ {"seasonTeams"} : u[t] = s[t]
    BY <2>1, TableNames DEF BootstrapFields
  <2>4. new.id = s.nextId /\ new.season = season /\ new.team = team
    OBVIOUS
  <2> HIDE DEF new
  <2>3. season \in Known(d, u)["seasons"] /\ team \in Known(d, u)["teams"]
    BY <2>2, TableNames DEF Known
  <2>5. Added(d, s, u, "seasonTeams")
    BY <1>0, <2>1, <2>3, <2>4, TableNames DEF Added, Shaped, RefersInto
  <2>6. u.nextId \in Nat /\ s.nextId <= u.nextId /\ u.nextId <= first + IdsPerRun
    BY <1>0, <2>1 DEF Reserved
  <2>7. RowsRight(d, first, u.nextId, u) /\ RowsMoved(s, u)
    BY <1>0, <2>2, <2>5, <2>6, SessionAdds
  <2>10. Dicts(d, job.kind, u)
    BY <1>0, <2>1, <2>2 DEF Dicts, BootstrapDicts, BootstrapFields
  <2>11. NamesApart(job, first, u)
    BY <1>0, <2>2, <2>6, NamesStayApart
  <2> QED
    BY <1>0, <2>1, <2>2, <2>6, <2>7, <2>10, <2>11 DEF Looked, SessionRight, u
<1> QED
  BY <1>1, <1>2

LEMMA WithMatchRight ==
  ASSUME NEW d, NEW first, Reserved(d, first), NEW job, job.kind = "bootstrap",
         NEW s, SessionRight(d, job, first, s),
         first <= s.nextId, s.nextId + 1 <= first + IdsPerRun,
         NEW r, r.venue \in DOMAIN s.venueByName,
         NEW season \in IdsOf(s.seasons), NEW home \in IdsOf(s.teams),
         NEW away \in IdsOf(s.teams)
  PROVE  Looked(d, job, first, s, Bootstrap!WithMatch(s, r, season, home, away), 1)
<1> DEFINE u == Bootstrap!WithMatch(s, r, season, home, away)
           key == <<season, r.matchday, home, away>>
           new == [id |-> s.nextId, season |-> season, matchday |-> r.matchday,
                   home |-> home, away |-> away, at |-> r.at, venue |-> s.venueByName[r.venue],
                   status |-> "finished", score |-> r.score]
<1>0. /\ BootstrapDicts(s) /\ s.nextId \in Nat /\ RowsRight(d, first, s.nextId, s)
      /\ NamesApart(job, first, s) /\ DOMAIN s = BootstrapFields
  BY DEF SessionRight, Dicts, BootstrapDicts, BootstrapFields
<1>1. CASE key \in s.matchKeys
  <2>1. u = s
    BY <1>1 DEF Bootstrap!WithMatch
  <2> QED
    BY <2>1, NothingNew
<1>2. CASE key \notin s.matchKeys
  <2>1. /\ DOMAIN u = BootstrapFields
        /\ u.matches = s.matches \cup {new}
        /\ u.nextId = s.nextId + 1
        /\ \A f \in BootstrapFields \ {"matches", "nextId", "matchKeys"} : u[f] = s[f]
    BY <1>0, <1>2, TableNames DEF Bootstrap!WithMatch, BootstrapFields
  <2> HIDE DEF u
  <2>2. /\ u.seasonByYear = s.seasonByYear /\ u.teamByName = s.teamByName
        /\ u.venueByName = s.venueByName /\ u.teamLinks = s.teamLinks
        /\ u.seasons = s.seasons /\ u.teams = s.teams /\ u.venues = s.venues
        /\ \A t \in Tables \ {"matches"} : u[t] = s[t]
    BY <2>1, TableNames DEF BootstrapFields
  <2>4. /\ new.id = s.nextId /\ new.season = season /\ new.home = home /\ new.away = away
        /\ new.venue \in IdsOf(s.venues) /\ Shaped("matches", new)
    BY <1>0 DEF BootstrapDicts, Shaped
  <2> HIDE DEF new
  <2>3. /\ season \in Known(d, u)["seasons"]
        /\ home \in Known(d, u)["teams"] /\ away \in Known(d, u)["teams"]
        /\ new.venue \in Known(d, u)["venues"]
    BY <2>2, <2>4, TableNames DEF Known
  <2>5. Added(d, s, u, "matches")
    BY <1>0, <2>1, <2>3, <2>4, TableNames DEF Added, RefersInto
  <2>6. u.nextId \in Nat /\ s.nextId <= u.nextId /\ u.nextId <= first + IdsPerRun
    BY <1>0, <2>1 DEF Reserved
  <2>7. RowsRight(d, first, u.nextId, u) /\ RowsMoved(s, u)
    BY <1>0, <2>2, <2>5, <2>6, SessionAdds
  <2>10. Dicts(d, job.kind, u)
    BY <1>0, <2>1, <2>2 DEF Dicts, BootstrapDicts, BootstrapFields
  <2>11. NamesApart(job, first, u)
    BY <1>0, <2>2, <2>6, NamesStayApart
  <2> QED
    BY <1>0, <2>1, <2>6, <2>7, <2>10, <2>11 DEF Looked, SessionRight, u
<1> QED
  BY <1>1, <1>2

LEMMA LookedFurther ==
  ASSUME NEW d, NEW job, NEW first, NEW s, NEW u, NEW v, NEW m \in Nat, NEW n \in Nat,
         Looked(d, job, first, s, u, m), Looked(d, job, first, u, v, n)
  PROVE  Looked(d, job, first, s, v, m + n)
<1>1. /\ s.nextId \in Nat /\ u.nextId \in Nat /\ v.nextId \in Nat
      /\ s.nextId <= u.nextId /\ u.nextId <= v.nextId
      /\ u.nextId <= s.nextId + m /\ v.nextId <= u.nextId + n
  BY DEF Looked, RowsMoved
<1>2. ASSUME NEW t \in Tables
      PROVE  /\ \A r \in s[t] : \E q \in v[t] : Alike(t, r, q)
             /\ \A q \in v[t] : (\E r \in s[t] : Alike(t, r, q)) \/ q.id \in s.nextId..(v.nextId - 1)
  <2>1. /\ \A r \in s[t] : \E q \in u[t] : Alike(t, r, q)
        /\ \A q \in u[t] : (\E r \in s[t] : Alike(t, r, q)) \/ q.id \in s.nextId..(u.nextId - 1)
        /\ \A r \in u[t] : \E q \in v[t] : Alike(t, r, q)
        /\ \A q \in v[t] : (\E r \in u[t] : Alike(t, r, q)) \/ q.id \in u.nextId..(v.nextId - 1)
    BY DEF Looked, RowsMoved
  <2>2. \A r \in s[t] : \E q \in v[t] : Alike(t, r, q)
    BY <2>1, AlikeItself
  <2>3. ASSUME NEW q \in v[t], ~(\E r \in s[t] : Alike(t, r, q))
        PROVE  q.id \in s.nextId..(v.nextId - 1)
    <3>1. CASE \E r \in u[t] : Alike(t, r, q)
      <4>1. PICK x \in u[t] : Alike(t, x, q)
        BY <3>1
      <4>2. x.id \in s.nextId..(u.nextId - 1) /\ x.id = q.id
        <5>1. ~(\E r \in s[t] : Alike(t, r, x))
          BY <2>3, <4>1, AlikeItself
        <5> QED
          BY <2>1, <4>1, <5>1 DEF Alike
      <4> QED
        BY <1>1, <4>2
    <3>2. CASE q.id \in u.nextId..(v.nextId - 1)
      BY <1>1, <3>2
    <3> QED
      BY <2>1, <3>1, <3>2
  <2> QED
    BY <2>2, <2>3
<1> QED
  BY <1>1, <1>2 DEF Looked, RowsMoved

LEMMA ImportRowRight ==
  ASSUME NEW d, NEW first, Reserved(d, first), NEW job \in Jobs, job.kind = "bootstrap",
         NEW s, SessionRight(d, job, first, s),
         first <= s.nextId, s.nextId + 7 <= first + IdsPerRun, NEW i \in DOMAIN job.rows
  PROVE  Looked(d, job, first, s, Bootstrap!AfterRow(s, job.rows, job.rows[i]), 7)
<1> DEFINE r == job.rows[i]
           a == Bootstrap!WithSeason(s, job.rows, r)
           b == Bootstrap!WithTeam(a, r.home)
           c == Bootstrap!WithTeam(b, r.away)
           t == Bootstrap!WithVenue(c, r.venue)
           season == t.seasonByYear[r.year]
           home == t.teamByName[r.home]
           away == t.teamByName[r.away]
           e == Bootstrap!WithParticipant(t, season, home)
           g == Bootstrap!WithParticipant(e, season, away)
           h == Bootstrap!WithMatch(g, r, season, home, away)
<1>0. first \in Nat /\ IdsPerRun \in Nat /\ s.nextId \in Nat
  BY DEF Reserved, SessionRight
<1>1. Looked(d, job, first, s, a, 1) /\ r.year \in DOMAIN a.seasonByYear
  BY <1>0, WithSeasonRight
<1> DEFINE Near(x, most) == /\ Looked(d, job, first, s, x, most) /\ SessionRight(d, job, first, x)
                            /\ x.nextId \in Nat /\ first <= x.nextId
                            /\ x.nextId <= s.nextId + most
<1>2. \A x, most : Looked(d, job, first, s, x, most) => Near(x, most)
  BY <1>0 DEF Looked, RowsMoved
<1>3. Near(a, 1)
  BY <1>1, <1>2
<1> HIDE DEF a, r
<1>4. Looked(d, job, first, a, b, 1) /\ LookupsGrow(a, b) /\ r.home \in DOMAIN b.teamByName
  <2>1. a.nextId + 1 <= first + IdsPerRun
    BY <1>0, <1>3
  <2> QED
    BY <1>3, <2>1, WithTeamRight
<1>5. Near(b, 2)
  BY <1>2, <1>3, <1>4, LookedFurther
<1> HIDE DEF b
<1>6. Looked(d, job, first, b, c, 1) /\ LookupsGrow(b, c) /\ r.away \in DOMAIN c.teamByName
  <2>1. b.nextId + 1 <= first + IdsPerRun
    BY <1>0, <1>5
  <2> QED
    BY <1>5, <2>1, WithTeamRight
<1>7. Near(c, 3)
  BY <1>2, <1>5, <1>6, LookedFurther
<1> HIDE DEF c
<1>8. Looked(d, job, first, c, t, 1) /\ LookupsGrow(c, t) /\ r.venue \in DOMAIN t.venueByName
  <2>1. c.nextId + 1 <= first + IdsPerRun
    BY <1>0, <1>7
  <2> QED
    BY <1>7, <2>1, WithVenueRight
<1>9. Near(t, 4)
  BY <1>2, <1>7, <1>8, LookedFurther
<1> HIDE DEF t
<1>10. /\ r.year \in DOMAIN t.seasonByYear
       /\ r.home \in DOMAIN t.teamByName /\ r.away \in DOMAIN t.teamByName
  BY <1>1, <1>4, <1>6, <1>8 DEF LookupsGrow
<1>11. season \in IdsOf(t.seasons) /\ home \in IdsOf(t.teams) /\ away \in IdsOf(t.teams)
  BY <1>9, <1>10 DEF SessionRight, Dicts, BootstrapDicts
<1> HIDE DEF season, home, away
<1>12. /\ Looked(d, job, first, t, e, 1) /\ e.seasons = t.seasons /\ e.teams = t.teams
       /\ e.venueByName = t.venueByName
  <2>1. t.nextId + 1 <= first + IdsPerRun
    BY <1>0, <1>9
  <2> QED
    BY <1>9, <1>11, <2>1, WithParticipantRight
<1>13. Near(e, 5)
  BY <1>2, <1>9, <1>12, LookedFurther
<1> HIDE DEF e
<1>14. /\ Looked(d, job, first, e, g, 1) /\ g.seasons = t.seasons /\ g.teams = t.teams
       /\ g.venueByName = t.venueByName
  <2>1. e.nextId + 1 <= first + IdsPerRun
    BY <1>0, <1>13
  <2> QED
    BY <1>11, <1>12, <1>13, <2>1, WithParticipantRight
<1>15. Near(g, 6)
  BY <1>2, <1>13, <1>14, LookedFurther
<1> HIDE DEF g
<1>16. Looked(d, job, first, g, h, 1)
  <2>1. g.nextId + 1 <= first + IdsPerRun
    BY <1>0, <1>15
  <2> QED
    BY <1>8, <1>11, <1>14, <1>15, <2>1, WithMatchRight
<1>17. Looked(d, job, first, s, h, 7)
  BY <1>15, <1>16, LookedFurther
<1>18. h = Bootstrap!AfterRow(s, job.rows, r)
  BY DEF Bootstrap!AfterRow, a, b, c, t, e, g, season, home, away
<1> QED
  BY <1>17, <1>18 DEF r

\* The lookups before the i-th of the turn over raw have found what they look for.
Found(job, s, raw, i) ==
  job.kind = "mapper" =>
    /\ i > 1 => raw.home.id \in DOMAIN s.teamByExt
    /\ i > 2 => raw.away.id \in DOMAIN s.teamByExt
    /\ i > 3 => Mapper!Venueless(raw.venue) \/ Cleaned[raw.venue] \in DOMAIN s.venueByName

LEMMA AfterRight ==
  ASSUME NEW d, NEW first, Reserved(d, first), NEW job \in Jobs,
         NEW s, SessionRight(d, job, first, s),
         first <= s.nextId, s.nextId + 10 <= first + IdsPerRun, NEW j \in DOMAIN job.rows,
         NEW i \in 1..Lookups(job.kind), Found(job, s, job.rows[j], i)
  PROVE  LET u == After(job, s, job.rows[j], i) IN
         /\ Looked(d, job, first, s, u, IF i = Lookups(job.kind) THEN 10 ELSE 2)
         /\ i < Lookups(job.kind) => Found(job, u, job.rows[j], i + 1)
<1> DEFINE raw == job.rows[j]
           u == After(job, s, raw, i)
<1>0. /\ first \in Nat /\ IdsPerRun \in Nat /\ s.nextId \in Nat
      /\ job.kind \in {"mapper", "bootstrap"}
  BY JobsAre DEF Reserved, SessionRight
<1>1. /\ s.nextId + 7 <= first + IdsPerRun /\ s.nextId + 2 <= first + IdsPerRun
      /\ s.nextId + 1 <= first + IdsPerRun
  BY <1>0
<1>3. \A v : Looked(d, job, first, s, v, 1) => Looked(d, job, first, s, v, 2)
  BY <1>0 DEF Looked, RowsMoved
<1>4. CASE job.kind = "mapper"
  <2>0. raw.home \in Sides(job) /\ raw.away \in Sides(job)
    BY DEF Sides
  <2>1. CASE i = 1
    <3>1. u = Mapper!ResolveTeam(s, raw.home)
      BY <1>4, <2>1 DEF After
    <3> QED
      BY <1>1, <1>4, <2>0, <2>1, <3>1, ResolveTeamRight DEF Found, Lookups
  <2>2. CASE i = 2
    <3>1. u = Mapper!ResolveTeam(s, raw.away)
      BY <1>4, <2>2 DEF After
    <3> QED
      BY <1>1, <1>4, <2>0, <2>2, <3>1, ResolveTeamRight DEF Found, Lookups
  <2>3. CASE i = 3
    <3>1. u = Mapper!ResolveVenue(s, raw.venue)
      BY <1>4, <2>3 DEF After
    <3> QED
      BY <1>1, <1>4, <2>3, <3>1, ResolveVenueRight DEF Found, Lookups
  <2>4. CASE i = 4
    <3>1. u = Mapper!UpsertMatch(s, raw)
      BY <1>4, <2>4 DEF After
    <3>2. Looked(d, job, first, s, u, 2)
      BY <1>1, <1>4, <2>4, <3>1, UpsertMatchRight DEF Found
    <3>3. Looked(d, job, first, s, u, 10)
      BY <3>2 DEF Looked, RowsMoved
    <3> QED
      BY <1>4, <2>4, <3>3 DEF Lookups
  <2> QED
    BY <1>4, <2>1, <2>2, <2>3, <2>4 DEF Lookups
<1>5. CASE job.kind = "bootstrap"
  <2>0. job.kind # "mapper" /\ Lookups(job.kind) = 5
    BY <1>5 DEF Lookups
  <2>1. CASE i = 1
    BY <1>1, <1>3, <1>5, <2>0, <2>1, WithSeasonRight DEF After, Found
  <2>2. CASE i = 2
    BY <1>1, <1>3, <1>5, <2>0, <2>2, WithTeamRight DEF After, Found
  <2>3. CASE i = 3
    BY <1>1, <1>3, <1>5, <2>0, <2>3, WithTeamRight DEF After, Found
  <2>4. CASE i = 4
    BY <1>1, <1>3, <1>5, <2>0, <2>4, WithVenueRight DEF After, Found
  <2>5. CASE i = 5
    <3>1. u = Bootstrap!AfterRow(s, job.rows, raw)
      BY <1>5, <2>5 DEF After
    <3>2. Looked(d, job, first, s, u, 7)
      BY <1>1, <1>5, <3>1, ImportRowRight
    <3>3. Looked(d, job, first, s, u, 10)
      BY <3>2 DEF Looked, RowsMoved
    <3> QED
      BY <2>0, <2>5, <3>3
  <2> QED
    BY <2>0, <2>1, <2>2, <2>3, <2>4, <2>5
<1> QED
  BY <1>0, <1>4, <1>5

\* What a flush has queued takes the rows as of the last one to those of now.
LEMMA FlushStates ==
  ASSUME NEW d, NEW r, r.queue = {}, StatementsRight(d, r),
         NEW q, q.sent = r.sent, q.queue = Statements(r.flushed, q.flushed),
         \A id \in OwnIds(r) : id \in OwnIds(q),
         \A t \in Tables :
           /\ UniqueOn(r.flushed[t], LAMBDA x : x.id) /\ UniqueOn(q.flushed[t], LAMBDA x : x.id)
           /\ \A x \in r.flushed[t] : /\ \E y \in q.flushed[t] : Alike(t, x, y)
                                      /\ x.id \in OwnIds(q) => x.id \in OwnIds(r)
           /\ \A y \in q.flushed[t] : /\ Shaped(t, y) /\ RefersInto(t, y, Known(d, q.flushed))
                                      /\ y.id \in IdsOf(r.flushed[t]) \/ y.id \in OwnIds(q),
         q.flushed["stats"] = {}
  PROVE  StatementsRight(d, q)
<1> DEFINE old == r.flushed   new == q.flushed
           Insert(t, x) == [table |-> t, insert |-> TRUE, id |-> x.id, columns |-> x]
           Update(t, x) == [table |-> t, insert |-> FALSE, id |-> x.id,
                            columns |-> Changed(RowOf(old[t], x.id), x)]
           Inserts(t) == {Insert(t, x) : x \in {x \in new[t] : x.id \notin IdsOf(old[t])}}
           Updates(t) == {Update(t, x) : x \in {x \in new[t] \ old[t] : x.id \in IdsOf(old[t])}}
<1>1. SentOf(q) = SentOf(r) /\ AllOf(r) = SentOf(r) /\ AllOf(q) = q.queue \cup SentOf(r)
  BY DEF SentOf, AllOf
<1>2. q.queue = (UNION {Inserts(t) : t \in Tables}) \cup (UNION {Updates(t) : t \in Tables})
  BY DEF Statements
<1>15. \A t : /\ \A st \in Inserts(t) : \E x \in new[t] : x.id \notin IdsOf(old[t]) /\ st = Insert(t, x)
              /\ \A st \in Updates(t) :
                   \E x \in new[t] \ old[t] : x.id \in IdsOf(old[t]) /\ st = Update(t, x)
              /\ \A x \in new[t] : x.id \notin IdsOf(old[t]) => Insert(t, x) \in Inserts(t)
  OBVIOUS
<1> HIDE DEF Inserts, Updates
<1>3. \A st \in q.queue :
        \/ \E t \in Tables : \E x \in new[t] : x.id \notin IdsOf(old[t]) /\ st = Insert(t, x)
        \/ \E t \in Tables : \E x \in new[t] \ old[t] : x.id \in IdsOf(old[t]) /\ st = Update(t, x)
  <2> TAKE st \in q.queue
  <2>1. (\E t \in Tables : st \in Inserts(t)) \/ (\E t \in Tables : st \in Updates(t))
    <3>1. st \in (UNION {Inserts(t) : t \in Tables}) \/ st \in (UNION {Updates(t) : t \in Tables})
      BY <1>2, Zenon
    <3> QED
      BY <3>1, Zenon
  <2>2. CASE \E t \in Tables : st \in Inserts(t)
    BY <1>15, <2>2
  <2>3. CASE \E t \in Tables : st \in Updates(t)
    BY <1>15, <2>3
  <2> QED
    BY <2>1, <2>2, <2>3
<1>4. \A t \in Tables : \A x \in new[t] : x.id \notin IdsOf(old[t]) => Insert(t, x) \in q.queue
  BY <1>2, <1>15
<1>5. \A t, x : /\ Insert(t, x).table = t /\ Insert(t, x).insert = TRUE
                /\ Insert(t, x).id = x.id /\ Insert(t, x).columns = x
                /\ Update(t, x).table = t /\ Update(t, x).insert = FALSE
                /\ Update(t, x).id = x.id
                /\ Update(t, x).columns = Changed(RowOf(old[t], x.id), x)
  OBVIOUS
<1> HIDE DEF Insert, Update
<1>6. \A t \in Tables : IdsOf(old[t]) \subseteq IdsOf(new[t])
  BY DEF IdsOf, Alike
<1>7. \A t \in Tables : Known(d, old)[t] \subseteq Known(d, new)[t]
  BY <1>6 DEF Known
<1>8. ASSUME NEW t \in Tables, NEW x \in new[t] \ old[t], x.id \in IdsOf(old[t])
      PROVE  /\ t \in {"seasons", "matches"}
             /\ LET columns == Changed(RowOf(old[t], x.id), x) IN
                /\ DOMAIN columns \subseteq Mutable(t)
                /\ "venue" \in DOMAIN columns => columns["venue"] \in Known(d, new)["venues"] \cup {None}
                /\ \A c \in {"start", "end"} : c \in DOMAIN columns => columns[c] \in Int
  <2> DEFINE was == RowOf(old[t], x.id)   columns == Changed(was, x)
  <2>1. was \in old[t] /\ was.id = x.id
    BY <1>8 DEF IdsOf, RowOf
  <2>2. Alike(t, was, x)
    <3>1. PICK y \in new[t] : Alike(t, was, y)
      BY <2>1
    <3>2. y.id = x.id
      BY <2>1, <3>1 DEF Alike
    <3> QED
      BY <3>1, <3>2 DEF UniqueOn
  <2>3. was # x
    BY <1>8, <2>1
  <2> HIDE DEF was
  <2>4. t \in {"seasons", "matches"}
    BY <2>2, <2>3, AlikeRows
  <2>5. DOMAIN columns \subseteq DOMAIN x /\ \A c \in DOMAIN columns : was[c] # x[c] /\ columns[c] = x[c]
    BY DEF Changed
  <2> HIDE DEF columns
  <2>6. CASE t = "seasons"
    <3>1. /\ x = [id |-> x.id, year |-> x.year, start |-> x.start, end |-> x.end,
                  status |-> x.status]
          /\ x.start \in Int /\ x.end \in Int
      BY <2>6 DEF Shaped
    <3>2. DOMAIN x = {"id", "year", "start", "end", "status"}
      BY <3>1
    <3>3. was["id"] = x["id"] /\ was["year"] = x["year"]
      BY <2>2, <2>6, AlikeRows DEF Alike
    <3>4. x["start"] \in Int /\ x["end"] \in Int
      BY <3>1
    <3> QED
      BY <2>4, <2>5, <2>6, <3>2, <3>3, <3>4 DEF Mutable, columns, was
  <2>7. CASE t = "matches"
    <3>1. x = [id |-> x.id, season |-> x.season, matchday |-> x.matchday,
               home |-> x.home, away |-> x.away, at |-> x.at,
               venue |-> x.venue, status |-> x.status, score |-> x.score]
      BY <2>7 DEF Shaped
    <3>2. DOMAIN x = {"id", "season", "matchday", "home", "away", "at", "venue", "status", "score"}
      BY <3>1
    <3>3. /\ was["id"] = x["id"] /\ was["season"] = x["season"]
          /\ was["matchday"] = x["matchday"]
          /\ was["home"] = x["home"] /\ was["away"] = x["away"]
      BY <2>2, <2>7, AlikeRows DEF Alike
    <3>4. x["venue"] \in Known(d, new)["venues"] \cup {None}
      BY <2>7 DEF RefersInto
    <3> QED
      BY <2>4, <2>5, <2>7, <3>2, <3>3, <3>4 DEF Mutable, columns, was
  <2> QED
    BY <2>4, <2>6, <2>7
<1>9. \A st \in q.queue :
        /\ st.table \in Tables \ {"stats"} /\ st.insert \in BOOLEAN
        /\ st.insert => InsertRight(d, q, st) /\ st.id \notin IdsOf(old[st.table])
        /\ ~st.insert => UpdateRight(d, q, st)
  <2> TAKE st \in q.queue
  <2>1. ASSUME NEW t \in Tables, NEW x \in new[t], x.id \notin IdsOf(old[t]), st = Insert(t, x)
        PROVE  /\ st.table \in Tables \ {"stats"} /\ st.insert
               /\ InsertRight(d, q, st) /\ st.id \notin IdsOf(old[st.table])
    <3>1. st.table = t /\ st.insert = TRUE /\ st.id = x.id /\ st.columns = x
      BY <1>5, <2>1
    <3>2. t \in Tables \ {"stats"} /\ x.id \in OwnIds(q)
      BY <2>1
    <3>3. Shaped(t, x) /\ RefersInto(t, x, Known(d, new)) /\ Alike(t, x, x)
      BY <2>1, AlikeItself
    <3> QED
      BY <2>1, <3>1, <3>2, <3>3 DEF InsertRight
  <2>2. ASSUME NEW t \in Tables, NEW x \in new[t] \ old[t], x.id \in IdsOf(old[t]),
               st = Update(t, x)
        PROVE  /\ st.table \in Tables \ {"stats"} /\ ~st.insert /\ UpdateRight(d, q, st)
               /\ st.insert \in BOOLEAN
    <3>1. st.table = t /\ st.insert = FALSE /\ st.columns = Changed(RowOf(old[t], x.id), x)
      BY <1>5, <2>2
    <3> QED
      BY <1>8, <2>2, <3>1 DEF UpdateRight
  <2>3. CASE \E t \in Tables : \E x \in new[t] : x.id \notin IdsOf(old[t]) /\ st = Insert(t, x)
    BY <2>1, <2>3
  <2>4. CASE \E t \in Tables : \E x \in new[t] \ old[t] : x.id \in IdsOf(old[t]) /\ st = Update(t, x)
    BY <2>2, <2>4
  <2> QED
    BY <1>3, <2>3, <2>4
<1>10. \A st \in SentOf(r) :
         /\ st.table \in Tables \ {"stats"} /\ st.insert \in BOOLEAN
         /\ st.insert => InsertRight(d, q, st) /\ st.id \in IdsOf(old[st.table])
         /\ ~st.insert => UpdateRight(d, q, st)
  <2> TAKE st \in SentOf(r)
  <2>1. /\ st.table \in Tables \ {"stats"} /\ st.insert \in BOOLEAN
        /\ st.insert => InsertRight(d, r, st)
        /\ ~st.insert => UpdateRight(d, r, st)
    BY <1>1 DEF StatementsRight
  <2>2. st.insert => InsertRight(d, q, st) /\ st.id \in IdsOf(old[st.table])
    <3>1. ASSUME st.insert
          PROVE  /\ \E x \in new[st.table] : Alike(st.table, x, st.columns)
                 /\ st.id \in IdsOf(old[st.table])
      <4>1. PICK x \in old[st.table] : Alike(st.table, x, st.columns)
        BY <2>1, <3>1 DEF InsertRight
      <4>2. PICK y \in new[st.table] : Alike(st.table, x, y)
        BY <2>1, <4>1
      <4>3. x.id = st.id
        BY <2>1, <3>1, <4>1 DEF InsertRight, Alike
      <4> QED
        BY <4>1, <4>2, <4>3, AlikeItself DEF IdsOf
    <3>2. st.insert => RefersInto(st.table, st.columns, Known(d, new))
      BY <1>7, <2>1, RefersFurther DEF InsertRight
    <3> QED
      BY <2>1, <3>1, <3>2 DEF InsertRight
  <2>3. ~st.insert => UpdateRight(d, q, st)
    BY <1>7, <2>1, TableNames DEF UpdateRight
  <2> QED
    BY <2>1, <2>2, <2>3
<1>11. \A st, other \in q.queue :
         st.insert /\ other.insert /\ st.table = other.table /\ st.id = other.id => st = other
  <2> SUFFICES ASSUME NEW st \in q.queue, NEW other \in q.queue, st.insert, other.insert,
                      st.table = other.table, st.id = other.id
               PROVE  st = other
    OBVIOUS
  <2>1. PICK t \in Tables : \E x \in new[t] : st = Insert(t, x)
    BY <1>3, <1>5
  <2>2. PICK x \in new[t] : st = Insert(t, x)
    BY <2>1
  <2>3. PICK u \in Tables : \E y \in new[u] : other = Insert(u, y)
    BY <1>3, <1>5
  <2>4. PICK y \in new[u] : other = Insert(u, y)
    BY <2>3
  <2>5. t = u /\ x.id = y.id
    BY <1>5, <2>2, <2>4
  <2> QED
    BY <2>2, <2>4, <2>5 DEF UniqueOn
<1>12. \A st, other \in AllOf(q) :
         st.insert /\ other.insert /\ st.table = other.table /\ st.id = other.id => st = other
  BY <1>1, <1>9, <1>10, <1>11 DEF StatementsRight
<1>13. ASSUME NEW t \in Tables, NEW x \in new[t], x.id \in OwnIds(q)
       PROVE  \E st \in AllOf(q) : st.insert /\ st.table = t /\ st.id = x.id
  <2>1. CASE x.id \notin IdsOf(old[t])
    BY <1>1, <1>4, <1>5, <2>1
  <2>2. CASE x.id \in IdsOf(old[t])
    <3>1. PICK y \in old[t] : y.id = x.id
      BY <2>2 DEF IdsOf
    <3>2. y.id \in OwnIds(r)
      BY <1>13, <3>1
    <3>3. PICK st \in AllOf(r) : st.insert /\ st.table = t /\ st.id = y.id
      BY <3>2 DEF StatementsRight
    <3> QED
      BY <1>1, <3>1, <3>3
  <2> QED
    BY <2>1, <2>2
<1>14. q.sent \in Seq(SentOf(q))
  BY <1>1 DEF StatementsRight
<1> QED
  BY <1>1, <1>9, <1>10, <1>12, <1>13, <1>14 DEF StatementsRight

-----------------------------------------------------------------------------
(* What other runs do to one that is open *)

\* Rows that a run need not fear: versions of rows it was right about, and rows
\* of a run that was open with it, with none of the keys it has sent.
NoSurprise(d, e, pairs, r) ==
  \A t \in Tables :
    /\ \A x \in d[t] : \E y \in e[t] : Alike(t, x, y)
    /\ \A y \in e[t] :
         \/ \E x \in d[t] : Alike(t, x, y)
         \/ /\ {RunOf(y.id), r.no} \in pairs
            /\ \A st \in SentOf(r) : st.insert /\ st.table = t =>
                 Keys(t, y) \cap Keys(t, st.columns) = {}

LEMMA RowsStayRight ==
  ASSUME NEW d, NEW e, \A t \in Tables : \A x \in d[t] : \E y \in e[t] : Alike(t, x, y),
         NEW first, NEW next, NEW s
  PROVE  /\ \A t \in Tables : Known(d, s)[t] \subseteq Known(e, s)[t]
         /\ RowsRight(d, first, next, s) => RowsRight(e, first, next, s)
<1>1. \A t \in Tables : IdsOf(d[t]) \subseteq IdsOf(e[t])
  BY DEF IdsOf, Alike
<1>2. \A t \in Tables : Known(d, s)[t] \subseteq Known(e, s)[t]
  BY <1>1 DEF Known
<1>3. ASSUME RowsRight(d, first, next, s), NEW t \in Tables, NEW r \in s[t]
      PROVE  /\ r.id \in first..(next - 1) \/ \E q \in e[t] : Alike(t, q, r)
             /\ RefersInto(t, r, Known(e, s))
  <2>1. /\ r.id \in first..(next - 1) \/ \E q \in d[t] : Alike(t, q, r)
        /\ RefersInto(t, r, Known(d, s))
    BY <1>3 DEF RowsRight
  <2> QED
    BY <1>2, <2>1, RefersFurther, AlikeItself
<1> QED
  BY <1>2, <1>3 DEF RowsRight

LEMMA SessionStaysRight ==
  ASSUME NEW d, NEW e, \A t \in Tables : \A x \in d[t] : \E y \in e[t] : Alike(t, x, y),
         NEW job, NEW first, NEW s, SessionRight(d, job, first, s)
  PROVE  SessionRight(e, job, first, s)
<1>1. \A t \in Tables : Known(d, s)[t] \subseteq Known(e, s)[t]
  BY RowsStayRight
<1>2. RowsRight(e, first, s.nextId, s)
  BY RowsStayRight DEF SessionRight
<1>3. Dicts(e, job.kind, s)
  <2>1. MapperDicts(d, s) => MapperDicts(e, s)
    BY <1>1, TableNames DEF MapperDicts
  <2> QED
    BY <2>1 DEF Dicts, SessionRight
<1> QED
  BY <1>2, <1>3 DEF SessionRight

LEMMA StatementsStayRight ==
  ASSUME NEW d, NEW e, \A t \in Tables : \A x \in d[t] : \E y \in e[t] : Alike(t, x, y),
         NEW r, StatementsRight(d, r)
  PROVE  StatementsRight(e, r)
<1>1. \A t \in Tables : Known(d, r.flushed)[t] \subseteq Known(e, r.flushed)[t]
  BY RowsStayRight
<1>2. ASSUME NEW st \in AllOf(r), st.insert
      PROVE  InsertRight(e, r, st)
  <2>1. InsertRight(d, r, st) /\ st.table \in Tables
    BY <1>2 DEF StatementsRight
  <2> QED
    BY <1>1, <2>1, RefersFurther DEF InsertRight
<1>3. ASSUME NEW st \in AllOf(r), ~st.insert
      PROVE  UpdateRight(e, r, st)
  <2>1. UpdateRight(d, r, st)
    BY <1>3 DEF StatementsRight
  <2> QED
    BY <1>1, <2>1, TableNames DEF UpdateRight
<1> QED
  BY <1>2, <1>3 DEF StatementsRight

\* A run that is right stays right when another one commits.
LEMMA OthersMayCommit ==
  ASSUME NEW d, NEW e, NEW how, NEW now, NEW pairs, NEW more, pairs \subseteq more,
         NEW r, RunRight(d, how, pairs, r), Standing(r, now), NoSurprise(d, e, more, r)
  PROVE  RunRight(e, now, more, r)
<1>1. \A t \in Tables : \A x \in d[t] : \E y \in e[t] : Alike(t, x, y)
  BY DEF NoSurprise
<1>2. Working(e, r)
  <2>1. ReadSoFar(d, r) => ReadSoFar(e, r)
    BY <1>1, RowsStayRight DEF ReadSoFar
  <2> QED
    BY <1>1, <2>1, SessionStaysRight DEF RunRight, Working
<1>3. StatementsRight(e, r)
  BY <1>1, StatementsStayRight DEF RunRight
<1>4. SentApart(e, r)
  <2>1. ASSUME NEW st \in SentOf(r), st.insert, NEW y \in e[st.table]
        PROVE  Keys(st.table, y) \cap Keys(st.table, st.columns) = {}
    <3>1. st.table \in Tables
      BY <2>1 DEF RunRight, StatementsRight, AllOf
    <3>2. CASE \E x \in d[st.table] : Alike(st.table, x, y)
      BY <2>1, <3>1, <3>2, AlikeRows DEF RunRight, SentApart
    <3> QED
      BY <2>1, <3>1, <3>2 DEF NoSurprise
  <2> QED
    BY <2>1 DEF RunRight, SentApart
<1>5. UnseenOverlap(e, more, r)
  <2>1. ASSUME NEW t \in {"teams", "venues"}, HasRead(r, t), NEW y \in e[t]
        PROVE  y.id \in IdsOf(r.session[t]) \/ {RunOf(y.id), r.no} \in more
    <3>1. CASE \E x \in d[t] : Alike(t, x, y)
      BY <2>1, <3>1 DEF RunRight, UnseenOverlap, Alike
    <3> QED
      BY <2>1, <3>1, TableNames DEF NoSurprise
  <2> QED
    BY <2>1 DEF UnseenOverlap
<1> QED
  BY <1>2, <1>3, <1>4, <1>5 DEF RunRight

\* A run stands as it stood when another one starts or ends.
LEMMA StandsOn ==
  ASSUME NEW how, IsHistory(how), NEW now, NEW r, Standing(r, how),
         r.no \in DOMAIN now, now[r.no] = how[r.no]
  PROVE  Standing(r, now)
BY DEF Standing

\* A commit is no surprise to a run that was open with it and has sent none of
\* its keys.
LEMMA CommitSurprisesNobody ==
  ASSUME NEW d, NEW how, IsHistory(how), NEW pairs, ColumnsHold(d),
         NEW v, RunRight(d, how, pairs, v), v.queue = {},
         NEW r, RunRight(d, how, pairs, r), {v.no, r.no} \in pairs,
         \A st \in SentOf(v), other \in SentOf(r) : ~Clash(st, other)
  PROVE  NoSurprise(d, Applied(d, v.sent), pairs, r)
<1> DEFINE e == Applied(d, v.sent)
<1>1. \A t \in Tables :
        /\ \A x \in d[t] : \E y \in e[t] : Alike(t, x, y)
        /\ \A y \in e[t] :
             \/ \E x \in d[t] : Alike(t, x, y)
             \/ \E st \in SentOf(v) : st.insert /\ st.table = t /\ Alike(t, st.columns, y)
  BY CommitMoves DEF RunRight
<1> HIDE DEF e
<1>2. ASSUME NEW t \in Tables, NEW y \in e[t],
             NEW st \in SentOf(v), st.insert, st.table = t, Alike(t, st.columns, y)
      PROVE  /\ {RunOf(y.id), r.no} \in pairs
             /\ \A other \in SentOf(r) : other.insert /\ other.table = t =>
                  Keys(t, y) \cap Keys(t, other.columns) = {}
  <2>1. st.columns.id \in OwnIds(v)
    BY <1>2 DEF RunRight, StatementsRight, AllOf, InsertRight
  <2>2. RunOf(y.id) = v.no
    BY <1>2, <2>1, OwnIdsAreOwn DEF RunRight, Alike
  <2>3. Keys(t, y) = Keys(t, st.columns)
    BY <1>2, AlikeRows
  <2> QED
    BY <1>2, <2>2, <2>3 DEF Clash
<1> QED
  BY <1>1, <1>2 DEF NoSurprise, e

-----------------------------------------------------------------------------
(* Reading *)

LEMMA LearnedRows ==
  ASSUME NEW d, NEW how, DbRight(d, how),
         NEW first, NEW next, NEW s, RowsRight(d, first, next, s),
         NEW seen, \A t \in Tables : seen[t] \subseteq d[t],
         NEW known, \A t \in Tables : known[t] = Learn(s[t], seen[t])
  PROVE  /\ RowsRight(d, first, next, known)
         /\ \A t \in Tables : /\ s[t] \subseteq known[t] /\ known[t] \subseteq s[t] \cup d[t]
                              /\ \A q \in seen[t] : q.id \in IdsOf(known[t])
<1>1. ASSUME NEW t \in Tables
      PROVE  /\ s[t] \subseteq known[t] /\ known[t] \subseteq s[t] \cup d[t]
             /\ \A q \in seen[t] : q.id \in IdsOf(known[t])
             /\ UniqueOn(known[t], LAMBDA r : r.id)
  <2>1. known[t] = s[t] \cup {r \in seen[t] : r.id \notin IdsOf(s[t])}
    BY DEF Learn
  <2>2. UniqueOn(s[t], LAMBDA r : r.id) /\ UniqueOn(d[t], LAMBDA r : r.id)
    BY DEF RowsRight, DbRight
  <2> QED
    BY <2>1, <2>2 DEF UniqueOn, IdsOf
<1>2. \A t \in Tables : Known(d, s)[t] \subseteq Known(d, known)[t] /\ Known(d, d)[t] \subseteq Known(d, known)[t]
  BY <1>1 DEF Known, IdsOf
<1>3. ASSUME NEW t \in Tables, NEW q \in known[t]
      PROVE  /\ q.id \in first..(next - 1) \/ \E x \in d[t] : Alike(t, x, q)
             /\ RefersInto(t, q, Known(d, known)) /\ Shaped(t, q)
  <2>1. CASE q \in s[t]
    BY <1>2, <2>1, RefersFurther, ColumnsByRow DEF RowsRight
  <2>2. CASE q \in d[t]
    <3>1. RefersInto(t, q, Known(d, d)) /\ Shaped(t, q)
      BY <2>2, ReferencesByRow, ColumnsByRow DEF DbRight
    <3> QED
      BY <1>2, <2>2, <3>1, RefersFurther, AlikeItself
  <2> QED
    BY <1>1, <2>1, <2>2
<1>4. ColumnsHold(known)
  BY <1>3, ColumnsByRow
<1> QED
  BY <1>1, <1>3, <1>4 DEF RowsRight

LEMMA FeedDates ==
  ASSUME NEW job \in Jobs
  PROVE  LET dates == Mapper!BatchDates(job) IN Lowest(dates) \in Int /\ Highest(dates) \in Int
<1> DEFINE R == job.rows
           lines == DOMAIN R
           dates == Mapper!BatchDates(job)
           f == [j \in lines |-> UtcDate(R[j].at)]
<1>1. IsFiniteSet(lines) /\ 1 \in lines
  <2>1. Len(R) \in Nat /\ DOMAIN R = 1..Len(R) /\ Len(R) >= 1
    BY JobsAre
  <2> HIDE DEF R
  <2>2. IsFiniteSet(1..Len(R))
    BY <2>1, FS_Interval
  <2> QED
    BY <2>1, <2>2
<1>2. f \in Surjection(lines, dates)
  BY DEF Surjection, Mapper!BatchDates, Mapper!BatchRows, Mapper!UtcDate, UtcDate
<1>3. IsFiniteSet(dates) /\ dates # {}
  <2>1. f[1] \in dates
    BY <1>1, <1>2 DEF Surjection
  <2> HIDE DEF f, dates, lines
  <2> QED
    BY <1>1, <1>2, <2>1, FS_Surjection
<1>4. dates \subseteq Int
  <2>1. \A j \in lines : f[j] \in Int
    BY JobsAre DEF UtcDate
  <2> QED
    BY <1>2, <2>1 DEF Surjection
<1> HIDE DEF dates
<1>5. Lowest(dates) \in dates
  BY <1>3, <1>4, LowestOfFinite
<1>6. Highest(dates) \in dates
  BY <1>3, <1>4, HighestOfFinite
<1> QED
  BY <1>4, <1>5, <1>6 DEF dates

\* The season of a mapper: a version of the committed one, or a new row where
\* there is none.
LEMMA SeasonRight ==
  ASSUME NEW how, DbRight(db, how), NEW job \in Jobs, NEW id
  PROVE  LET n == Mapper!SeasonAfter(job, id) IN
         /\ n.year = job.year /\ Shaped("seasons", n)
         /\ \/ \E s \in SeasonsOf(job.year) : Alike("seasons", s, n)
            \/ SeasonsOf(job.year) = {} /\ n.id = id
<1> DEFINE n == Mapper!SeasonAfter(job, id)
           start == Lowest(Mapper!BatchDates(job))
           end == Highest(Mapper!BatchDates(job))
           status == Mapper!BatchStatus(job)
           known == SeasonsOf(job.year)
           s == CHOOSE s \in known : TRUE
           new == [id |-> id, year |-> job.year, status |-> status, start |-> start, end |-> end]
           wide == [id |-> s.id, year |-> s.year, status |-> status,
                    start |-> Lowest({s.start, start}), end |-> Highest({s.end, end})]
<1>1. start \in Int /\ end \in Int
  BY FeedDates
<1>2. n = IF known = {} THEN new ELSE wide
  BY DEF Mapper!SeasonAfter, SeasonsOf, Mapper!Lowest, Mapper!Highest, Lowest, Highest
<1> HIDE DEF n, start, end, status
<1>3. CASE known = {}
  <2>1. n = new
    BY <1>2, <1>3
  <2> QED
    BY <1>1, <1>3, <2>1 DEF Shaped, n
<1>4. CASE known # {}
  <2>1. s \in known /\ n = wide
    BY <1>2, <1>4
  <2>2. s \in db.seasons /\ s.year = job.year
    BY <2>1 DEF SeasonsOf
  <2>3. /\ s = [id |-> s.id, year |-> s.year, start |-> s.start, end |-> s.end,
                status |-> s.status]
        /\ s.start \in Int /\ s.end \in Int
    BY <2>2 DEF DbRight, ColumnsHold
  <2> HIDE DEF s
  <2> DEFINE low == Lowest({s.start, start})   high == Highest({s.end, end})
  <2>4. low \in Int
    BY <1>1, <2>3, BoundsOfTwo
  <2>5. high \in Int
    BY <1>1, <2>3, BoundsOfTwo
  <2>6. /\ n.id = s.id /\ n.year = s.year /\ n.start = low /\ n.end = high
        /\ n = [id |-> n.id, year |-> n.year, start |-> n.start, end |-> n.end,
                status |-> n.status]
    BY <2>1
  <2> HIDE DEF low, high
  <2>7. Alike("seasons", s, n) /\ Shaped("seasons", n)
    BY <2>4, <2>5, <2>6 DEF Alike, Fixed, Shaped
  <2> QED
    BY <2>1, <2>2, <2>6, <2>7 DEF n
<1> QED
  BY <1>3, <1>4

\* What a run has sent stays right while what it works on moves.
LEMMA StatementsKeep ==
  ASSUME NEW d, NEW r, StatementsRight(d, r),
         NEW q, q.sent = r.sent, AllOf(q) = AllOf(r),
         \A id \in OwnIds(r) : id \in OwnIds(q),
         \A t \in Tables :
           /\ \A x \in r.flushed[t] : \E y \in q.flushed[t] : Alike(t, x, y)
           /\ \A y \in q.flushed[t] : y.id \in OwnIds(q) =>
                y.id \in OwnIds(r) /\ y.id \in IdsOf(r.flushed[t])
  PROVE  StatementsRight(d, q)
<1>1. SentOf(q) = SentOf(r)
  BY DEF SentOf
<1>2. \A t \in Tables : IdsOf(r.flushed[t]) \subseteq IdsOf(q.flushed[t])
  BY DEF IdsOf, Alike
<1>3. \A t \in Tables : Known(d, r.flushed)[t] \subseteq Known(d, q.flushed)[t]
  BY <1>2 DEF Known
<1>4. ASSUME NEW st \in AllOf(q)
      PROVE  /\ st.insert => InsertRight(d, q, st)
             /\ ~st.insert => UpdateRight(d, q, st)
  <2>1. /\ st.table \in Tables
        /\ st.insert => InsertRight(d, r, st)
        /\ ~st.insert => UpdateRight(d, r, st)
    BY DEF StatementsRight
  <2>2. st.insert => InsertRight(d, q, st)
    <3>1. st.insert => \E x \in q.flushed[st.table] : Alike(st.table, x, st.columns)
      BY <2>1, AlikeItself DEF InsertRight
    <3>2. st.insert => RefersInto(st.table, st.columns, Known(d, q.flushed))
      BY <1>3, <2>1, RefersFurther DEF InsertRight
    <3> QED
      BY <2>1, <3>1, <3>2 DEF InsertRight
  <2>3. ~st.insert => UpdateRight(d, q, st)
    BY <1>3, <2>1, TableNames DEF UpdateRight
  <2> QED
    BY <2>2, <2>3
<1>5. ASSUME NEW t \in Tables, NEW x \in q.flushed[t], x.id \in OwnIds(q)
      PROVE  \E st \in AllOf(q) : st.insert /\ st.table = t /\ st.id = x.id
  <2>1. PICK y \in r.flushed[t] : y.id = x.id
    BY <1>5 DEF IdsOf
  <2> QED
    BY <1>5, <2>1 DEF StatementsRight
<1> QED
  BY <1>1, <1>4, <1>5 DEF StatementsRight

LEMMA Plans ==
  /\ Len(Plan("mapper")) = 6 /\ Len(Plan("bootstrap")) = 5
  /\ Plan("mapper")[1] = "season" /\ Plan("mapper")[2] = "teamLinks"
  /\ Plan("mapper")[3] = "teams" /\ Plan("mapper")[4] = "venues"
  /\ Plan("mapper")[5] = "matchLinks" /\ Plan("mapper")[6] = "matches"
  /\ Plan("bootstrap")[1] = "seasons" /\ Plan("bootstrap")[2] = "teams"
  /\ Plan("bootstrap")[3] = "venues" /\ Plan("bootstrap")[4] = "matches"
  /\ Plan("bootstrap")[5] = "seasonTeams"
BY DEF Plan

\* The steps of a run, one by one: it is right after each.
LEMMA ReadRight ==
  ASSUME IsHistory(fate), DbRight(db, fate), DOMAIN run = Workers, NEW w \in Workers,
         RunRight(db, fate, overlaps, run[w]), Read(w)
  PROVE  RunRight(db, fate, overlaps, run'[w]) /\ run' = [run EXCEPT ![w] = run'[w]]
         /\ run'[w].pc # "idle" /\ run'[w].no = run[w].no /\ run'[w].sent = run[w].sent
<1> DEFINE r     == run[w]
           table == Plan(r.job.kind)[r.step]
           seen  == IF table = "season"
                      THEN [EmptyDB EXCEPT !.seasons = SeasonsOf(r.job.year)]
                      ELSE Selected(w, table)
           known == [t \in Tables |-> Learn(r.session[t], seen[t])]
           first == table = "season" /\ r.job.kind = "mapper"
           after == IF first
                      THEN [known EXCEPT !.seasons = {Mapper!SeasonAfter(r.job, FirstId(r.no))}]
                      ELSE known
           more  == r.step < Len(Plan(r.job.kind))
           q     == run'[w]
<1>1. /\ r.pc = "reading" /\ r.queue = {} /\ r.job \in Jobs /\ r.job.kind \in {"mapper", "bootstrap"}
      /\ r.step \in Nat /\ 1 <= r.step /\ r.step <= Len(Plan(r.job.kind)) /\ r.row = 1
      /\ DOMAIN r = {"pc", "no", "job", "step", "row", "session", "flushed", "queue", "sent"}
  BY JobsAre DEF Read, RunRight, Standing, InLoopPhase
<1>2. /\ DOMAIN q = DOMAIN r /\ q.session = after /\ q.flushed = after
      /\ q.queue = Statements(known, after)
      /\ q.step = (IF more THEN r.step + 1 ELSE 1)
      /\ q.pc = (IF more THEN "reading" ELSE "read")
      /\ q.no = r.no /\ q.job = r.job /\ q.row = r.row /\ q.sent = r.sent
      /\ run' = [run EXCEPT ![w] = q]
  BY <1>1 DEF Read
<1>3. /\ First(q) = First(r) /\ Base(q) = Base(r) /\ OwnIds(q) = OwnIds(r)
      /\ OwnIds(r) = First(r)..(Base(r) - 1)
      /\ ~InLoopPhase(q) /\ ~InLoopPhase(r)
  BY <1>1, <1>2 DEF First, Base, OwnIds, NextOf, InLoopPhase
<1>4. /\ ReadSoFar(db, r) /\ r.session["stats"] = {} /\ StatementsRight(db, r)
      /\ \A t \in Tables : r.flushed[t] = r.session[t]
  BY <1>1, <1>3 DEF RunRight, Working, FlushRight
<1>5. /\ r.no \in Nat \ {0} /\ First(r) \in Nat /\ r.no \in DOMAIN fate /\ fate[r.no].how = "open"
      /\ \A id \in OwnIds(r) : id \in Nat /\ RunOf(id) = r.no
  <2>1. Standing(r, fate) /\ WithinIds(r)
    BY DEF RunRight
  <2> HIDE DEF r
  <2>2. r.no \in DOMAIN fate /\ fate[r.no].how = "open"
    BY <2>1 DEF Standing
  <2> QED
    BY <2>1, <2>2, OwnIdsAreOwn
<1>6. \A t \in Tables : \A x \in db[t] : x.id \notin OwnIds(r)
  BY <1>5 DEF DbRight, CommittedRun
<1>7. table = "season" \/ table \in {"seasons", "teamLinks", "teams", "venues", "matchLinks",
                                     "matches", "seasonTeams"}
  <2>1. CASE r.job.kind = "mapper"
    <3>2. Len(Plan(r.job.kind)) = 6
      BY <2>1, Plans
    <3>3. r.step \in Nat /\ 1 <= r.step /\ r.step <= Len(Plan(r.job.kind))
      BY <1>1
    <3> HIDE DEF r
    <3>1. r.step \in 1..6
      BY <3>2, <3>3
    <3> QED
      BY <2>1, <3>1, Plans
  <2>2. CASE r.job.kind = "bootstrap"
    <3>2. Len(Plan(r.job.kind)) = 5
      BY <2>2, Plans
    <3>3. r.step \in Nat /\ 1 <= r.step /\ r.step <= Len(Plan(r.job.kind))
      BY <1>1
    <3> HIDE DEF r
    <3>1. r.step \in 1..5
      BY <3>2, <3>3
    <3> QED
      BY <2>2, <3>1, Plans
  <2> QED
    BY <1>1, <2>1, <2>2
<1>8. /\ first <=> r.step = 1 /\ r.job.kind = "mapper"
      /\ table = "season" <=> first
  BY <1>1, Plans
<1>9. /\ DOMAIN seen = Tables /\ \A t \in Tables : seen[t] \subseteq db[t]
      /\ seen["stats"] = {}
      /\ table \in {"teams", "venues"} => seen[table] = db[table]
      /\ first => \A t \in Tables : seen[t] = IF t = "seasons" THEN SeasonsOf(r.job.year) ELSE {}
  BY <1>7, TableNames DEF Selected, EmptyDB, SeasonsOf
<1> HIDE DEF seen
<1>10. DOMAIN known = Tables /\ \A t \in Tables : known[t] = Learn(r.session[t], seen[t])
  OBVIOUS
<1> HIDE DEF known
<1>11. /\ RowsRight(db, First(r), Base(r), known)
       /\ \A t \in Tables : /\ r.session[t] \subseteq known[t]
                            /\ known[t] \subseteq r.session[t] \cup db[t]
                            /\ \A x \in seen[t] : x.id \in IdsOf(known[t])
  BY <1>4, <1>9, <1>10, LearnedRows DEF ReadSoFar
<1>12. known["stats"] = {}
  BY <1>4, <1>9, <1>10, TableNames DEF Learn
<1> DEFINE n == Mapper!SeasonAfter(r.job, FirstId(r.no))
<1>13. DOMAIN after = Tables
       /\ \A t \in Tables : after[t] = IF first /\ t = "seasons" THEN {n} ELSE known[t]
  BY <1>10, TableNames
<1>14. ASSUME first
       PROVE  /\ \A t \in Tables : known[t] = IF t = "seasons" THEN SeasonsOf(r.job.year) ELSE {}
              /\ n.year = r.job.year /\ Shaped("seasons", n)
              /\ \A s \in SeasonsOf(r.job.year) : Alike("seasons", s, n)
              /\ n.id \in OwnIds(r) \/ \E s \in SeasonsOf(r.job.year) : Alike("seasons", s, n)
  <2>1. r.session = EmptyDB
    BY <1>1, <1>4, <1>8, <1>14 DEF ReadSoFar
  <2>2. \A t \in Tables : r.session[t] = {}
    BY <2>1, TableNames DEF EmptyDB
  <2>3. \A t \in Tables : known[t] = seen[t]
    BY <1>10, <2>2 DEF Learn, IdsOf
  <2>4. /\ n.year = r.job.year /\ Shaped("seasons", n)
        /\ \/ \E s \in SeasonsOf(r.job.year) : Alike("seasons", s, n)
           \/ SeasonsOf(r.job.year) = {} /\ n.id = FirstId(r.no)
    BY <1>1, SeasonRight
  <2>5. \A s, x \in SeasonsOf(r.job.year) : s = x
    BY DEF SeasonsOf, DbRight, SchemaHolds, SeasonsUnique, UniqueOn
  <2>6. FirstId(r.no) \in OwnIds(r)
    BY <1>3, <1>5, <1>8, <1>14 DEF Base, First
  <2> QED
    BY <1>9, <1>14, <2>3, <2>4, <2>5, <2>6
<1> HIDE DEF n, after
<1>15. RowsRight(db, First(r), Base(r), after)
  <2>1. CASE ~first
    BY <1>11, <2>1 DEF after
  <2>2. CASE first
    <3>1. \A t \in Tables : UniqueOn(after[t], LAMBDA x : x.id)
      BY <1>13, <1>14, <2>2 DEF UniqueOn
    <3>2. ASSUME NEW t \in Tables, NEW x \in after[t]
          PROVE  /\ t = "seasons" /\ x = n
      BY <1>13, <1>14, <2>2, <3>2
    <3>3. RefersInto("seasons", n, Known(db, after))
      BY DEF RefersInto
    <3>4. n.id \in First(r)..(Base(r) - 1) \/ \E s \in db["seasons"] : Alike("seasons", s, n)
      BY <1>3, <1>14, <2>2 DEF SeasonsOf
    <3>5. ColumnsHold(after)
      BY <1>14, <2>2, <3>2, ColumnsByRow
    <3> QED
      BY <3>1, <3>2, <3>3, <3>4, <3>5 DEF RowsRight
  <2> QED
    BY <2>1, <2>2
<1>16. after["stats"] = {}
  BY <1>12, <1>13, TableNames
<1>17. \A t \in Tables : \A x \in known[t] : \E y \in after[t] : Alike(t, x, y)
  BY <1>13, <1>14, AlikeItself
<1>18. \A t \in Tables : \A y \in after[t] : y.id \in IdsOf(known[t]) \/ y.id \in OwnIds(r)
  <2>1. CASE ~first
    BY <1>13, <2>1 DEF IdsOf
  <2>2. CASE first
    BY <1>13, <1>14, <2>2 DEF IdsOf, Alike
  <2> QED
    BY <2>1, <2>2
<1>19. Standing(q, fate) /\ WithinIds(q) /\ FoundSoFar(q)
  <2>1. q.step \in Nat /\ 1 <= q.step /\ (more => q.step <= Len(Plan(q.job.kind)))
    BY <1>1, <1>2, Plans
  <2> QED
    BY <1>1, <1>2, <2>1 DEF RunRight, Standing, WithinIds, FoundSoFar, InLoopPhase
<1>20. Working(db, q)
  <2>1. \A t \in Tables \ {"seasons"} : \A x \in after[t] : x.id \notin OwnIds(r)
    BY <1>4, <1>6, <1>11, <1>13 DEF ReadSoFar
  <2>2. q.job.kind = "mapper" => \E s \in after.seasons : s.year = q.job.year
    <3>1. CASE first
      BY <1>2, <1>13, <1>14, <3>1, TableNames
    <3>2. CASE ~first /\ q.job.kind = "mapper"
      BY <1>2, <1>4, <1>8, <1>11, <1>13, <3>2, TableNames DEF ReadSoFar
    <3> QED
      BY <3>1, <3>2
  <2>3. ~(q.pc = "reading" /\ q.step = 1)
    BY <1>1, <1>2
  <2> QED
    BY <1>2, <1>3, <1>13, <1>15, <1>16, <2>1, <2>2, <2>3 DEF Working, ReadSoFar
<1>21. FlushRight(q)
  <2>1. \A t \in Tables : /\ UniqueOn(after[t], LAMBDA x : x.id)
                          /\ \A x \in after[t] : x.id \in IdsOf(after[t]) /\ Alike(t, x, x)
    BY <1>15, AlikeItself DEF RowsRight, IdsOf
  <2>2. ColumnsHold(after)
    BY <1>15 DEF RowsRight
  <2> QED
    BY <1>2, <2>1, <2>2 DEF FlushRight
<1>22. StatementsRight(db, q)
  <2> DEFINE p == [r EXCEPT !.flushed = known]
  <2>1. /\ p.pc = r.pc /\ p.no = r.no /\ p.job = r.job /\ p.session = r.session
        /\ p.queue = r.queue /\ p.sent = r.sent /\ p.flushed = known
    BY <1>1
  <2> HIDE DEF p
  <2>2. OwnIds(p) = OwnIds(r) /\ AllOf(p) = AllOf(r)
    BY <2>1 DEF OwnIds, First, NextOf, Base, InLoopPhase, AllOf, SentOf
  <2>3. StatementsRight(db, p)
    <3>1. ASSUME NEW t \in Tables
          PROVE  /\ \A x \in r.flushed[t] : \E y \in p.flushed[t] : Alike(t, x, y)
                 /\ \A y \in p.flushed[t] : y.id \in OwnIds(p) =>
                      y.id \in OwnIds(r) /\ y.id \in IdsOf(r.flushed[t])
      <4>1. r.flushed[t] \subseteq p.flushed[t] /\ p.flushed[t] \subseteq r.flushed[t] \cup db[t]
        BY <1>4, <1>11, <2>1
      <4> QED
        BY <1>6, <2>2, <4>1, AlikeItself DEF IdsOf
    <3> QED
      BY <1>4, <2>1, <2>2, <3>1, StatementsKeep
  <2>4. \A t \in Tables :
          /\ UniqueOn(known[t], LAMBDA x : x.id) /\ UniqueOn(after[t], LAMBDA x : x.id)
          /\ \A y \in after[t] : Shaped(t, y) /\ RefersInto(t, y, Known(db, after))
    BY <1>11, <1>15, ColumnsByRow DEF RowsRight
  <2>5. p.queue = {} /\ q.sent = p.sent /\ q.queue = Statements(p.flushed, q.flushed)
        /\ OwnIds(q) = OwnIds(p) /\ q.flushed["stats"] = {}
    BY <1>1, <1>2, <1>3, <1>16, <2>1, <2>2
  <2>6. \A t \in Tables :
          /\ UniqueOn(p.flushed[t], LAMBDA x : x.id) /\ UniqueOn(q.flushed[t], LAMBDA x : x.id)
          /\ \A x \in p.flushed[t] : /\ \E y \in q.flushed[t] : Alike(t, x, y)
                                     /\ x.id \in OwnIds(q) => x.id \in OwnIds(p)
          /\ \A y \in q.flushed[t] : /\ Shaped(t, y) /\ RefersInto(t, y, Known(db, q.flushed))
                                     /\ y.id \in IdsOf(p.flushed[t]) \/ y.id \in OwnIds(q)
    BY <1>2, <1>17, <1>18, <2>1, <2>2, <2>4, <2>5
  <2> QED
    BY <2>3, <2>5, <2>6, FlushStates
<1>23. SentApart(db, q)
  <2>1. SentOf(q) = SentOf(r)
    BY <1>2 DEF SentOf
  <2> QED
    BY <2>1 DEF RunRight, SentApart
<1>24. UnseenOverlap(db, overlaps, q)
  <2>1. ASSUME NEW t \in {"teams", "venues"}, HasRead(q, t), NEW y \in db[t]
        PROVE  y.id \in IdsOf(q.session[t]) \/ {RunOf(y.id), q.no} \in overlaps
    <3>1. q.session[t] = known[t] /\ r.session[t] \subseteq known[t]
      BY <1>2, <1>11, <1>13, TableNames
    <3>2. HasRead(r, t) \/ table = t
      <4>1. CASE more
        <5>1. PICK i \in 1..(q.step - 1) : Plan(r.job.kind)[i] = t
          BY <1>2, <2>1, <4>1 DEF HasRead
        <5>2. i \in 1..(r.step - 1) \/ i = r.step
          BY <1>1, <1>2, <4>1, <5>1
        <5> QED
          BY <5>1, <5>2 DEF HasRead
      <4>2. CASE ~more
        <5>1. r.step = Len(Plan(r.job.kind))
          BY <1>1, <4>2, Plans
        <5>2. 2 \in 1..(r.step - 1) /\ 3 \in 1..(r.step - 1) /\ 4 \in 1..(r.step - 1)
          BY <1>1, <5>1, Plans
        <5> QED
          BY <1>1, <5>2, Plans DEF HasRead
      <4> QED
        BY <4>1, <4>2
    <3>3. CASE HasRead(r, t)
      BY <1>2, <3>1, <3>3 DEF RunRight, UnseenOverlap, IdsOf
    <3>4. CASE table = t
      BY <1>9, <1>11, <3>1, <3>4, TableNames
    <3> QED
      BY <3>2, <3>3, <3>4
  <2> QED
    BY <2>1 DEF UnseenOverlap
<1> QED
  BY <1>2, <1>19, <1>20, <1>21, <1>22, <1>23, <1>24 DEF RunRight

-----------------------------------------------------------------------------
(* The loop *)

LEMMA MapperSession ==
  ASSUME NEW e, DOMAIN e = Tables, NEW top, DOMAIN top = {"open", "nextId", "season"},
         NEW f \in Mapper!Dictionaries(e), NEW s, s = Joined(top, Joined(f, e))
  PROVE  /\ DOMAIN s = MapperFields /\ s.nextId = top.nextId /\ s.season = top.season
         /\ \A t \in Tables : s[t] = e[t]
         /\ \A x \in DOMAIN s.teamByExt : \E l \in e.teamLinks : s.teamByExt[x] = l.team
         /\ DOMAIN s.teamByName = {Lowered[n] : n \in Texts(e.teams)}
         /\ \A n \in DOMAIN s.teamByName : s.teamByName[n] \in IdsOf(e.teams)
         /\ DOMAIN s.venueByName = Texts(e.venues)
         /\ \A n \in DOMAIN s.venueByName : s.venueByName[n] \in IdsOf(e.venues)
         /\ \A x \in DOMAIN s.matchByExt : \E l \in e.matchLinks : s.matchByExt[x] = l.match
         /\ \A k \in DOMAIN s.matchByKey : s.matchByKey[k] \in IdsOf(e.matches)
<1>1. PICK teamByExt \in Mapper!LinkedTeams(Mapper!OfSource(e.teamLinks)),
           teamByName \in Mapper!FoldedTeams(e.teams),
           venueByName \in Mapper!NamedVenues(e.venues),
           matchByExt \in Mapper!LinkedMatches(Mapper!OfSource(e.matchLinks)),
           matchByKey \in Mapper!KeyedMatches(e.matches) :
        f = [teamByExt |-> teamByExt, teamByName |-> teamByName, venueByName |-> venueByName,
             matchByExt |-> matchByExt, matchByKey |-> matchByKey]
  BY DEF Mapper!Dictionaries
<1>2. DOMAIN f = {"teamByExt", "teamByName", "venueByName", "matchByExt", "matchByKey"}
  BY <1>1
<1> DEFINE g == Joined(f, e)
<1>3. /\ DOMAIN g = DOMAIN f \cup Tables
      /\ \A k \in DOMAIN f : g[k] = f[k]
      /\ \A t \in Tables : g[t] = e[t]
  BY <1>2, TableNames DEF Joined
<1> HIDE DEF g
<1>4. /\ DOMAIN s = DOMAIN top \cup DOMAIN g
      /\ \A k \in DOMAIN top : s[k] = top[k]
      /\ \A k \in DOMAIN g : k \notin DOMAIN top => s[k] = g[k]
  BY DEF Joined, g
<1>5. /\ DOMAIN s = MapperFields /\ s.nextId = top.nextId /\ s.season = top.season
      /\ \A t \in Tables : s[t] = e[t]
      /\ s.teamByExt = teamByExt /\ s.teamByName = teamByName /\ s.venueByName = venueByName
      /\ s.matchByExt = matchByExt /\ s.matchByKey = matchByKey
  BY <1>1, <1>2, <1>3, <1>4, TableNames DEF MapperFields
<1>6. \A x \in DOMAIN teamByExt : \E l \in e.teamLinks : teamByExt[x] = l.team
  BY DEF Mapper!LinkedTeams, Mapper!DictOf, Mapper!OfSource
<1>7. \A x \in DOMAIN matchByExt : \E l \in e.matchLinks : matchByExt[x] = l.match
  BY DEF Mapper!LinkedMatches, Mapper!DictOf, Mapper!OfSource
<1>8. /\ DOMAIN teamByName = {Lowered[t.name] : t \in e.teams}
      /\ \A n \in DOMAIN teamByName : teamByName[n] \in IdsOf(e.teams)
  BY DEF Mapper!FoldedTeams, Mapper!DictOf, IdsOf
<1>9. /\ DOMAIN venueByName = Texts(e.venues)
      /\ \A n \in DOMAIN venueByName : venueByName[n] \in IdsOf(e.venues)
  BY DEF Mapper!NamedVenues, Mapper!DictOf, IdsOf, Texts
<1>10. \A k \in DOMAIN matchByKey : matchByKey[k] \in IdsOf(e.matches)
  BY DEF Mapper!KeyedMatches, Mapper!DictOf, IdsOf
<1>11. {Lowered[t.name] : t \in e.teams} = {Lowered[n] : n \in Texts(e.teams)}
  BY DEF Texts
<1> QED
  BY <1>5, <1>6, <1>7, <1>8, <1>9, <1>10, <1>11

LEMMA BootstrapSession ==
  ASSUME NEW e, DOMAIN e = Tables, NEW top, DOMAIN top = {"open", "nextId"},
         NEW f \in Bootstrap!Lookups(e), NEW s, s = Joined(top, Joined(f, e))
  PROVE  /\ BootstrapDicts(s) /\ s.nextId = top.nextId
         /\ \A t \in Tables : s[t] = e[t]
<1>1. PICK seasons \in Bootstrap!SeasonIds(e.seasons), teams \in Bootstrap!NameIds(e.teams),
           venues \in Bootstrap!NameIds(e.venues) :
        f = [seasonByYear |-> seasons, teamByName |-> teams, venueByName |-> venues,
             matchKeys |-> {Bootstrap!NaturalKey(m) : m \in e.matches},
             seasonTeamKeys |-> {<<p.season, p.team>> : p \in e.seasonTeams}]
  BY DEF Bootstrap!Lookups
<1>2. DOMAIN f = {"seasonByYear", "teamByName", "venueByName", "matchKeys", "seasonTeamKeys"}
  BY <1>1
<1> DEFINE g == Joined(f, e)
<1>3. /\ DOMAIN g = DOMAIN f \cup Tables
      /\ \A k \in DOMAIN f : g[k] = f[k]
      /\ \A t \in Tables : g[t] = e[t]
  BY <1>2, TableNames DEF Joined
<1> HIDE DEF g
<1>4. /\ DOMAIN s = DOMAIN top \cup DOMAIN g
      /\ \A k \in DOMAIN top : s[k] = top[k]
      /\ \A k \in DOMAIN g : k \notin DOMAIN top => s[k] = g[k]
  BY DEF Joined, g
<1>5. /\ DOMAIN s = BootstrapFields /\ s.nextId = top.nextId
      /\ \A t \in Tables : s[t] = e[t]
      /\ s.seasonByYear = seasons /\ s.teamByName = teams /\ s.venueByName = venues
  BY <1>1, <1>2, <1>3, <1>4, TableNames DEF BootstrapFields
<1>6. /\ DOMAIN seasons = {q.year : q \in e.seasons}
      /\ \A y \in DOMAIN seasons : seasons[y] \in IdsOf(e.seasons)
  BY DEF Bootstrap!SeasonIds, Bootstrap!DictOf, IdsOf
<1>7. /\ DOMAIN teams = Texts(e.teams)
      /\ \A n \in DOMAIN teams : teams[n] \in IdsOf(e.teams)
  BY DEF Bootstrap!NameIds, Bootstrap!DictOf, IdsOf, Texts
<1>8. /\ DOMAIN venues = Texts(e.venues)
      /\ \A n \in DOMAIN venues : venues[n] \in IdsOf(e.venues)
  BY DEF Bootstrap!NameIds, Bootstrap!DictOf, IdsOf, Texts
<1>9. s.seasons = e.seasons /\ s.teams = e.teams /\ s.venues = e.venues
  BY <1>5, TableNames
<1> QED
  BY <1>5, <1>6, <1>7, <1>8, <1>9 DEF BootstrapDicts, BootstrapFields

\* A session over what a run has read.
LEMMA SessionsRight ==
  ASSUME NEW d, NEW r, r.job \in Jobs, r.pc = "read", ReadSoFar(d, r),
         Base(r) \in Nat, First(r) \in Nat, NEW s \in Sessions(r)
  PROVE  /\ SessionRight(d, r.job, First(r), s) /\ s.nextId = Base(r)
         /\ \A t \in Tables : s[t] = r.session[t]
<1> DEFINE e == TablesOf(r.session)
           first == First(r)
           season == CHOOSE x \in e.seasons : x.year = r.job.year
<1>1. DOMAIN e = Tables /\ \A t \in Tables : e[t] = r.session[t]
  BY DEF TablesOf
<1>2. r.job.kind \in {"mapper", "bootstrap"}
  BY JobsAre
<1>3. OwnIds(r) = first..(Base(r) - 1)
  BY DEF OwnIds, NextOf, InLoopPhase
<1>4. e.seasons = r.session["seasons"]
  BY <1>1, TableNames
<1> HIDE DEF e
<1>5. /\ \A t \in Tables : s[t] = e[t]
      /\ s.nextId = Base(r)
      /\ Dicts(d, r.job.kind, s)
  <2>1. CASE r.job.kind = "mapper"
    <3> DEFINE top == [open |-> TRUE, nextId |-> FirstId(r.no) + 1, season |-> season.id]
    <3>1. DOMAIN top = {"open", "nextId", "season"}
          /\ top.nextId = FirstId(r.no) + 1 /\ top.season = season.id
      OBVIOUS
    <3>2. PICK f \in Mapper!Dictionaries(e) : s = Joined(top, Joined(f, e))
      BY <2>1 DEF Sessions, e
    <3>3. season.id \in IdsOf(e.seasons)
      <4>1. \E x \in e.seasons : x.year = r.job.year
        BY <1>4, <2>1 DEF ReadSoFar
      <4> QED
        BY <4>1 DEF IdsOf
    <3> HIDE DEF top, season
    <3>4. /\ DOMAIN s = MapperFields /\ s.nextId = top.nextId /\ s.season = top.season
          /\ \A t \in Tables : s[t] = e[t]
          /\ \A x \in DOMAIN s.teamByExt : \E l \in e.teamLinks : s.teamByExt[x] = l.team
          /\ DOMAIN s.teamByName = {Lowered[n] : n \in Texts(e.teams)}
          /\ \A n \in DOMAIN s.teamByName : s.teamByName[n] \in IdsOf(e.teams)
          /\ DOMAIN s.venueByName = Texts(e.venues)
          /\ \A n \in DOMAIN s.venueByName : s.venueByName[n] \in IdsOf(e.venues)
          /\ \A x \in DOMAIN s.matchByExt : \E l \in e.matchLinks : s.matchByExt[x] = l.match
          /\ \A k \in DOMAIN s.matchByKey : s.matchByKey[k] \in IdsOf(e.matches)
      BY <1>1, <3>1, <3>2, MapperSession
    <3>5. /\ s.seasons = e.seasons /\ s.teams = e.teams /\ s.venues = e.venues
          /\ s.matches = e.matches
      BY <3>4, TableNames
    <3>6. /\ \A l \in e.teamLinks : l.team \in Known(d, r.session)["teams"]
          /\ \A l \in e.matchLinks : l.match \in Known(d, r.session)["matches"]
      <4>1. /\ \A l \in e.teamLinks : RefersInto("teamLinks", l, Known(d, r.session))
            /\ \A l \in e.matchLinks : RefersInto("matchLinks", l, Known(d, r.session))
        BY <1>1, TableNames DEF ReadSoFar, RowsRight
      <4> QED
        BY <4>1 DEF RefersInto
    <3>7. Known(d, r.session) = Known(d, s)
      BY <1>1, <3>4 DEF Known
    <3>8. IdsOf(e.matches) \subseteq Known(d, s)["matches"]
      BY <3>5, TableNames DEF Known
    <3>9. s.nextId = Base(r)
      BY <2>1, <3>1, <3>4 DEF Base, First
    <3>10. MapperDicts(d, s)
      BY <3>1, <3>3, <3>4, <3>5, <3>6, <3>7, <3>8 DEF MapperDicts, MapperFields
    <3> QED
      BY <2>1, <3>4, <3>9, <3>10 DEF Dicts
  <2>2. CASE r.job.kind = "bootstrap"
    <3> DEFINE top == [open |-> TRUE, nextId |-> FirstId(r.no)]
    <3>1. DOMAIN top = {"open", "nextId"} /\ top.nextId = FirstId(r.no)
      OBVIOUS
    <3>2. PICK f \in Bootstrap!Lookups(e) : s = Joined(top, Joined(f, e))
      BY <2>2 DEF Sessions, e
    <3> HIDE DEF top
    <3>3. /\ BootstrapDicts(s) /\ s.nextId = top.nextId
          /\ \A t \in Tables : s[t] = e[t]
      BY <1>1, <3>1, <3>2, BootstrapSession
    <3>4. s.nextId = Base(r)
      BY <2>2, <3>1, <3>3 DEF Base, First
    <3> QED
      BY <2>2, <3>3, <3>4 DEF Dicts
  <2> QED
    BY <1>2, <2>1, <2>2
<1>6. \A t \in Tables : s[t] = r.session[t]
  BY <1>1, <1>5
<1>7. RowsRight(d, first, s.nextId, s)
  <2>1. RowsRight(d, first, Base(r), r.session)
    BY DEF ReadSoFar
  <2>2. Known(d, r.session) = Known(d, s)
    BY <1>6 DEF Known
  <2>3. ColumnsHold(s)
    BY <1>6, <2>1, ColumnsByRow DEF RowsRight
  <2> QED
    BY <1>5, <1>6, <2>1, <2>2, <2>3 DEF RowsRight
<1>8. NamesApart(r.job, first, s)
  <2>1. \A t \in {"teams", "venues"} : \A x \in s[t] : x.id \notin first..(s.nextId - 1)
    BY <1>3, <1>5, <1>6, TableNames DEF ReadSoFar
  <2>2. /\ \A x \in s.teams : x.id \notin first..(s.nextId - 1)
        /\ \A x \in s.venues : x.id \notin first..(s.nextId - 1)
    BY <2>1
  <2> QED
    BY <2>2 DEF NamesApart
<1> QED
  BY <1>5, <1>6, <1>7, <1>8 DEF SessionRight

LEMMA EnterLoopRight ==
  ASSUME NEW how, IsHistory(how), NEW pairs, DOMAIN run = Workers, NEW w \in Workers,
         RunRight(db, how, pairs, run[w]), EnterLoop(w)
  PROVE  RunRight(db, how, pairs, run'[w]) /\ run' = [run EXCEPT ![w] = run'[w]]
         /\ run'[w].pc # "idle" /\ run'[w].no = run[w].no /\ run'[w].sent = run[w].sent
<1> DEFINE r == run[w]   q == run'[w]
<1>1. /\ r.pc = "read" /\ r.job \in Jobs /\ r.step = 1 /\ r.row = 1
      /\ DOMAIN r = {"pc", "no", "job", "step", "row", "session", "flushed", "queue", "sent"}
  BY DEF EnterLoop, RunRight, Standing, InLoopPhase
<1>2. PICK s \in Sessions(r) :
        run' = [run EXCEPT ![w].session = s, ![w].pc = "rows"]
  BY DEF EnterLoop
<1>3. /\ DOMAIN q = DOMAIN r /\ q.session = s /\ q.flushed = r.flushed
      /\ q.queue = r.queue /\ q.step = 1 /\ q.pc = "rows"
      /\ q.no = r.no /\ q.job = r.job /\ q.row = 1 /\ q.sent = r.sent
      /\ run' = [run EXCEPT ![w] = q]
  BY <1>1, <1>2
<1>4. Standing(r, how) /\ WithinIds(r) /\ ReadSoFar(db, r) /\ r.session["stats"] = {}
  BY <1>1 DEF RunRight, Working, InLoopPhase
<1>5. /\ r.no \in Nat \ {0} /\ First(r) \in Nat /\ Base(r) \in Nat
  <2>1. r.no \in Nat \ {0} /\ First(r) \in Nat
    BY <1>4, OwnIdsAreOwn
  <2> QED
    BY <2>1 DEF Base
<1>6. /\ SessionRight(db, r.job, First(r), s) /\ s.nextId = Base(r)
      /\ \A t \in Tables : s[t] = r.session[t]
  BY <1>1, <1>4, <1>5, SessionsRight
<1>7. /\ First(q) = First(r) /\ Base(q) = Base(r) /\ OwnIds(q) = OwnIds(r)
      /\ AllOf(q) = AllOf(r) /\ SentOf(q) = SentOf(r) /\ InLoopPhase(q)
  BY <1>1, <1>3, <1>6 DEF First, Base, OwnIds, NextOf, InLoopPhase, AllOf, SentOf
<1>8. Standing(q, how)
  <2>1. 1 <= Lookups(r.job.kind) /\ Len(r.job.rows) \in Nat
    BY <1>1, JobsAre DEF Lookups
  <2> QED
    BY <1>1, <1>3, <1>4, <2>1 DEF Standing
<1>9. WithinIds(q)
  <2>1. Base(q) <= First(q) + 1
    BY <1>5, <1>7 DEF Base
  <2> QED
    BY <1>3, <1>5, <1>6, <1>7, <2>1 DEF WithinIds, IdsPerTurn
<1>10. FoundSoFar(q)
  BY <1>3 DEF FoundSoFar
<1>11. Working(db, q)
  BY <1>3, <1>4, <1>6, <1>7, TableNames DEF Working
<1>12. FlushRight(q)
  BY <1>1, <1>3, <1>6, <1>7 DEF FlushRight, RunRight
<1>13. StatementsRight(db, q)
  <2>1. StatementsRight(db, r)
    BY DEF RunRight
  <2>2. \A t \in Tables : \A x \in r.flushed[t] : x.id \in IdsOf(r.flushed[t]) /\ Alike(t, x, x)
    BY AlikeItself DEF IdsOf
  <2> QED
    BY <1>3, <1>7, <2>1, <2>2, StatementsKeep
<1>14. SentApart(db, q)
  BY <1>7 DEF RunRight, SentApart
<1>15. UnseenOverlap(db, pairs, q)
  <2>1. \A t \in {"teams", "venues"} : HasRead(r, t) /\ q.session[t] = r.session[t]
    BY <1>1, <1>3, <1>6, TableNames DEF HasRead
  <2> QED
    BY <1>3, <2>1 DEF RunRight, UnseenOverlap
<1> QED
  BY <1>3, <1>8, <1>9, <1>10, <1>11, <1>12, <1>13, <1>14, <1>15 DEF RunRight

\* No importer of fixtures touches team_season_stats, and neither touches the
\* tables that only the other one writes.
Spared(s, u) ==
  DOMAIN u = DOMAIN s /\ \A t \in {"stats", "teamLinks", "matchLinks"} : u[t] = s[t]

LEMMA BootstrapSpares ==
  ASSUME NEW s, {"stats", "teamLinks", "matchLinks"} \subseteq DOMAIN s, NEW rows, NEW r, NEW name, NEW season, NEW home, NEW away,
         {"seasons", "teams", "venues", "matches", "seasonTeams", "nextId", "seasonByYear",
          "teamByName", "venueByName", "matchKeys", "seasonTeamKeys"} \subseteq DOMAIN s
  PROVE  /\ Spared(s, Bootstrap!WithSeason(s, rows, r))
         /\ Spared(s, Bootstrap!WithTeam(s, name))
         /\ Spared(s, Bootstrap!WithVenue(s, name))
         /\ Spared(s, Bootstrap!WithParticipant(s, season, home))
         /\ Spared(s, Bootstrap!WithMatch(s, r, season, home, away))
<1>1. Spared(s, Bootstrap!WithSeason(s, rows, r))
  BY DEF Spared, Bootstrap!WithSeason
<1>2. Spared(s, Bootstrap!WithTeam(s, name))
  BY DEF Spared, Bootstrap!WithTeam
<1>3. Spared(s, Bootstrap!WithVenue(s, name))
  BY DEF Spared, Bootstrap!WithVenue
<1>4. Spared(s, Bootstrap!WithParticipant(s, season, home))
  BY DEF Spared, Bootstrap!WithParticipant
<1>5. Spared(s, Bootstrap!WithMatch(s, r, season, home, away))
  BY DEF Spared, Bootstrap!WithMatch
<1> QED
  BY <1>1, <1>2, <1>3, <1>4, <1>5

LEMMA RowSpares ==
  ASSUME NEW s, DOMAIN s = BootstrapFields, NEW rows, NEW r
  PROVE  Spared(s, Bootstrap!AfterRow(s, rows, r))
<1> DEFINE a == Bootstrap!WithSeason(s, rows, r)
           b == Bootstrap!WithTeam(a, r.home)
           c == Bootstrap!WithTeam(b, r.away)
           t == Bootstrap!WithVenue(c, r.venue)
           season == t.seasonByYear[r.year]
           home == t.teamByName[r.home]
           away == t.teamByName[r.away]
           e == Bootstrap!WithParticipant(t, season, home)
           g == Bootstrap!WithParticipant(e, season, away)
           h == Bootstrap!WithMatch(g, r, season, home, away)
           Whole(x) == /\ {"stats", "teamLinks", "matchLinks"} \subseteq DOMAIN x
                       /\ {"seasons", "teams", "venues", "matches", "seasonTeams", "nextId",
                           "seasonByYear", "teamByName", "venueByName", "matchKeys",
                           "seasonTeamKeys"} \subseteq DOMAIN x
<1>0. h = Bootstrap!AfterRow(s, rows, r)
  BY DEF Bootstrap!AfterRow
<1>1. Whole(s) /\ \A x, y : Spared(x, y) /\ Whole(x) => Whole(y)
  BY TableNames DEF BootstrapFields, Spared
<1> HIDE DEF Whole, season, home, away
<1>2. \A x, y, z : Spared(x, y) /\ Spared(y, z) => Spared(x, z)
  BY DEF Spared
<1>3. Spared(s, a)
  BY <1>1, BootstrapSpares DEF Whole
<1> HIDE DEF a
<1>4. Spared(a, b)
  BY <1>1, <1>3, BootstrapSpares DEF Whole
<1> HIDE DEF b
<1>5. Spared(b, c)
  BY <1>1, <1>3, <1>4, BootstrapSpares DEF Whole
<1> HIDE DEF c
<1>6. Spared(c, t)
  BY <1>1, <1>3, <1>4, <1>5, BootstrapSpares DEF Whole
<1> HIDE DEF t
<1>7. Spared(t, e)
  BY <1>1, <1>3, <1>4, <1>5, <1>6, BootstrapSpares DEF Whole
<1> HIDE DEF e
<1>8. Spared(e, g)
  BY <1>1, <1>3, <1>4, <1>5, <1>6, <1>7, BootstrapSpares DEF Whole
<1> HIDE DEF g
<1>9. Spared(g, h)
  BY <1>1, <1>3, <1>4, <1>5, <1>6, <1>7, <1>8, BootstrapSpares DEF Whole
<1> QED
  BY <1>0, <1>2, <1>3, <1>4, <1>5, <1>6, <1>7, <1>8, <1>9

\* A mapper has its season and knows no participants, a bootstrap no links.
LeavesAlone(job, s, u) ==
  /\ u["stats"] = s["stats"]
  /\ job.kind = "mapper" => u["seasons"] = s["seasons"] /\ u["seasonTeams"] = s["seasonTeams"]
  /\ job.kind = "bootstrap" => u["teamLinks"] = s["teamLinks"] /\ u["matchLinks"] = s["matchLinks"]

LEMMA TurnSpares ==
  ASSUME NEW d, NEW job \in Jobs, NEW s, Dicts(d, job.kind, s), NEW raw,
         NEW i \in 1..Lookups(job.kind)
  PROVE  LeavesAlone(job, s, After(job, s, raw, i))
<1>1. job.kind \in {"mapper", "bootstrap"}
  BY JobsAre
<1>2. CASE job.kind = "mapper"
  <2>0. DOMAIN s = MapperFields /\ {"stats", "seasons", "seasonTeams"} \subseteq DOMAIN s
    BY <1>2, TableNames DEF Dicts, MapperDicts, MapperFields
  <2>1. CASE i \in {1, 2}
    BY <1>2, <2>0, <2>1 DEF After, Mapper!ResolveTeam, LeavesAlone
  <2>2. CASE i = 3
    BY <1>2, <2>0, <2>2 DEF After, Mapper!ResolveVenue, LeavesAlone
  <2>3. CASE i = 4
    <3>1. After(job, s, raw, i) = Mapper!UpsertMatch(s, raw)
      BY <1>2, <2>3 DEF After
    <3>2. \A t \in {"stats", "seasons", "seasonTeams"} : Mapper!UpsertMatch(s, raw)[t] = s[t]
      BY <2>0 DEF Mapper!UpsertMatch
    <3> QED
      BY <1>2, <3>1, <3>2 DEF LeavesAlone
  <2> QED
    BY <1>2, <2>1, <2>2, <2>3 DEF Lookups
<1>3. CASE job.kind = "bootstrap"
  <2>0. /\ DOMAIN s = BootstrapFields /\ {"stats", "teamLinks", "matchLinks"} \subseteq DOMAIN s
        /\ {"seasons", "teams", "venues", "matches", "seasonTeams", "nextId", "seasonByYear",
            "teamByName", "venueByName", "matchKeys", "seasonTeamKeys"} \subseteq DOMAIN s
    BY <1>3, TableNames DEF Dicts, BootstrapDicts, BootstrapFields
  <2>1. /\ Spared(s, Bootstrap!WithSeason(s, job.rows, raw))
        /\ Spared(s, Bootstrap!WithTeam(s, raw.home)) /\ Spared(s, Bootstrap!WithTeam(s, raw.away))
        /\ Spared(s, Bootstrap!WithVenue(s, raw.venue))
        /\ Spared(s, Bootstrap!AfterRow(s, job.rows, raw))
    BY <2>0, BootstrapSpares, RowSpares
  <2>2. i \in {1, 2, 3, 4, 5}
    BY <1>3 DEF Lookups
  <2> QED
    BY <1>3, <2>1, <2>2 DEF After, Spared, LeavesAlone
<1> QED
  BY <1>1, <1>2, <1>3

LEMMA SkipRight ==
  ASSUME NEW how, NEW pairs, DOMAIN run = Workers, NEW w \in Workers,
         IsHistory(how), RunRight(db, how, pairs, run[w]), Skip(w)
  PROVE  RunRight(db, how, pairs, run'[w]) /\ run' = [run EXCEPT ![w] = run'[w]]
         /\ run'[w].pc # "idle" /\ run'[w].no = run[w].no /\ run'[w].sent = run[w].sent
<1> DEFINE r == run[w]   q == run'[w]
<1>1. /\ r.pc = "rows" /\ r.job \in Jobs /\ r.row <= Len(r.job.rows) /\ PassedOver(w)
      /\ DOMAIN r = {"pc", "no", "job", "step", "row", "session", "flushed", "queue", "sent"}
      /\ run' = [run EXCEPT ![w].row = @ + 1] /\ Standing(r, how)
  BY DEF Skip, InLoop, RunRight, Standing
<1>2. /\ DOMAIN q = DOMAIN r /\ q.session = r.session /\ q.flushed = r.flushed
      /\ q.queue = r.queue /\ q.step = r.step /\ q.pc = r.pc
      /\ q.no = r.no /\ q.job = r.job /\ q.row = r.row + 1 /\ q.sent = r.sent
      /\ run' = [run EXCEPT ![w] = q]
  BY <1>1
<1>3. /\ First(q) = First(r) /\ Base(q) = Base(r) /\ NextOf(q) = NextOf(r) /\ OwnIds(q) = OwnIds(r)
      /\ AllOf(q) = AllOf(r) /\ SentOf(q) = SentOf(r) /\ InLoopPhase(q) /\ InLoopPhase(r)
  BY <1>1, <1>2 DEF First, Base, OwnIds, NextOf, InLoopPhase, AllOf, SentOf
<1>4. r.step = 1
  BY <1>1 DEF Standing, PassedOver
<1>5. r.row \in Nat /\ Len(r.job.rows) \in Nat /\ r.row >= 1
  BY <1>1, JobsAre DEF Standing
<1>6. First(r) \in Nat
  BY <1>1, OwnIdsAreOwn DEF RunRight
<1>7. Standing(q, how)
  BY <1>1, <1>2, <1>3, <1>4, <1>5 DEF Standing
<1>8. WithinIds(q)
  <2>1. /\ r.session.nextId \in Nat /\ Base(r) <= r.session.nextId
        /\ r.session.nextId <= First(r) + 1 + 20 * (r.row - 1) + 2 * (1 - 1)
    BY <1>3, <1>4 DEF RunRight, WithinIds, IdsPerTurn
  <2>2. r.session.nextId <= First(r) + 1 + 20 * (r.row + 1 - 1) + 2 * (1 - 1)
    BY <1>5, <1>6, <2>1
  <2>3. q.row = r.row + 1 /\ q.step = 1 /\ q.session = r.session
        /\ First(q) = First(r) /\ Base(q) = Base(r)
    BY <1>2, <1>3, <1>4
  <2> HIDE DEF q, r
  <2>4. q.session.nextId <= First(q) + 1 + 20 * (q.row - 1) + 2 * (q.step - 1)
    BY <1>5, <1>6, <2>2, <2>3
  <2>5. q.session.nextId \in Nat /\ Base(q) <= q.session.nextId
    BY <2>1, <2>3
  <2> QED
    BY <2>4, <2>5 DEF WithinIds, IdsPerTurn
<1>9. FoundSoFar(q)
  BY <1>2, <1>4 DEF FoundSoFar
<1>10. Working(db, q) /\ FlushRight(q)
  BY <1>2, <1>3 DEF RunRight, Working, FlushRight
<1>11. StatementsRight(db, q)
  <2>1. StatementsRight(db, r)
    BY DEF RunRight
  <2>2. \A t \in Tables : \A x \in r.flushed[t] : x.id \in IdsOf(r.flushed[t]) /\ Alike(t, x, x)
    BY AlikeItself DEF IdsOf
  <2> QED
    BY <1>2, <1>3, <2>1, <2>2, StatementsKeep
<1>12. SentApart(db, q)
  BY <1>3 DEF RunRight, SentApart
<1>13. UnseenOverlap(db, pairs, q)
  BY <1>2 DEF RunRight, UnseenOverlap, HasRead
<1> QED
  BY <1>1, <1>2, <1>7, <1>8, <1>9, <1>10, <1>11, <1>12, <1>13 DEF RunRight

LEMMA ReservedIds ==
  ASSUME NEW how, IsHistory(how), NEW d, DbRight(d, how), NEW r, Standing(r, how)
  PROVE  Reserved(d, First(r)) /\ r.no \in Nat \ {0}
<1>1. r.no \in Nat \ {0} /\ how[r.no].how = "open"
  BY DEF Standing, IsHistory
<1>2. First(r) \in Nat /\ IdsPerRun \in Nat
  BY <1>1, ImportsAssumption DEF First, FirstId
<1>3. ASSUME NEW t \in Tables, NEW x \in d[t], x.id \in First(r)..(First(r) + IdsPerRun - 1)
      PROVE  FALSE
  <2>1. RunOf(x.id) = r.no
    BY <1>1, <1>2, <1>3, RunOfOwnId DEF First
  <2> QED
    BY <1>1, <1>3, <2>1 DEF DbRight, CommittedRun
<1> QED
  BY <1>1, <1>2, <1>3 DEF Reserved

\* The ids of a turn, counted.
LEMMA TurnFits ==
  ASSUME NEW first \in Nat, NEW next \in Nat, NEW row \in Nat, row >= 1, NEW len \in Nat,
         NEW step \in Nat, step >= 1, step <= 5, NEW all \in Nat, 20 * len < all, row <= len,
         next <= first + 1 + 20 * (row - 1) + 2 * (step - 1), NEW then \in Nat
  PROVE  /\ next + 10 <= first + all
         /\ then <= next + 10 => then <= first + 1 + 20 * (row + 1 - 1) + 2 * (1 - 1)
         /\ then <= next + 2 => then <= first + 1 + 20 * (row - 1) + 2 * (step + 1 - 1)
OBVIOUS

LEMMA TurnRight ==
  ASSUME NEW how, IsHistory(how), DbRight(db, how), NEW pairs, DOMAIN run = Workers,
         NEW w \in Workers, RunRight(db, how, pairs, run[w]), Turn(w)
  PROVE  RunRight(db, how, pairs, run'[w]) /\ run' = [run EXCEPT ![w] = run'[w]]
         /\ run'[w].pc # "idle" /\ run'[w].no = run[w].no /\ run'[w].sent = run[w].sent
<1> DEFINE r == run[w]   q == run'[w]   s == r.session   raw == r.job.rows[r.row]
           last == r.step = Lookups(r.job.kind)
           after == After(r.job, r.session, raw, r.step)
           made == {t \in FlushedAtOnce(r.job.kind) : IdsOf(after[t]) # IdsOf(r.session[t])}
           shown == [t \in Tables |-> IF t \in made THEN after[t] ELSE r.session[t]]
           first == First(r)
<1>1. /\ r.pc = "rows" /\ r.job \in Jobs /\ r.row <= Len(r.job.rows) /\ ~PassedOver(w)
      /\ r.queue = {} /\ InLoopPhase(r)
      /\ DOMAIN r = {"pc", "no", "job", "step", "row", "session", "flushed", "queue", "sent"}
      /\ Standing(r, how) /\ WithinIds(r) /\ FoundSoFar(r) /\ Working(db, r) /\ FlushRight(r)
      /\ StatementsRight(db, r) /\ SentApart(db, r) /\ UnseenOverlap(db, pairs, r)
  BY DEF Turn, InLoop, RunRight, Standing, InLoopPhase
<1>2. /\ DOMAIN q = DOMAIN r /\ q.session = after
      /\ q.queue = (IF made = {} THEN {} ELSE Statements(r.flushed, shown))
      /\ q.flushed = (IF made = {} THEN r.flushed ELSE shown)
      /\ q.step = (IF last THEN 1 ELSE r.step + 1)
      /\ q.row = (IF last THEN r.row + 1 ELSE r.row)
      /\ q.pc = "rows" /\ q.no = r.no /\ q.job = r.job /\ q.sent = r.sent
      /\ run' = [run EXCEPT ![w] = q]
  BY <1>1 DEF Turn
<1>3. /\ r.row \in Nat /\ Len(r.job.rows) \in Nat /\ r.row >= 1 /\ r.row \in DOMAIN r.job.rows
      /\ r.job.kind \in {"mapper", "bootstrap"} /\ IdsPerRun \in Nat
      /\ 20 * Len(r.job.rows) < IdsPerRun
  BY <1>1, JobsAre DEF Standing, IdsPerTurn
<1>4. /\ r.step \in Nat /\ r.step >= 1 /\ r.step <= Lookups(r.job.kind)
      /\ Lookups(r.job.kind) \in {4, 5}
  BY <1>1, <1>3 DEF Standing, Lookups
<1>5. Reserved(db, first) /\ first \in Nat
  BY <1>1, ReservedIds DEF Reserved
<1>6. SessionRight(db, r.job, first, s) /\ s["stats"] = {} /\ s.nextId \in Nat
  BY <1>1 DEF Working, SessionRight
<1>7. /\ first <= Base(r) /\ Base(r) \in Nat /\ Base(r) <= s.nextId
      /\ s.nextId <= first + 1 + 20 * (r.row - 1) + 2 * (r.step - 1)
  BY <1>1, <1>5 DEF WithinIds, Base, IdsPerTurn
<1>8. first <= s.nextId /\ s.nextId + 10 <= first + IdsPerRun
  <2>1. r.step <= 5 /\ r.row <= Len(r.job.rows)
    BY <1>1, <1>4
  <2>2. first <= s.nextId
    BY <1>5, <1>6, <1>7
  <2> HIDE DEF r, s, first
  <2> QED
    BY <1>3, <1>4, <1>5, <1>6, <1>7, <2>1, <2>2, TurnFits
<1>9. Found(r.job, s, raw, r.step)
  BY <1>1 DEF FoundSoFar, Found
<1>10. r.step \in 1..Lookups(r.job.kind)
  BY <1>4
<1>11. /\ Looked(db, r.job, first, s, after, IF last THEN 10 ELSE 2)
       /\ ~last => Found(r.job, after, raw, r.step + 1)
  <2>1. ~last => r.step < Lookups(r.job.kind)
    BY <1>4
  <2> QED
    BY <1>1, <1>3, <1>5, <1>6, <1>8, <1>9, <1>10, <2>1, AfterRight
<1>12. after["stats"] = {}
  <2>1. Dicts(db, r.job.kind, s) /\ r.job \in Jobs
    BY <1>1, <1>6 DEF SessionRight
  <2> HIDE DEF r, s, raw
  <2>2. LeavesAlone(r.job, s, After(r.job, s, raw, r.step))
    BY <1>10, <2>1, TurnSpares
  <2> QED
    BY <1>6, <2>2 DEF LeavesAlone, raw, s, r
<1>13. made \subseteq {"seasons", "teams", "venues", "matches"}
       /\ \A t \in {"seasons", "teams", "venues"} : t \notin made => IdsOf(after[t]) = IdsOf(s[t])
  BY DEF FlushedAtOnce
<1>14. DOMAIN shown = Tables /\ \A t \in Tables : shown[t] = IF t \in made THEN after[t] ELSE s[t]
  OBVIOUS
<1>15. ~PassedOver(w) => ~(r.job.kind = "mapper" /\ raw.matchday = None)
  BY DEF PassedOver
<1> HIDE DEF after, made, shown
<1>16. /\ SessionRight(db, r.job, first, after) /\ RowsMoved(s, after)
       /\ after.nextId \in Nat /\ s.nextId <= after.nextId
       /\ after.nextId <= s.nextId + (IF last THEN 10 ELSE 2)
  BY <1>11 DEF Looked, RowsMoved
<1>17. after.nextId <= first + IdsPerRun
  <2>1. after.nextId <= s.nextId + 10
    BY <1>6, <1>16
  <2> HIDE DEF r, s, first
  <2> QED
    BY <1>3, <1>5, <1>6, <1>8, <1>16, <2>1
<1>18. /\ First(q) = first /\ Base(q) = Base(r) /\ SentOf(q) = SentOf(r) /\ InLoopPhase(q)
       /\ OwnIds(r) = first..(s.nextId - 1) /\ OwnIds(q) = first..(after.nextId - 1)
  BY <1>1, <1>2 DEF First, Base, OwnIds, NextOf, InLoopPhase, SentOf
<1>19. /\ \A id \in OwnIds(r) : id \in OwnIds(q)
       /\ \A id \in s.nextId..(after.nextId - 1) : id \in OwnIds(q)
       /\ \A id \in OwnIds(q) : id \in first..(first + IdsPerRun - 1)
  BY <1>3, <1>5, <1>6, <1>8, <1>16, <1>17, <1>18
<1> HIDE DEF r, q, s, raw, last, first
<1>20. ASSUME NEW t \in Tables
       PROVE  /\ UniqueOn(s[t], LAMBDA x : x.id) /\ UniqueOn(after[t], LAMBDA x : x.id)
              /\ \A x \in s[t] : /\ Shaped(t, x) /\ RefersInto(t, x, Known(db, s))
                                 /\ \E y \in after[t] : Alike(t, x, y)
                                 /\ x.id \in OwnIds(q) => x.id \in OwnIds(r)
                                 /\ x.id \in IdsOf(r.flushed[t]) \/ x.id \in OwnIds(r)
              /\ \A y \in after[t] : /\ Shaped(t, y) /\ RefersInto(t, y, Known(db, after))
                                     /\ (\E x \in s[t] : Alike(t, x, y)) \/ y.id \in OwnIds(q)
              /\ UniqueOn(r.flushed[t], LAMBDA x : x.id)
              /\ \A x \in r.flushed[t] : \E y \in s[t] : Alike(t, x, y)
  <2>1. RowsRight(db, first, s.nextId, s) /\ RowsRight(db, first, after.nextId, after)
    BY <1>6, <1>16 DEF SessionRight
  <2>2. /\ \A x \in s[t] : Shaped(t, x) /\ RefersInto(t, x, Known(db, s))
        /\ \A x \in after[t] : Shaped(t, x) /\ RefersInto(t, x, Known(db, after))
        /\ UniqueOn(s[t], LAMBDA x : x.id) /\ UniqueOn(after[t], LAMBDA x : x.id)
    BY <2>1, ColumnsByRow DEF RowsRight
  <2>3. /\ \A x \in s[t] : \E y \in after[t] : Alike(t, x, y)
        /\ \A y \in after[t] : (\E x \in s[t] : Alike(t, x, y)) \/ y.id \in OwnIds(q)
    BY <1>16, <1>19 DEF RowsMoved
  <2>4. \A x \in s[t] : x.id \in OwnIds(q) => x.id \in OwnIds(r)
    <3>1. \A x \in s[t] : x.id \in OwnIds(r) \/ \E y \in db[t] : y.id = x.id
      BY <1>18, <2>1 DEF RowsRight, Alike
    <3>2. \A y \in db[t] : y.id \notin OwnIds(q)
      BY <1>5, <1>19 DEF Reserved
    <3> QED
      BY <3>1, <3>2
  <2>5. /\ \A x \in s[t] : x.id \in IdsOf(r.flushed[t]) \/ x.id \in OwnIds(r)
        /\ UniqueOn(r.flushed[t], LAMBDA x : x.id)
        /\ \A x \in r.flushed[t] : \E y \in s[t] : Alike(t, x, y)
    BY <1>1 DEF FlushRight, s
  <2> QED
    BY <2>2, <2>3, <2>4, <2>5
<1>21. \A t \in Tables : /\ IdsOf(r.flushed[t]) \subseteq IdsOf(s[t])
                         /\ IdsOf(s[t]) \subseteq IdsOf(after[t])
                         /\ IdsOf(s[t]) \subseteq IdsOf(shown[t])
  <2>1. ASSUME NEW t \in Tables
        PROVE  /\ IdsOf(r.flushed[t]) \subseteq IdsOf(s[t])
               /\ IdsOf(s[t]) \subseteq IdsOf(after[t])
    <3>1. /\ \A x \in r.flushed[t] : \E y \in s[t] : x.id = y.id
          /\ \A x \in s[t] : \E y \in after[t] : x.id = y.id
      BY <1>20 DEF Alike
    <3> QED
      BY <3>1 DEF IdsOf
  <2> QED
    BY <1>14, <2>1
<1>22. \A t \in {"seasons", "teams", "venues"} : IdsOf(shown[t]) = IdsOf(after[t])
  BY <1>13, <1>14, TableNames
<1>23. ASSUME NEW t \in Tables
       PROVE  /\ UniqueOn(shown[t], LAMBDA x : x.id)
              /\ \A x \in r.flushed[t] : /\ \E y \in shown[t] : Alike(t, x, y)
                                         /\ x.id \in OwnIds(q) => x.id \in OwnIds(r)
              /\ \A y \in shown[t] : /\ Shaped(t, y) /\ RefersInto(t, y, Known(db, shown))
                                     /\ y.id \in IdsOf(r.flushed[t]) \/ y.id \in OwnIds(q)
                                     /\ \E z \in after[t] : Alike(t, y, z)
  <2>1. CASE t \notin made
    <3>1. shown[t] = s[t]
      BY <1>14, <2>1
    <3>2. \A u \in Tables : Known(db, s)[u] \subseteq Known(db, shown)[u]
      BY <1>21 DEF Known
    <3>3. \A y \in s[t] : RefersInto(t, y, Known(db, shown))
      BY <1>20, <3>2, RefersFurther
    <3>4. \A x \in r.flushed[t] : x.id \in OwnIds(q) => x.id \in OwnIds(r)
      BY <1>20 DEF Alike
    <3> QED
      BY <1>19, <1>20, <3>1, <3>3, <3>4
  <2>2. CASE t \in made
    <3>1. shown[t] = after[t] /\ t \in {"seasons", "teams", "venues", "matches"}
      BY <1>13, <1>14, <2>2
    <3>2. \A u \in {"seasons", "teams", "venues"} : Known(db, shown)[u] = Known(db, after)[u]
      BY <1>22, TableNames DEF Known
    <3>3. \A y \in after[t] : RefersInto(t, y, Known(db, shown))
      <4>1. \A y \in after[t] : RefersInto(t, y, Known(db, after))
        BY <1>20
      <4> QED
        BY <3>1, <3>2, <4>1 DEF RefersInto
    <3>4. \A x \in r.flushed[t] : x.id \in OwnIds(q) => x.id \in OwnIds(r)
      BY <1>20 DEF Alike
    <3>5. \A x \in r.flushed[t] : \E y \in after[t] : Alike(t, x, y)
      BY <1>20, AlikeItself
    <3>6. \A y \in after[t] : y.id \in IdsOf(r.flushed[t]) \/ y.id \in OwnIds(q)
      <4>1. \A y \in after[t] : (\E x \in s[t] : x.id = y.id) \/ y.id \in OwnIds(q)
        BY <1>20 DEF Alike
      <4> QED
        BY <1>19, <1>20, <4>1
    <3> QED
      BY <1>20, <3>1, <3>3, <3>4, <3>5, <3>6, AlikeItself
  <2> QED
    BY <2>1, <2>2
<1>24. shown["stats"] = {}
  BY <1>6, <1>13, <1>14, TableNames
<1>25. Standing(q, how)
  <2>1. q.step \in Nat /\ 1 <= q.step /\ q.step <= Lookups(q.job.kind)
    BY <1>2, <1>4 DEF last
  <2>2. q.row \in 1..(Len(q.job.rows) + 1)
    BY <1>1, <1>2, <1>3
  <2>3. q.step > 1 => q.row <= Len(q.job.rows)
                      /\ ~(q.job.kind = "mapper" /\ q.job.rows[q.row].matchday = None)
    BY <1>1, <1>2, <1>15 DEF raw
  <2> QED
    BY <1>1, <1>2, <1>18, <2>1, <2>2, <2>3 DEF Standing
<1>26. WithinIds(q)
  <2>1. Base(q) <= after.nextId
    BY <1>6, <1>7, <1>16, <1>18
  <2>2. after.nextId <= first + 1 + 20 * (q.row - 1) + 2 * (q.step - 1)
    <3>1. CASE last
      <4>1. q.row = r.row + 1 /\ q.step = 1 /\ after.nextId <= s.nextId + 10 /\ r.step <= 5
        BY <1>2, <1>4, <1>16, <3>1
      <4>2. after.nextId <= first + 1 + 20 * (r.row + 1 - 1) + 2 * (1 - 1)
        BY <1>1, <1>3, <1>4, <1>5, <1>6, <1>7, <1>16, <4>1, TurnFits
      <4>3. q.row - 1 = r.row + 1 - 1 /\ q.step - 1 = 1 - 1
        BY <1>3, <4>1
      <4> QED
        BY <4>2, <4>3
    <3>2. CASE ~last
      <4>1. q.row = r.row /\ q.step = r.step + 1 /\ after.nextId <= s.nextId + 2
        BY <1>2, <1>16, <3>2
      <4>2. r.step <= 5
        BY <1>4
      <4>3. after.nextId <= first + 1 + 20 * (r.row - 1) + 2 * (r.step + 1 - 1)
        BY <1>1, <1>3, <1>4, <1>5, <1>6, <1>7, <1>16, <4>1, <4>2, TurnFits
      <4>4. q.row - 1 = r.row - 1 /\ q.step - 1 = r.step + 1 - 1
        BY <1>3, <1>4, <4>1
      <4> QED
        BY <4>3, <4>4
    <3> QED
      BY <3>1, <3>2
  <2> QED
    BY <1>2, <1>16, <1>18, <2>1, <2>2 DEF WithinIds, IdsPerTurn
<1>27. FoundSoFar(q)
  <2>1. CASE last
    BY <1>2, <2>1 DEF FoundSoFar
  <2>2. CASE ~last
    BY <1>2, <1>11, <2>2 DEF FoundSoFar, Found, raw
  <2> QED
    BY <2>1, <2>2
<1>28. Working(db, q)
  BY <1>2, <1>12, <1>16, <1>18 DEF Working
<1>29. FlushRight(q)
  <2>1. ASSUME NEW t \in Tables
        PROVE  /\ UniqueOn(q.flushed[t], LAMBDA x : x.id)
               /\ \A x \in q.flushed[t] : Shaped(t, x) /\ \E y \in after[t] : Alike(t, x, y)
               /\ \A y \in after[t] : y.id \in IdsOf(q.flushed[t]) \/ y.id \in OwnIds(q)
    <3>1. \A y \in after[t] : y.id \in IdsOf(r.flushed[t]) \/ y.id \in OwnIds(q)
      <4>1. \A y \in after[t] : (\E x \in s[t] : x.id = y.id) \/ y.id \in OwnIds(q)
        BY <1>20 DEF Alike
      <4> QED
        BY <1>19, <1>20, <4>1
    <3>2. CASE q.flushed = r.flushed
      <4>1. \A x \in r.flushed[t] : Shaped(t, x)
        BY <1>1, ColumnsByRow DEF FlushRight
      <4> QED
        BY <1>20, <3>1, <3>2, <4>1, AlikeItself
    <3>3. CASE q.flushed = shown
      BY <1>21, <1>23, <3>1, <3>3
    <3> QED
      BY <1>2, <3>2, <3>3
  <2>2. ColumnsHold(q.flushed)
    BY <2>1, ColumnsByRow
  <2> QED
    BY <1>2, <2>1, <2>2 DEF FlushRight
<1>30. StatementsRight(db, q)
  <2>1. CASE made = {}
    <3>1. AllOf(q) = AllOf(r) /\ q.flushed = r.flushed
      BY <1>1, <1>2, <1>18, <2>1 DEF AllOf
    <3>2. \A t \in Tables : \A x \in r.flushed[t] : x.id \in IdsOf(r.flushed[t]) /\ Alike(t, x, x)
      BY AlikeItself DEF IdsOf
    <3> QED
      BY <1>1, <1>2, <1>19, <1>23, <3>1, <3>2, StatementsKeep
  <2>2. CASE made # {}
    <3>1. q.flushed = shown /\ q.queue = Statements(r.flushed, shown)
      BY <1>2, <2>2
    <3> QED
      <4>1. r.queue = {} /\ StatementsRight(db, r) /\ q.sent = r.sent
            /\ q.queue = Statements(r.flushed, q.flushed) /\ q.flushed["stats"] = {}
        BY <1>1, <1>2, <1>24, <3>1
      <4>2. \A t \in Tables :
              /\ UniqueOn(r.flushed[t], LAMBDA x : x.id)
              /\ UniqueOn(q.flushed[t], LAMBDA x : x.id)
              /\ \A x \in r.flushed[t] : /\ \E y \in q.flushed[t] : Alike(t, x, y)
                                         /\ x.id \in OwnIds(q) => x.id \in OwnIds(r)
              /\ \A y \in q.flushed[t] :
                   /\ Shaped(t, y) /\ RefersInto(t, y, Known(db, q.flushed))
                   /\ y.id \in IdsOf(r.flushed[t]) \/ y.id \in OwnIds(q)
        BY <1>20, <1>23, <3>1
      <4> QED
        BY <1>19, <4>1, <4>2, FlushStates
  <2> QED
    BY <2>1, <2>2
<1>31. SentApart(db, q)
  BY <1>1, <1>18 DEF SentApart
<1>32. UnseenOverlap(db, pairs, q)
  <2>1. \A t \in {"teams", "venues"} : HasRead(r, t) /\ IdsOf(s[t]) \subseteq IdsOf(q.session[t])
    BY <1>1, <1>2, <1>21, TableNames DEF HasRead
  <2> QED
    BY <1>1, <1>2, <2>1 DEF UnseenOverlap, s
<1> QED
  BY <1>2, <1>25, <1>26, <1>27, <1>28, <1>29, <1>30, <1>31, <1>32 DEF RunRight, r, q

LEMMA CloseRight ==
  ASSUME NEW how, NEW pairs, DOMAIN run = Workers, NEW w \in Workers,
         IsHistory(how), RunRight(db, how, pairs, run[w]), Close(w)
  PROVE  RunRight(db, how, pairs, run'[w]) /\ run' = [run EXCEPT ![w] = run'[w]]
         /\ run'[w].pc # "idle" /\ run'[w].no = run[w].no /\ run'[w].sent = run[w].sent
<1> DEFINE r == run[w]   q == run'[w]   s == r.session   first == First(r)
<1>1. /\ r.pc = "rows" /\ r.job \in Jobs /\ r.row > Len(r.job.rows) /\ r.queue = {}
      /\ DOMAIN r = {"pc", "no", "job", "step", "row", "session", "flushed", "queue", "sent"}
      /\ Standing(r, how) /\ WithinIds(r) /\ FoundSoFar(r) /\ Working(db, r) /\ FlushRight(r)
      /\ StatementsRight(db, r) /\ SentApart(db, r) /\ UnseenOverlap(db, pairs, r)
  BY DEF Close, RunRight, Standing
<1>2. /\ DOMAIN q = DOMAIN r /\ q.session = r.session /\ q.flushed = TablesOf(r.session)
      /\ q.queue = Statements(r.flushed, TablesOf(r.session))
      /\ q.step = r.step /\ q.pc = "closing" /\ q.no = r.no /\ q.job = r.job
      /\ q.row = r.row /\ q.sent = r.sent /\ run' = [run EXCEPT ![w] = q]
  BY <1>1 DEF Close
<1>3. /\ First(q) = First(r) /\ Base(q) = Base(r) /\ NextOf(q) = NextOf(r) /\ OwnIds(q) = OwnIds(r)
      /\ SentOf(q) = SentOf(r) /\ InLoopPhase(q) /\ InLoopPhase(r)
      /\ OwnIds(r) = first..(s.nextId - 1)
  BY <1>1, <1>2 DEF First, Base, OwnIds, NextOf, InLoopPhase, SentOf
<1>4. r.step = 1
  <2>1. r.row \in Nat /\ Len(r.job.rows) \in Nat /\ r.step \in Nat /\ r.step >= 1
    BY <1>1, JobsAre DEF Standing
  <2>2. ~(r.row <= Len(r.job.rows))
    BY <1>1, <2>1
  <2>3. ~(r.step > 1)
    BY <1>1, <2>2 DEF Standing
  <2> QED
    BY <2>1, <2>3
<1>5. RowsRight(db, first, s.nextId, s) /\ s["stats"] = {}
  BY <1>1, <1>3 DEF Working, SessionRight
<1>6. \A t \in Tables : TablesOf(s)[t] = s[t]
  BY DEF TablesOf
<1>7. Standing(q, how)
  BY <1>1, <1>2, <1>3, <1>4 DEF Standing
<1>8. WithinIds(q) /\ FoundSoFar(q) /\ Working(db, q)
  BY <1>1, <1>2, <1>3 DEF WithinIds, FoundSoFar, Working
<1> HIDE DEF r, q, s, first
<1>9. ASSUME NEW t \in Tables
      PROVE  /\ UniqueOn(s[t], LAMBDA x : x.id)
             /\ \A y \in s[t] : /\ Shaped(t, y) /\ RefersInto(t, y, Known(db, TablesOf(s)))
                                /\ y.id \in IdsOf(r.flushed[t]) \/ y.id \in OwnIds(r)
             /\ UniqueOn(r.flushed[t], LAMBDA x : x.id)
             /\ \A x \in r.flushed[t] : \E y \in s[t] : Alike(t, x, y)
  <2>1. Known(db, TablesOf(s)) = Known(db, s)
    BY <1>6 DEF Known
  <2>2. \A y \in s[t] : Shaped(t, y) /\ RefersInto(t, y, Known(db, s))
    BY <1>5, ColumnsByRow DEF RowsRight
  <2> QED
    BY <1>1, <1>5, <2>1, <2>2 DEF RowsRight, FlushRight, s
<1>10. FlushRight(q)
  <2>1. \A t \in Tables : \A y \in s[t] : Shaped(t, y) /\ y.id \in IdsOf(s[t]) /\ Alike(t, y, y)
    BY <1>9, AlikeItself DEF IdsOf
  <2>2. ColumnsHold(TablesOf(s))
    BY <1>6, <2>1, ColumnsByRow
  <2> QED
    BY <1>2, <1>6, <1>9, <2>1, <2>2 DEF FlushRight, s
<1>11. StatementsRight(db, q)
  <2>1. q.queue = Statements(r.flushed, q.flushed) /\ q.flushed = TablesOf(s)
        /\ q.flushed["stats"] = {}
    BY <1>2, <1>5, <1>6, TableNames DEF s
  <2>2. \A t \in Tables :
          /\ UniqueOn(r.flushed[t], LAMBDA x : x.id)
          /\ UniqueOn(q.flushed[t], LAMBDA x : x.id)
          /\ \A x \in r.flushed[t] : /\ \E y \in q.flushed[t] : Alike(t, x, y)
                                     /\ x.id \in OwnIds(q) => x.id \in OwnIds(r)
          /\ \A y \in q.flushed[t] :
               /\ Shaped(t, y) /\ RefersInto(t, y, Known(db, q.flushed))
               /\ y.id \in IdsOf(r.flushed[t]) \/ y.id \in OwnIds(q)
    BY <1>3, <1>6, <1>9, <2>1
  <2>3. \A id \in OwnIds(r) : id \in OwnIds(q)
    BY <1>3
  <2> QED
    BY <1>1, <1>2, <2>1, <2>2, <2>3, FlushStates
<1>12. SentApart(db, q)
  BY <1>1, <1>3 DEF SentApart
<1>13. UnseenOverlap(db, pairs, q)
  BY <1>1, <1>2 DEF UnseenOverlap, HasRead
<1> QED
  BY <1>2, <1>7, <1>8, <1>10, <1>11, <1>12, <1>13 DEF RunRight, r, q

LEMMA ExecuteRight ==
  ASSUME NEW how, NEW pairs, DOMAIN run = Workers, NEW w \in Workers,
         RunRight(db, how, pairs, run[w]), Execute(w)
  PROVE  RunRight(db, how, pairs, run'[w]) /\ run' = [run EXCEPT ![w] = run'[w]]
         /\ run'[w].pc # "idle" /\ run'[w].no = run[w].no
         /\ \E st \in Due(w) : /\ SentOf(run'[w]) = SentOf(run[w]) \cup {st}
                               /\ \A v \in Workers : ~Holds(v, w, st)
<1> DEFINE r == run[w]   q == run'[w]
<1>1. PICK st \in Due(w) : /\ ~Violates(w, st)
                           /\ \A v \in Workers : ~Holds(v, w, st)
                           /\ run' = [run EXCEPT ![w].queue = @ \ {st}, ![w].sent = Append(@, st)]
  BY DEF Execute
<1>2. /\ DOMAIN r = {"pc", "no", "job", "step", "row", "session", "flushed", "queue", "sent"}
      /\ Standing(r, how) /\ WithinIds(r) /\ FoundSoFar(r) /\ Working(db, r) /\ FlushRight(r)
      /\ StatementsRight(db, r) /\ SentApart(db, r) /\ UnseenOverlap(db, pairs, r)
  BY DEF RunRight, Standing
<1>3. /\ DOMAIN q = DOMAIN r /\ q.session = r.session /\ q.flushed = r.flushed
      /\ q.queue = r.queue \ {st} /\ q.sent = Append(r.sent, st)
      /\ q.step = r.step /\ q.pc = r.pc /\ q.no = r.no /\ q.job = r.job
      /\ q.row = r.row /\ run' = [run EXCEPT ![w] = q]
  BY <1>1, <1>2
<1>4. st \in r.queue
  BY <1>1 DEF Due
<1>5. r.sent \in Seq(SentOf(r))
  BY <1>2 DEF StatementsRight
<1> HIDE DEF q, r
<1>6. SentOf(q) = SentOf(r) \cup {st} /\ q.sent \in Seq(SentOf(q))
  <2> DEFINE n == Len(r.sent)
  <2>1. n \in Nat /\ DOMAIN r.sent = 1..n
    BY <1>5
  <2>2. /\ DOMAIN q.sent = 1..(n + 1) /\ q.sent[n + 1] = st
        /\ \A i \in 1..n : q.sent[i] = r.sent[i]
    BY <1>3, <1>5
  <2> HIDE DEF n
  <2>3. SentOf(q) = SentOf(r) \cup {st}
    BY <2>1, <2>2 DEF SentOf
  <2>4. r.sent \in Seq(SentOf(r) \cup {st})
    BY <1>5
  <2> QED
    BY <1>3, <2>3, <2>4
<1>7. AllOf(q) = AllOf(r)
  BY <1>3, <1>4, <1>6 DEF AllOf
<1>8. /\ First(q) = First(r) /\ Base(q) = Base(r) /\ NextOf(q) = NextOf(r)
      /\ OwnIds(q) = OwnIds(r) /\ (InLoopPhase(q) <=> InLoopPhase(r))
  BY <1>3 DEF First, Base, OwnIds, NextOf, InLoopPhase
<1>9. Standing(q, how)
  BY <1>2, <1>3, <1>8 DEF Standing
<1>10. WithinIds(q) /\ FoundSoFar(q) /\ FlushRight(q)
  BY <1>2, <1>3, <1>8 DEF WithinIds, FoundSoFar, FlushRight
<1>11. Working(db, q)
  BY <1>2, <1>3, <1>8 DEF Working, ReadSoFar
<1>12. StatementsRight(db, q)
  BY <1>2, <1>3, <1>6, <1>7, <1>8 DEF StatementsRight, InsertRight, UpdateRight
<1>13. SentApart(db, q)
  <2>1. ASSUME st.insert
        PROVE  /\ \A x \in db[st.table] : Keys(st.table, x) \cap Keys(st.table, st.columns) = {}
               /\ st.table = "matches" => st.columns.home # st.columns.away
               /\ \A other \in SentOf(r) : ~Clash(st, other) /\ ~Clash(other, st)
    <3>1. Sent(w) = SentOf(r)
      BY DEF Sent, SentOf, r
    <3> QED
      BY <1>1, <2>1, <3>1 DEF Violates, SameKey, Clash
  <2>2. ~st.insert => \A other : ~Clash(st, other) /\ ~Clash(other, st)
    BY DEF Clash
  <2>3. \A a, b \in SentOf(q) : a # b => ~Clash(a, b)
    BY <1>2, <1>6, <2>1, <2>2 DEF SentApart
  <2>4. \A a \in SentOf(q) : a.insert =>
          /\ \A x \in db[a.table] : Keys(a.table, x) \cap Keys(a.table, a.columns) = {}
          /\ a.table = "matches" => a.columns.home # a.columns.away
    BY <1>2, <1>6, <2>1 DEF SentApart
  <2> QED
    BY <2>3, <2>4 DEF SentApart
<1>14. UnseenOverlap(db, pairs, q)
  BY <1>2, <1>3 DEF UnseenOverlap, HasRead
<1>15. q.pc # "idle"
  BY <1>9 DEF Standing
<1> QED
  BY <1>1, <1>3, <1>6, <1>9, <1>10, <1>11, <1>12, <1>13, <1>14, <1>15 DEF RunRight, r, q

LEMMA StartRight ==
  ASSUME IsHistory(fate), DOMAIN run = Workers, NEW w \in Workers, NEW job \in Jobs,
         Start(w, job)
  PROVE  RunRight(db, fate', overlaps', run'[w]) /\ run' = [run EXCEPT ![w] = run'[w]]
         /\ run'[w].no = Len(fate) + 1 /\ run'[w].pc # "idle" /\ SentOf(run'[w]) = {}
<1> DEFINE q == run'[w]
           new == [pc |-> "reading", no |-> Len(fate) + 1, job |-> job, step |-> 1,
                   row |-> 1, session |-> EmptyDB, flushed |-> EmptyDB,
                   queue |-> {}, sent |-> <<>>]
<1>1. q = new /\ run' = [run EXCEPT ![w] = q] /\ fate' = Append(fate, [kind |-> job.kind, how |-> "open"])
  BY DEF Start
<1>2. /\ DOMAIN q = {"pc", "no", "job", "step", "row", "session", "flushed", "queue", "sent"}
      /\ q.pc = "reading" /\ q.no = Len(fate) + 1 /\ q.job = job /\ q.step = 1 /\ q.row = 1
      /\ q.session = EmptyDB /\ q.flushed = EmptyDB /\ q.queue = {} /\ q.sent = <<>>
  BY <1>1
<1> HIDE DEF q
<1>3. Len(fate) + 1 \in DOMAIN fate' /\ fate'[Len(fate) + 1] = [kind |-> job.kind, how |-> "open"]
  BY <1>1 DEF IsHistory
<1>4. 1 <= Len(Plan(job.kind)) /\ Len(job.rows) \in Nat /\ Len(job.rows) >= 1
  <2>1. job.kind \in {"mapper", "bootstrap"} /\ Len(job.rows) \in Nat /\ Len(job.rows) >= 1
    BY JobsAre
  <2> QED
    BY <2>1 DEF Plan
<1>5. Standing(q, fate') /\ ~InLoopPhase(q)
  <2>1. ~InLoopPhase(q)
    BY <1>2 DEF InLoopPhase
  <2>2. q.row \in 1..(Len(q.job.rows) + 1)
    BY <1>2, <1>4
  <2>3. q.step \in Nat /\ 1 <= q.step /\ q.step <= Len(Plan(q.job.kind))
    <3>1. q.step = 1 /\ Plan(q.job.kind) = Plan(job.kind)
      BY <1>2
    <3>2. 1 <= Len(Plan(job.kind))
      BY <1>4
    <3> QED
      BY <3>1, <3>2
  <2>4. q.no \in DOMAIN fate' /\ fate'[q.no] = [kind |-> q.job.kind, how |-> "open"]
    BY <1>2, <1>3
  <2> QED
    BY <1>2, <2>1, <2>2, <2>3, <2>4 DEF Standing
<1>6. WithinIds(q) /\ FoundSoFar(q)
  BY <1>2, <1>5 DEF WithinIds, FoundSoFar
<1>7. DOMAIN EmptyDB = Tables /\ (\A t \in Tables : EmptyDB[t] = {}) /\ ColumnsHold(EmptyDB)
  <2>1. DOMAIN EmptyDB = Tables
    BY DEF Tables
  <2>2. \A t \in Tables : EmptyDB[t] = {}
    BY TableNames DEF EmptyDB
  <2> QED
    BY <2>1, <2>2, ColumnsByRow
<1>8. Working(db, q)
  BY <1>2, <1>5, <1>7, TableNames DEF Working, ReadSoFar, RowsRight, UniqueOn
<1>9. FlushRight(q)
  BY <1>2, <1>7 DEF FlushRight, UniqueOn
<1>10. SentOf(q) = {} /\ AllOf(q) = {}
  BY <1>2 DEF SentOf, AllOf
<1>11. StatementsRight(db, q) /\ SentApart(db, q)
  BY <1>2, <1>7, <1>10 DEF StatementsRight, SentApart
<1>12. UnseenOverlap(db, overlaps', q)
  BY <1>2 DEF UnseenOverlap, HasRead
<1> QED
  BY <1>1, <1>2, <1>5, <1>6, <1>8, <1>9, <1>10, <1>11, <1>12 DEF RunRight, q

-----------------------------------------------------------------------------
(* The invariant *)

LEMMA SameDatabase ==
  ASSUME NEW d, NEW pairs, NEW r
  PROVE  NoSurprise(d, d, pairs, r)
BY AlikeItself DEF NoSurprise

\* A run ends with the fate it had, but for how.
LEMMA FateOnceEnded ==
  ASSUME NEW past, IsHistory(past), NEW i \in DOMAIN past,
         NEW how \in {"open", "committed", "refused", "deadlocked", "crashed"}
  PROVE  LET now == [past EXCEPT ![i].how = how]
         IN /\ IsHistory(now) /\ Len(now) = Len(past) /\ DOMAIN now = DOMAIN past
            /\ \A j \in DOMAIN past : j # i => now[j] = past[j]
<1> DEFINE now == [past EXCEPT ![i].how = how]
           E == [kind : {"mapper", "bootstrap"},
                 how : {"open", "committed", "refused", "deadlocked", "crashed"}]
           n == Len(past)
<1>1. n \in Nat /\ DOMAIN past = 1..n /\ \A j \in 1..n : past[j] \in E
  <2>1. past \in Seq(E)
    BY DEF IsHistory
  <2> HIDE DEF E
  <2> QED
    BY <2>1
<1>2. past[i] \in E
  BY <1>1
<1>3. [past[i] EXCEPT !.how = how] \in E /\ [past[i] EXCEPT !.how = how].how = how
      /\ [past[i] EXCEPT !.how = how].kind = past[i].kind
  BY <1>2
<1>4. /\ DOMAIN now = DOMAIN past /\ now[i] = [past[i] EXCEPT !.how = how]
      /\ \A j \in DOMAIN past : j # i => now[j] = past[j]
  BY <1>1
<1> HIDE DEF E, n
<1>5. now = [j \in 1..n |-> now[j]]
  BY <1>1
<1> HIDE DEF now
<1>6. \A j \in 1..n : now[j] \in E
  BY <1>1, <1>3, <1>4
<1>7. now \in Seq(E) /\ Len(now) = n
  <2>1. now \in [1..n -> E]
    BY <1>5, <1>6
  <2>2. now \in Seq(E)
    BY <1>1, <2>1, SeqDef
  <2> QED
    BY <1>1, <2>1, <2>2
<1> QED
  BY <1>3, <1>4, <1>7 DEF IsHistory, E, n, now

\* A step of one run that leaves the database to the others.
LEMMA AloneKeeps ==
  ASSUME ImportsInv, NEW w \in Workers, Open(w), UNCHANGED <<db, fate, overlaps>>,
         NEW q, run' = [run EXCEPT ![w] = q], RunRight(db, fate, overlaps, q),
         q.pc # "idle", q.no = run[w].no,
         \A v \in Workers : v # w /\ Open(v) =>
           \A st \in SentOf(q), other \in SentOf(run[v]) : ~Clash(st, other)
  PROVE  ImportsInv'
<1>1. DOMAIN run = Workers /\ DOMAIN run' = Workers /\ run'[w] = q
      /\ \A v \in Workers : v # w => run'[v] = run[v]
  BY DEF ImportsInv, FateRight
<1>2. \A v \in Workers : (run'[v].pc # "idle" <=> Open(v)) /\ (Open(v) => run'[v].no = run[v].no)
  BY <1>1 DEF Open
<1>3. {run'[v].no : v \in {v \in Workers : run'[v].pc # "idle"}}
        = {run[v].no : v \in {v \in Workers : Open(v)}}
  BY <1>2
<1>4. FateRight'
  <2>0. OpenTogether
    BY DEF ImportsInv, FateRight
  <2>1. \A v \in Workers : run'[v].pc = "idle" => run'[v] = NoRun
    BY <1>1, <1>2 DEF ImportsInv, FateRight
  <2>2. \A v, u \in Workers : v # u /\ run'[v].pc # "idle" /\ run'[u].pc # "idle" =>
          run'[v].no # run'[u].no /\ {run'[v].no, run'[u].no} \in overlaps
    BY <1>2, <2>0 DEF OpenTogether
  <2>3. {i \in DOMAIN fate : fate[i].how = "open"} = {run[v].no : v \in {v \in Workers : Open(v)}}
    BY DEF ImportsInv, FateRight
  <2> QED
    BY <1>1, <1>3, <2>1, <2>2, <2>3 DEF ImportsInv, FateRight, OpenTogether, Open
<1>5. (\A v \in Workers : Open(v) => RunRight(db, fate, overlaps, run[v]))'
  BY <1>1, <1>2 DEF ImportsInv, Open
<1>6. \A st, other : Clash(st, other) => Clash(other, st)
  BY DEF Clash
<1>7. KeysApart'
  BY <1>1, <1>2, <1>6 DEF ImportsInv, KeysApart, Open
<1> QED
  BY <1>4, <1>5, <1>7 DEF ImportsInv

\* What the end of a run writes down.
LEMMA EndOf ==
  ASSUME ImportsInv, NEW w \in Workers, Open(w),
         NEW how \in {"committed", "refused", "deadlocked", "crashed"}, End(w, how)
  PROVE  /\ DOMAIN run = Workers /\ DOMAIN run' = Workers /\ run'[w] = NoRun
         /\ \A v \in Workers : v # w => run'[v] = run[v]
         /\ \A v \in Workers : run'[v].pc # "idle" <=> v # w /\ Open(v)
         /\ IsHistory(fate) /\ run[w].no \in DOMAIN fate
         /\ \A v \in Workers : v # w /\ Open(v) => run[v].no \in DOMAIN fate /\ run[v].no # run[w].no
         /\ IsHistory(fate') /\ Len(fate') = Len(fate) /\ DOMAIN fate' = DOMAIN fate
         /\ fate'[run[w].no].how = how
         /\ \A j \in DOMAIN fate : j # run[w].no => fate'[j] = fate[j]
         /\ overlaps' = overlaps
<1>1. /\ DOMAIN run = Workers /\ DOMAIN run' = Workers /\ run'[w] = NoRun
      /\ \A v \in Workers : v # w => run'[v] = run[v]
      /\ fate' = [fate EXCEPT ![run[w].no].how = how] /\ overlaps' = overlaps
  BY DEF ImportsInv, FateRight, End
<1>2. NoRun.pc = "idle"
  BY DEF NoRun
<1>3. \A v \in Workers : run'[v].pc # "idle" <=> v # w /\ Open(v)
  BY <1>1, <1>2 DEF Open
<1>4. IsHistory(fate) /\ run[w].no \in DOMAIN fate
      /\ \A v \in Workers : v # w /\ Open(v) => run[v].no \in DOMAIN fate /\ run[v].no # run[w].no
  <2>1. IsHistory(fate)
    BY DEF ImportsInv, FateRight, IsHistory
  <2>2. \A v \in Workers : Open(v) => run[v].no \in DOMAIN fate
    BY DEF ImportsInv, RunRight, Standing
  <2>3. \A v \in Workers : v # w /\ Open(v) => run[v].no # run[w].no
    <3>1. OpenTogether
      BY DEF ImportsInv, FateRight
    <3> QED
      BY <3>1 DEF OpenTogether
  <2> QED
    BY <2>1, <2>2, <2>3
<1>5. /\ IsHistory(fate') /\ Len(fate') = Len(fate) /\ DOMAIN fate' = DOMAIN fate
      /\ fate'[run[w].no].how = how
      /\ \A j \in DOMAIN fate : j # run[w].no => fate'[j] = fate[j]
  <2> DEFINE i == run[w].no
  <2>1. i \in DOMAIN fate /\ fate' = [fate EXCEPT ![i].how = how] /\ IsHistory(fate)
    BY <1>1, <1>4
  <2>2. how \in {"open", "committed", "refused", "deadlocked", "crashed"}
    OBVIOUS
  <2> HIDE DEF i
  <2>3. /\ IsHistory(fate') /\ Len(fate') = Len(fate) /\ DOMAIN fate' = DOMAIN fate
        /\ \A j \in DOMAIN fate : j # i => fate'[j] = fate[j]
    <3> DEFINE now == [fate EXCEPT ![i].how = how]
    <3>1. IsHistory(now)
      BY <2>1, <2>2, FateOnceEnded
    <3>2. Len(now) = Len(fate) /\ DOMAIN now = DOMAIN fate
      BY <2>1, <2>2, FateOnceEnded
    <3>3. \A j \in DOMAIN fate : j # i => now[j] = fate[j]
      OBVIOUS
    <3>4. fate' = now
      BY <2>1
    <3> HIDE DEF now
    <3> QED
      BY <3>1, <3>2, <3>3, <3>4
  <2>4. fate'[i].how = how
    <3>1. fate[i] = [kind |-> fate[i].kind, how |-> fate[i].how]
      <4> DEFINE E == [kind : {"mapper", "bootstrap"},
                       how : {"open", "committed", "refused", "deadlocked", "crashed"}]
      <4>1. fate \in Seq(E)
        BY <2>1 DEF IsHistory
      <4> HIDE DEF E
      <4>2. fate[i] \in E
        BY <2>1, <4>1
      <4> QED
        BY <4>2 DEF E
    <3>2. fate'[i] = [fate[i] EXCEPT !.how = how]
      BY <2>1
    <3> QED
      BY <3>1, <3>2
  <2> QED
    BY <2>3, <2>4 DEF i
<1> QED
  BY <1>1, <1>3, <1>4, <1>5

\* The end of a run that the others need not fear.
LEMMA EndKeeps ==
  ASSUME ImportsInv, NEW w \in Workers, Open(w),
         NEW how \in {"committed", "refused", "deadlocked", "crashed"}, End(w, how),
         DbRight(db, fate)',
         \A v \in Workers : v # w /\ Open(v) => NoSurprise(db, db', overlaps, run[v])
  PROVE  ImportsInv'
<1>1. /\ DOMAIN run = Workers /\ DOMAIN run' = Workers /\ run'[w] = NoRun
      /\ \A v \in Workers : v # w => run'[v] = run[v]
      /\ overlaps' = overlaps
  BY EndOf
<1>2. \A v \in Workers : run'[v].pc # "idle" <=> v # w /\ Open(v)
  BY EndOf
<1>3. IsHistory(fate) /\ run[w].no \in DOMAIN fate
      /\ \A v \in Workers : v # w /\ Open(v) => run[v].no \in DOMAIN fate /\ run[v].no # run[w].no
  BY EndOf
<1>4. /\ IsHistory(fate') /\ Len(fate') = Len(fate) /\ DOMAIN fate' = DOMAIN fate
      /\ fate'[run[w].no].how = how
      /\ \A j \in DOMAIN fate : j # run[w].no => fate'[j] = fate[j]
  BY EndOf
<1>5. {i \in DOMAIN fate' : fate'[i].how = "open"}
        = {run'[v].no : v \in {v \in Workers : run'[v].pc # "idle"}}
  <2>1. {i \in DOMAIN fate : fate[i].how = "open"} = {run[v].no : v \in {v \in Workers : Open(v)}}
    BY DEF ImportsInv, FateRight
  <2>2. ASSUME NEW i \in DOMAIN fate', fate'[i].how = "open"
        PROVE  \E v \in Workers : run'[v].pc # "idle" /\ i = run'[v].no
    <3>1. i \in DOMAIN fate /\ i # run[w].no /\ fate[i].how = "open"
      BY <1>4, <2>2
    <3>2. PICK v \in Workers : Open(v) /\ i = run[v].no
      BY <2>1, <3>1
    <3> QED
      BY <1>1, <1>2, <3>1, <3>2
  <2>3. ASSUME NEW v \in Workers, run'[v].pc # "idle"
        PROVE  run'[v].no \in DOMAIN fate' /\ fate'[run'[v].no].how = "open"
    <3>1. v # w /\ Open(v) /\ run'[v] = run[v]
      BY <1>1, <1>2, <2>3
    <3>2. fate[run[v].no].how = "open" /\ run[v].no \in DOMAIN fate
      BY <2>1, <3>1
    <3> QED
      BY <1>3, <1>4, <3>1, <3>2
  <2> QED
    BY <2>2, <2>3
<1>6. FateRight'
  <2>1. \A v \in Workers : run'[v].pc = "idle" => run'[v] = NoRun
    BY <1>1, <1>2 DEF ImportsInv, FateRight
  <2>2. \A v, u \in Workers : v # u /\ run'[v].pc # "idle" /\ run'[u].pc # "idle" =>
          run'[v].no # run'[u].no /\ {run'[v].no, run'[u].no} \in overlaps'
    <3>1. OpenTogether
      BY DEF ImportsInv, FateRight
    <3> QED
      BY <1>1, <1>2, <3>1 DEF OpenTogether
  <2>3. overlaps' \subseteq {{i, j} : i, j \in DOMAIN fate'} /\ Len(fate') <= MaxRuns
    BY <1>1, <1>4 DEF ImportsInv, FateRight
  <2> QED
    BY <1>1, <1>4, <1>5, <2>1, <2>2, <2>3 DEF FateRight, OpenTogether, IsHistory, Open
<1>7. ASSUME NEW v \in Workers, run'[v].pc # "idle"
      PROVE  RunRight(db', fate', overlaps', run'[v])
  <2>1. v # w /\ Open(v) /\ run'[v] = run[v] /\ RunRight(db, fate, overlaps, run[v])
    BY <1>1, <1>2, <1>7 DEF ImportsInv
  <2>2. Standing(run[v], fate')
    <3>1. run[v].no \in DOMAIN fate' /\ fate'[run[v].no] = fate[run[v].no]
      BY <1>3, <1>4, <2>1
    <3> QED
      BY <1>3, <2>1, <3>1, StandsOn DEF RunRight
  <2>3. NoSurprise(db, db', overlaps, run[v])
    BY <2>1
  <2> QED
    BY <1>1, <2>1, <2>2, <2>3, OthersMayCommit
<1>8. KeysApart'
  BY <1>1, <1>2 DEF ImportsInv, KeysApart, Open
<1> QED
  BY <1>6, <1>7, <1>8 DEF ImportsInv, Open

LEMMA DbOnceEnded ==
  ASSUME IsHistory(fate), DbRight(db, fate), NEW i \in DOMAIN fate, fate[i].how = "open",
         NEW how \in {"refused", "deadlocked", "crashed"}
  PROVE  DbRight(db, [fate EXCEPT ![i].how = how])
<1> DEFINE now == [fate EXCEPT ![i].how = how]
<1>1. DOMAIN now = DOMAIN fate /\ \A j \in DOMAIN fate : j # i => now[j] = fate[j]
  OBVIOUS
<1> HIDE DEF now
<1>2. \A j : CommittedRun(fate, j) => CommittedRun(now, j)
  BY <1>1 DEF CommittedRun
<1>3. DbRight(db, now)
  BY <1>2 DEF DbRight
<1> QED
  BY <1>3 DEF now

LEMMA StartKeeps ==
  ASSUME ImportsInv, NEW w \in Workers, NEW job \in Jobs, Start(w, job)
  PROVE  ImportsInv'
<1> DEFINE n == Len(fate)   new == [kind |-> job.kind, how |-> "open"]   q == run'[w]
<1>1. /\ ~Open(w) /\ n < MaxRuns /\ fate' = Append(fate, new) /\ db' = db
      /\ overlaps' = overlaps \cup {{run[v].no, n + 1} : v \in {v \in Workers : Open(v)}}
  BY DEF Start
<1>2. DOMAIN run = Workers /\ IsHistory(fate) /\ n \in Nat /\ MaxRuns \in Nat
      /\ DOMAIN fate = 1..n
  BY ImportsAssumption DEF ImportsInv, FateRight, IsHistory
<1>3. /\ RunRight(db, fate', overlaps', q) /\ run' = [run EXCEPT ![w] = q]
      /\ q.no = n + 1 /\ q.pc # "idle" /\ SentOf(q) = {}
  BY <1>2, StartRight
<1>4. new \in [kind : {"mapper", "bootstrap"},
               how : {"open", "committed", "refused", "deadlocked", "crashed"}]
  BY JobsAre
<1> HIDE DEF new
<1>5. /\ IsHistory(fate') /\ Len(fate') = n + 1 /\ DOMAIN fate' = 1..(n + 1)
      /\ fate'[n + 1] = new /\ \A i \in 1..n : fate'[i] = fate[i]
  BY <1>1, <1>2, <1>4 DEF IsHistory
<1> HIDE DEF q
<1>6. DOMAIN run' = Workers /\ run'[w] = q /\ \A v \in Workers : v # w => run'[v] = run[v]
  BY <1>2, <1>3
<1>7. \A v \in Workers : run'[v].pc # "idle" <=> v = w \/ Open(v)
  BY <1>3, <1>6 DEF Open
<1>8. \A v \in Workers : Open(v) => v # w /\ run[v].no \in 1..n
  BY <1>1, <1>2 DEF ImportsInv, RunRight, Standing
<1>9. {i \in DOMAIN fate' : fate'[i].how = "open"}
        = {run'[v].no : v \in {v \in Workers : run'[v].pc # "idle"}}
  <2>1. {i \in DOMAIN fate : fate[i].how = "open"} = {run[v].no : v \in {v \in Workers : Open(v)}}
    BY DEF ImportsInv, FateRight
  <2>2. ASSUME NEW i \in DOMAIN fate', fate'[i].how = "open"
        PROVE  \E v \in Workers : run'[v].pc # "idle" /\ i = run'[v].no
    <3>1. CASE i = n + 1
      BY <1>3, <1>6, <1>7, <3>1
    <3>2. CASE i \in 1..n
      <4>1. fate[i].how = "open"
        BY <1>5, <2>2, <3>2
      <4>2. PICK v \in Workers : Open(v) /\ i = run[v].no
        BY <1>2, <2>1, <3>2, <4>1
      <4> QED
        BY <1>6, <1>7, <1>8, <4>2
    <3> QED
      BY <1>2, <1>5, <3>1, <3>2
  <2>3. ASSUME NEW v \in Workers, run'[v].pc # "idle"
        PROVE  run'[v].no \in DOMAIN fate' /\ fate'[run'[v].no].how = "open"
    <3>1. CASE v = w
      <4>1. new.how = "open"
        BY DEF new
      <4> QED
        BY <1>2, <1>3, <1>5, <1>6, <3>1, <4>1
    <3>2. CASE v # w
      <4>1. Open(v) /\ run'[v] = run[v] /\ run[v].no \in 1..n
        BY <1>6, <1>7, <1>8, <2>3, <3>2
      <4>2. fate[run[v].no].how = "open"
        BY <2>1, <4>1
      <4> QED
        BY <1>2, <1>5, <4>1, <4>2
    <3> QED
      BY <3>1, <3>2
  <2> QED
    BY <2>2, <2>3
<1>10. FateRight'
  <2>1. \A v \in Workers : run'[v].pc = "idle" => run'[v] = NoRun
    BY <1>6, <1>7 DEF ImportsInv, FateRight
  <2>2. ASSUME NEW v \in Workers, NEW u \in Workers, v # u, run'[v].pc # "idle",
               run'[u].pc # "idle"
        PROVE  run'[v].no # run'[u].no /\ {run'[v].no, run'[u].no} \in overlaps'
    <3>1. CASE v # w /\ u # w
      BY <1>1, <1>6, <1>7, <2>2, <3>1 DEF ImportsInv, FateRight, OpenTogether
    <3>2. ASSUME NEW x \in Workers, Open(x)
          PROVE  /\ run'[x].no # run'[w].no /\ {run'[x].no, run'[w].no} \in overlaps'
                 /\ {run'[w].no, run'[x].no} \in overlaps'
      <4>1. run'[x].no = run[x].no /\ run[x].no \in 1..n /\ run'[w].no = n + 1
        BY <1>3, <1>6, <1>8, <3>2
      <4>2. {run[x].no, n + 1} \in overlaps'
        BY <1>1, <3>2
      <4>3. {run'[x].no, run'[w].no} = {run[x].no, n + 1}
            /\ {run'[w].no, run'[x].no} = {run[x].no, n + 1}
        BY <4>1
      <4>4. run[x].no # n + 1
        BY <1>2, <4>1
      <4> QED
        BY <4>1, <4>2, <4>3, <4>4
    <3> QED
      BY <1>7, <2>2, <3>1, <3>2
  <2>3. overlaps' \subseteq {{i, j} : i, j \in DOMAIN fate'}
    <3>1. ASSUME NEW p \in overlaps
          PROVE  \E i, j \in 1..(n + 1) : p = {i, j}
      <4>1. PICK i \in 1..n, j \in 1..n : p = {i, j}
        BY <1>2 DEF ImportsInv, FateRight
      <4>2. i \in 1..(n + 1) /\ j \in 1..(n + 1)
        BY <1>2
      <4> QED
        BY <4>1, <4>2
    <3>2. ASSUME NEW v \in Workers, Open(v)
          PROVE  \E i, j \in 1..(n + 1) : {run[v].no, n + 1} = {i, j}
      <4>1. run[v].no \in 1..(n + 1) /\ n + 1 \in 1..(n + 1)
        BY <1>2, <1>8, <3>2
      <4> QED
        BY <4>1
    <3>3. ASSUME NEW p \in overlaps'
          PROVE  \E i, j \in 1..(n + 1) : p = {i, j}
      <4>1. p \in overlaps \/ \E v \in Workers : Open(v) /\ p = {run[v].no, n + 1}
        BY <1>1
      <4> QED
        BY <3>1, <3>2, <4>1
    <3> QED
      BY <1>5, <3>3
  <2>4. Len(fate') <= MaxRuns
    BY <1>1, <1>2, <1>5
  <2> QED
    BY <1>5, <1>6, <1>9, <2>1, <2>2, <2>3, <2>4 DEF FateRight, OpenTogether, IsHistory, Open
<1>11. DbRight(db, fate')
  <2>1. \A i : CommittedRun(fate, i) => CommittedRun(fate', i)
    BY <1>2, <1>5 DEF CommittedRun
  <2> QED
    BY <2>1 DEF ImportsInv, DbRight
<1>12. ASSUME NEW v \in Workers, run'[v].pc # "idle"
       PROVE  RunRight(db, fate', overlaps', run'[v])
  <2>1. CASE v = w
    BY <1>3, <1>6, <2>1
  <2>2. CASE v # w
    <3>1. Open(v) /\ run'[v] = run[v] /\ run[v].no \in 1..n
      BY <1>6, <1>7, <1>8, <1>12, <2>2
    <3>2. RunRight(db, fate, overlaps, run[v])
      BY <3>1 DEF ImportsInv
    <3>3. run[v].no \in DOMAIN fate' /\ fate'[run[v].no] = fate[run[v].no]
      BY <1>2, <1>5, <3>1
    <3>4. Standing(run[v], fate')
      BY <1>2, <3>2, <3>3, StandsOn DEF RunRight
    <3>5. overlaps \subseteq overlaps' /\ NoSurprise(db, db, overlaps', run[v])
      BY <1>1, SameDatabase
    <3> QED
      BY <3>1, <3>2, <3>4, <3>5, OthersMayCommit
  <2> QED
    BY <2>1, <2>2
<1>13. KeysApart'
  <2>1. \A v, u \in Workers : v # u /\ v # w /\ u # w /\ run'[v].pc # "idle" /\ run'[u].pc # "idle" =>
          \A st \in SentOf(run'[v]), other \in SentOf(run'[u]) : ~Clash(st, other)
    BY <1>6, <1>7 DEF ImportsInv, KeysApart
  <2>2. SentOf(run'[w]) = {}
    BY <1>3, <1>6
  <2> QED
    BY <2>1, <2>2 DEF KeysApart, Open
<1> QED
  BY <1>1, <1>10, <1>11, <1>12, <1>13 DEF ImportsInv, Open

\* At the start the database is one of those assumed sound, and nobody runs.
LEMMA ImportsInit == Init => ImportsInv
<1> SUFFICES ASSUME Init PROVE ImportsInv
  OBVIOUS
<1>1. /\ db \in StartDBs /\ run = [w \in Workers |-> NoRun] /\ fate = <<>> /\ overlaps = {}
  BY DEF Init
<1>2. \A w \in Workers : run[w] = NoRun /\ ~Open(w)
  BY <1>1 DEF Open, NoRun
<1>3. FateRight
  BY <1>1, <1>2, ImportsAssumption DEF FateRight, OpenTogether
<1>4. DbRight(db, fate)
  <2>1. Sound(db) /\ \A id \in Ids(db) : id < IdsPerRun
    BY <1>1, ImportsAssumption
  <2>2. \A t \in Tables : \A r \in db[t] : r.id \in Ids(db)
    BY DEF Ids, IdsOf
  <2>3. Ids(db) \subseteq Nat /\ \A t \in Tables : UniqueOn(db[t], LAMBDA r : r.id)
    BY <2>1 DEF Sound, KeysHold
  <2>4. \A t \in Tables : \A r \in db[t] : r.id \in Nat /\ RunOf(r.id) = 0
    BY <2>1, <2>2, <2>3, RunOfFoundId
  <2>5. DOMAIN db = Tables
    BY <2>1 DEF Sound
  <2> QED
    BY <2>1, <2>3, <2>4, <2>5 DEF Sound, DbRight
<1> QED
  BY <1>2, <1>3, <1>4 DEF ImportsInv, KeysApart

\* What the lemmas about the steps of a run ask for.
LEMMA InvOfRun ==
  ASSUME ImportsInv
  PROVE  /\ IsHistory(fate) /\ DbRight(db, fate) /\ DOMAIN run = Workers
         /\ \A w \in Workers : /\ Open(w) => RunRight(db, fate, overlaps, run[w])
                               /\ ~Open(w) => Due(w) = {} /\ run[w].pc = "idle"
<1>1. IsHistory(fate) /\ DbRight(db, fate) /\ DOMAIN run = Workers
  BY DEF ImportsInv, FateRight, IsHistory
<1>2. \A w \in Workers : ~Open(w) => run[w] = NoRun
  BY DEF ImportsInv, FateRight
<1>3. \A w \in Workers : ~Open(w) => Due(w) = {} /\ run[w].pc = "idle"
  BY <1>2 DEF Due, NoRun
<1> QED
  BY <1>1, <1>3 DEF ImportsInv

\* A read, a turn of the loop, the end of it: nobody else notices.
LEMMA QuietKeeps ==
  ASSUME ImportsInv, NEW w \in Workers, Read(w) \/ EnterLoop(w) \/ Skip(w) \/ Turn(w) \/ Close(w)
  PROVE  ImportsInv'
<1>1. UNCHANGED <<db, fate, overlaps>>
  BY DEF Read, EnterLoop, Skip, Turn, Close
<1>2. Open(w)
  BY DEF Read, EnterLoop, Skip, Turn, Close, InLoop, Open
<1>3. IsHistory(fate) /\ DbRight(db, fate) /\ DOMAIN run = Workers
      /\ RunRight(db, fate, overlaps, run[w])
  BY <1>2, InvOfRun
<1>4. /\ RunRight(db, fate, overlaps, run'[w]) /\ run' = [run EXCEPT ![w] = run'[w]]
      /\ run'[w].pc # "idle" /\ run'[w].no = run[w].no /\ run'[w].sent = run[w].sent
  <2>1. CASE Read(w)
    BY <1>3, <2>1, ReadRight
  <2>2. CASE EnterLoop(w)
    BY <1>3, <2>2, EnterLoopRight
  <2>3. CASE Skip(w)
    BY <1>3, <2>3, SkipRight
  <2>4. CASE Turn(w)
    BY <1>3, <2>4, TurnRight
  <2>5. CASE Close(w)
    BY <1>3, <2>5, CloseRight
  <2> QED
    BY <2>1, <2>2, <2>3, <2>4, <2>5
<1>5. SentOf(run'[w]) = SentOf(run[w])
  BY <1>4 DEF SentOf
<1>6. \A v \in Workers : v # w /\ Open(v) =>
        \A st \in SentOf(run'[w]), other \in SentOf(run[v]) : ~Clash(st, other)
  BY <1>2, <1>5 DEF ImportsInv, KeysApart
<1> QED
  BY <1>1, <1>2, <1>4, <1>6, AloneKeeps

\* A statement goes through only if no open run has sent its key.
LEMMA ExecuteKeeps ==
  ASSUME ImportsInv, NEW w \in Workers, Execute(w)
  PROVE  ImportsInv'
<1>1. UNCHANGED <<db, fate, overlaps>> /\ Due(w) # {}
  BY DEF Execute
<1>2. Open(w)
  BY <1>1, InvOfRun
<1>3. DOMAIN run = Workers /\ RunRight(db, fate, overlaps, run[w])
  BY <1>2, InvOfRun
<1>4. /\ RunRight(db, fate, overlaps, run'[w]) /\ run' = [run EXCEPT ![w] = run'[w]]
      /\ run'[w].pc # "idle" /\ run'[w].no = run[w].no
  BY <1>3, ExecuteRight
<1>5. PICK st \in Due(w) : /\ SentOf(run'[w]) = SentOf(run[w]) \cup {st}
                           /\ \A v \in Workers : ~Holds(v, w, st)
  BY <1>3, ExecuteRight
<1>6. ASSUME NEW v \in Workers, v # w, Open(v), NEW other \in SentOf(run[v])
      PROVE  ~Clash(st, other)
  <2>1. other \in Sent(v)
    BY <1>6 DEF Sent, SentOf
  <2>2. ~Holds(v, w, st)
    BY <1>5
  <2> QED
    BY <1>6, <2>1, <2>2 DEF Holds, Clash, SameKey
<1>7. \A v \in Workers : v # w /\ Open(v) =>
        \A a \in SentOf(run'[w]), other \in SentOf(run[v]) : ~Clash(a, other)
  BY <1>2, <1>5, <1>6 DEF ImportsInv, KeysApart
<1> QED
  BY <1>1, <1>2, <1>4, <1>7, AloneKeeps

LEMMA CommitKeeps ==
  ASSUME ImportsInv, NEW w \in Workers, Commit(w)
  PROVE  ImportsInv'
<1>1. /\ run[w].pc = "closing" /\ run[w].queue = {} /\ Open(w)
      /\ db' = Applied(db, run[w].sent) /\ End(w, "committed")
      /\ fate' = [fate EXCEPT ![run[w].no].how = "committed"]
  BY DEF Commit, Open, End
<1>2. IsHistory(fate) /\ DbRight(db, fate) /\ RunRight(db, fate, overlaps, run[w])
  BY <1>1, InvOfRun
<1>3. DbRight(db', fate')
  <2>1. DbRight(Applied(db, run[w].sent), [fate EXCEPT ![run[w].no].how = "committed"])
    BY <1>1, <1>2, CommitRight
  <2> QED
    BY <1>1, <2>1
<1>4. ASSUME NEW v \in Workers, v # w, Open(v)
      PROVE  NoSurprise(db, db', overlaps, run[v])
  <2>1. RunRight(db, fate, overlaps, run[v]) /\ ColumnsHold(db)
    BY <1>2, <1>4, InvOfRun DEF DbRight
  <2>2. OpenTogether
    BY DEF ImportsInv, FateRight
  <2>3. {run[w].no, run[v].no} \in overlaps
    BY <1>1, <1>4, <2>2 DEF OpenTogether
  <2>4. \A st \in SentOf(run[w]), other \in SentOf(run[v]) : ~Clash(st, other)
    BY <1>1, <1>4 DEF ImportsInv, KeysApart
  <2> QED
    BY <1>1, <1>2, <2>1, <2>3, <2>4, CommitSurprisesNobody
<1> QED
  BY <1>1, <1>3, <1>4, EndKeeps

\* A run that ends without a commit leaves the database as it was.
LEMMA RollbackKeeps ==
  ASSUME ImportsInv, NEW w \in Workers, Raise(w) \/ AbortDeadlock(w) \/ Crash(w)
  PROVE  ImportsInv'
<1>1. PICK how \in {"refused", "deadlocked", "crashed"} : End(w, how)
  BY DEF Raise, AbortDeadlock, Crash
<1>2. db' = db
  BY DEF Raise, AbortDeadlock, Crash
<1>3. Open(w)
  BY InvOfRun DEF Raise, AbortDeadlock, Crash, WaitsFor
<1>4. IsHistory(fate) /\ DbRight(db, fate) /\ RunRight(db, fate, overlaps, run[w])
  BY <1>3, InvOfRun
<1>5. run[w].no \in DOMAIN fate /\ fate[run[w].no].how = "open"
  BY <1>4 DEF RunRight, Standing
<1>6. fate' = [fate EXCEPT ![run[w].no].how = how]
  BY <1>1 DEF End
<1>7. DbRight(db', fate')
  <2> DEFINE i == run[w].no
  <2>1. i \in DOMAIN fate /\ fate[i].how = "open"
    BY <1>5
  <2> HIDE DEF i
  <2>2. DbRight(db, [fate EXCEPT ![i].how = how])
    BY <1>4, <2>1, DbOnceEnded
  <2> QED
    BY <1>2, <1>6, <2>2 DEF i
<1>8. \A v \in Workers : NoSurprise(db, db', overlaps, run[v])
  BY <1>2, SameDatabase
<1> QED
  BY <1>1, <1>3, <1>7, <1>8, EndKeeps

\* One step of anyone.
LEMMA ImportsNext == ImportsInv /\ [Next]_vars => ImportsInv'
<1> SUFFICES ASSUME ImportsInv, [Next]_vars PROVE ImportsInv'
  OBVIOUS
<1>1. ASSUME NEW w \in Workers, Step(w) PROVE ImportsInv'
  BY <1>1, QuietKeeps, ExecuteKeeps, CommitKeeps, RollbackKeeps DEF Step
<1>2. ASSUME NEW w \in Workers, Crash(w) PROVE ImportsInv'
  BY <1>2, RollbackKeeps
<1>3. ASSUME NEW w \in Workers, NEW job \in Jobs, Start(w, job) PROVE ImportsInv'
  BY <1>3, StartKeeps
<1>4. ASSUME UNCHANGED vars PROVE ImportsInv'
  BY <1>4 DEF vars, ImportsInv, FateRight, OpenTogether, KeysApart, Open
<1> QED
  BY <1>1, <1>2, <1>3, <1>4 DEF Next, Done

\* The inductive invariant: whatever interleaves, the database is sound, every
\* open run is right about what it knows, has flushed and has sent, and no two
\* of them have sent the same key.
THEOREM ImportsInvariant == Spec => []ImportsInv
<1> QED
  BY ImportsInit, ImportsNext, PTL DEF Spec

\* Whatever mapper and bootstrap runs interleave, crash and deadlock, the
\* committed rows satisfy every unique key, CHECK and foreign key of models.py,
\* and the server knows which runs are open.
THEOREM ImportsTypes == Spec => []TypeOK
<1>1. ImportsInv => TypeOK
  <2> SUFFICES ASSUME ImportsInv PROVE TypeOK
    OBVIOUS
  <2>1. DOMAIN db = Tables /\ SchemaHolds(db) /\ ReferencesHold(db)
    BY DEF ImportsInv, DbRight
  <2>2. \A w \in Workers : run[w].pc \in {"idle", "reading", "read", "rows", "closing"}
    BY InvOfRun DEF RunRight, Standing
  <2>3. /\ Len(fate) <= MaxRuns
        /\ {i \in DOMAIN fate : fate[i].how = "open"} = {run[w].no : w \in {w \in Workers : Open(w)}}
        /\ overlaps \subseteq {{i, j} : i, j \in DOMAIN fate}
    BY DEF ImportsInv, FateRight
  <2> QED
    BY <2>1, <2>2, <2>3 DEF TypeOK
<1> QED
  BY <1>1, ImportsInvariant, PTL

-----------------------------------------------------------------------------
(* Names *)

\* The rows a commit adds to the teams or to the venues are rows of the session
\* with an id of the run, and a committed row the session knows is in it as it
\* is.  A mapper's links have been sent.
LEMMA CommitAdds ==
  ASSUME NEW d, NEW how, IsHistory(how), DbRight(d, how), NEW pairs,
         NEW r, RunRight(d, how, pairs, r), r.pc = "closing", r.queue = {},
         NEW t \in {"teams", "venues", "teamLinks"}
  PROVE  LET e == Applied(d, r.sent) IN
         /\ d[t] \subseteq e[t]
         /\ \A y \in e[t] : y \in d[t] \/ (y \in r.session[t] /\ y.id \in OwnIds(r))
         /\ \A x \in d[t] : x.id \in IdsOf(r.session[t]) => x \in r.session[t]
         /\ \A y \in r.session[t] : y.id \in OwnIds(r) =>
              \E st \in SentOf(r) : st.insert /\ st.table = t /\ st.columns = y /\ y \in e[t]
<1> DEFINE e == Applied(d, r.sent)
<1>1. /\ t \in Tables /\ ColumnsHold(d) /\ Standing(r, how) /\ WithinIds(r)
      /\ StatementsRight(d, r) /\ FlushRight(r) /\ r.flushed[t] = r.session[t]
      /\ RowsRight(d, First(r), r.session.nextId, r.session)
      /\ OwnIds(r) = First(r)..(r.session.nextId - 1)
  BY TableNames DEF DbRight, RunRight, FlushRight, Working, InLoopPhase, SessionRight, OwnIds, NextOf
<1>2. \A x \in d[t] : x.id \notin OwnIds(r)
  <2>1. Standing(r, how) /\ WithinIds(r)
    BY <1>1
  <2>2. r.no \in Nat \ {0} /\ \A id \in OwnIds(r) : RunOf(id) = r.no
    BY <2>1, OwnIdsAreOwn
  <2>3. how[r.no].how = "open"
    BY <2>1 DEF Standing
  <2>4. \A x \in d[t] : RunOf(x.id) = 0 \/ CommittedRun(how, RunOf(x.id))
    BY <1>1 DEF DbRight
  <2> QED
    BY <2>2, <2>3, <2>4 DEF CommittedRun
<1>3. \A q, p : Alike(t, q, p) => q = p
  BY <1>1, AlikeRows
<1>4. /\ \A x \in d[t] : \E y \in e[t] : Alike(t, x, y)
      /\ \A st \in SentOf(r) : st.insert /\ st.table = t => \E y \in e[t] : Alike(t, st.columns, y)
      /\ \A y \in e[t] :
           \/ \E x \in d[t] : Alike(t, x, y)
           \/ \E st \in SentOf(r) : st.insert /\ st.table = t /\ Alike(t, st.columns, y)
  BY <1>1, CommitMoves
<1> HIDE DEF e
<1>5. \A st \in SentOf(r) : st.insert /\ st.table = t =>
        st.id = st.columns.id /\ st.columns \in r.session[t] /\ st.id \in OwnIds(r)
  <2>1. ASSUME NEW st \in SentOf(r), st.insert, st.table = t
        PROVE  st.id = st.columns.id /\ st.id \in OwnIds(r)
               /\ \E x \in r.flushed[t] : Alike(t, x, st.columns)
    BY <1>1, <2>1 DEF StatementsRight, InsertRight, AllOf
  <2> QED
    BY <1>1, <1>3, <2>1
<1>6. \A y \in e[t] : y \in d[t] \/ (y \in r.session[t] /\ y.id \in OwnIds(r))
  <2> TAKE y \in e[t]
  <2>1. CASE \E x \in d[t] : Alike(t, x, y)
    <3>1. PICK x \in d[t] : Alike(t, x, y)
      BY <2>1
    <3>2. x = y
      BY <1>3, <3>1
    <3> QED
      BY <3>1, <3>2
  <2>2. CASE \E st \in SentOf(r) : st.insert /\ st.table = t /\ Alike(t, st.columns, y)
    <3>1. PICK st \in SentOf(r) : st.insert /\ st.table = t /\ Alike(t, st.columns, y)
      BY <2>2
    <3>2. st.columns = y
      BY <1>3, <3>1
    <3> QED
      BY <1>5, <3>1, <3>2
  <2> QED
    BY <1>4, <2>1, <2>2
<1>7. ASSUME NEW x \in d[t], x.id \in IdsOf(r.session[t])
      PROVE  x \in r.session[t]
  <2>1. PICK y \in r.session[t] : y.id = x.id
    BY <1>7 DEF IdsOf
  <2>2. PICK q \in d[t] : Alike(t, q, y)
    BY <1>1, <1>2, <2>1 DEF RowsRight
  <2>3. q = y /\ q = x
    BY <1>1, <1>3, <2>1, <2>2 DEF DbRight, UniqueOn
  <2> QED
    BY <2>1, <2>3
<1>8. ASSUME NEW y \in r.session[t], y.id \in OwnIds(r)
      PROVE  \E st \in SentOf(r) : st.insert /\ st.table = t /\ st.columns = y /\ y \in e[t]
  <2>1. PICK st \in SentOf(r) : st.insert /\ st.table = t /\ st.id = y.id
    BY <1>1, <1>8 DEF StatementsRight, AllOf
  <2>2. st.columns \in r.session[t] /\ st.columns.id = y.id
    BY <1>5, <2>1
  <2>3. st.columns = y
    BY <1>1, <1>8, <2>2 DEF RowsRight, UniqueOn
  <2> QED
    BY <1>3, <1>4, <2>1, <2>3
<1>9. d[t] \subseteq e[t]
  BY <1>3, <1>4
<1> QED
  BY <1>6, <1>7, <1>8, <1>9 DEF e

\* Of two rows of one spelling the runs were open together, if runs have
\* inserted them at all.
TwinsApart(d, pairs) ==
  \A t \in {"teams", "venues"} : \A x, y \in d[t] :
    x.name = y.name /\ x # y => {RunOf(x.id), RunOf(y.id)} \in pairs

\* A commit adds a name the database has only if whoever stored it was open with
\* it: the names a run has seen, it does not add.
LEMMA CommitTwins ==
  ASSUME NEW d, NEW how, IsHistory(how), DbRight(d, how), NEW pairs,
         NEW r, RunRight(d, how, pairs, r), r.pc = "closing", r.queue = {},
         TwinsApart(d, pairs)
  PROVE  TwinsApart(Applied(d, r.sent), pairs)
<1> DEFINE e == Applied(d, r.sent)   s == r.session
           first == First(r)
<1>1. \A id \in OwnIds(r) : RunOf(id) = r.no
  BY OwnIdsAreOwn DEF RunRight
<1>2. /\ NamesApart(r.job, first, s) /\ OwnIds(r) = first..(s.nextId - 1)
      /\ UnseenOverlap(d, pairs, r)
  BY DEF RunRight, Working, InLoopPhase, SessionRight, OwnIds, NextOf
<1>3. ASSUME NEW t \in {"teams", "venues"}, NEW x \in s[t], NEW y \in s[t], x # y,
             x.name = y.name
      PROVE  x.id \notin OwnIds(r)
  BY <1>2, <1>3 DEF NamesApart, Folded
<1>4. ASSUME NEW t \in {"teams", "venues"}
      PROVE  /\ \A y \in e[t] : y \in d[t] \/ (y \in s[t] /\ y.id \in OwnIds(r))
             /\ \A x \in d[t] : x \in s[t] \/ {RunOf(x.id), r.no} \in pairs
  <2>1. /\ \A y \in e[t] : y \in d[t] \/ (y \in s[t] /\ y.id \in OwnIds(r))
        /\ \A x \in d[t] : x.id \in IdsOf(s[t]) => x \in s[t]
    BY CommitAdds
  <2>2. HasRead(r, t)
    BY DEF HasRead
  <2> QED
    BY <1>2, <2>1, <2>2 DEF UnseenOverlap
<1> HIDE DEF e, s, first
<1>5. ASSUME NEW t \in {"teams", "venues"}, NEW x \in e[t], NEW y \in e[t], x # y,
             x.name = y.name
      PROVE  {RunOf(x.id), RunOf(y.id)} \in pairs
  <2>1. CASE x \in d[t] /\ y \in d[t]
    BY <1>5, <2>1 DEF TwinsApart
  <2>2. ASSUME NEW a \in d[t], NEW b \in s[t], b.id \in OwnIds(r), a # b, a.name = b.name
        PROVE  {RunOf(a.id), RunOf(b.id)} \in pairs
    <3>1. a \notin s[t]
      BY <1>3, <2>2
    <3> QED
      BY <1>1, <1>4, <2>2, <3>1
  <2>3. CASE x \in d[t] /\ y \notin d[t]
    BY <1>4, <1>5, <2>2, <2>3
  <2>4. CASE x \notin d[t] /\ y \in d[t]
    <3>1. {RunOf(y.id), RunOf(x.id)} \in pairs
      BY <1>4, <1>5, <2>2, <2>4
    <3>2. {RunOf(y.id), RunOf(x.id)} = {RunOf(x.id), RunOf(y.id)}
      OBVIOUS
    <3> QED
      BY <3>1, <3>2
  <2>5. CASE x \notin d[t] /\ y \notin d[t]
    BY <1>3, <1>4, <1>5, <2>5
  <2> QED
    BY <2>1, <2>3, <2>4, <2>5
<1> QED
  BY <1>5 DEF TwinsApart, e

\* What the steps do to the database and to the pairs.
LEMMA OnlyCommitsStore ==
  ASSUME ImportsInv, [Next]_vars
  PROVE  /\ overlaps \subseteq overlaps'
         /\ \A i \in DOMAIN fate : i \in DOMAIN fate' /\ fate'[i].kind = fate[i].kind
         /\ \/ db' = db
            \/ \E w \in Workers : Open(w) /\ run[w].pc = "closing" /\ run[w].queue = {}
                                  /\ db' = Applied(db, run[w].sent)
<1>1. ASSUME NEW w \in Workers, NEW how, End(w, how)
      PROVE  /\ overlaps \subseteq overlaps'
             /\ \A i \in DOMAIN fate : i \in DOMAIN fate' /\ fate'[i].kind = fate[i].kind
  <2> DEFINE no == run[w].no
  <2>1. overlaps' = overlaps /\ fate' = [fate EXCEPT ![no].how = how]
    BY <1>1 DEF End
  <2>2. \A i \in DOMAIN fate : \E k, h : fate[i] = [kind |-> k, how |-> h]
    <3> DEFINE E == [kind : {"mapper", "bootstrap"},
                     how : {"open", "committed", "refused", "deadlocked", "crashed"}]
    <3>1. fate \in Seq(E)
      BY DEF ImportsInv, FateRight
    <3>2. \A x \in E : \E k, h : x = [kind |-> k, how |-> h]
      OBVIOUS
    <3> HIDE DEF E
    <3>3. \A i \in DOMAIN fate : fate[i] \in E
      BY <3>1
    <3> QED
      BY <3>2, <3>3
  <2> HIDE DEF no
  <2>3. ASSUME NEW i \in DOMAIN fate
        PROVE  fate'[i].kind = fate[i].kind
    <3>1. PICK k, h : fate[i] = [kind |-> k, how |-> h]
      BY <2>2
    <3>2. fate'[i] = IF i = no THEN [fate[i] EXCEPT !.how = how] ELSE fate[i]
      BY <2>1
    <3> QED
      BY <3>1, <3>2
  <2> QED
    BY <2>1, <2>3
<1>2. ASSUME UNCHANGED <<db, fate, overlaps>>
      PROVE  /\ overlaps \subseteq overlaps' /\ db' = db
             /\ \A i \in DOMAIN fate : i \in DOMAIN fate' /\ fate'[i].kind = fate[i].kind
  BY <1>2
<1>3. ASSUME NEW w \in Workers, Commit(w)
      PROVE  Open(w) /\ run[w].pc = "closing" /\ run[w].queue = {}
             /\ db' = Applied(db, run[w].sent) /\ End(w, "committed")
  BY <1>3 DEF Commit, Open
<1>4. ASSUME NEW w \in Workers, NEW job \in Jobs, Start(w, job)
      PROVE  /\ overlaps \subseteq overlaps' /\ db' = db
             /\ \A i \in DOMAIN fate : i \in DOMAIN fate' /\ fate'[i].kind = fate[i].kind
  <2>1. /\ overlaps \subseteq overlaps' /\ db' = db
        /\ fate' = Append(fate, [kind |-> job.kind, how |-> "open"])
    BY <1>4 DEF Start
  <2>2. IsHistory(fate)
    BY InvOfRun
  <2>3. \A i \in DOMAIN fate : i \in DOMAIN fate' /\ fate'[i] = fate[i]
    BY <2>1, <2>2 DEF IsHistory
  <2> QED
    BY <2>1, <2>3
<1>5. ASSUME NEW w \in Workers, Step(w)
      PROVE  \/ UNCHANGED <<db, fate, overlaps>>
             \/ Commit(w)
             \/ db' = db /\ \E how : End(w, how)
  BY <1>5 DEF Step, Read, EnterLoop, Skip, Turn, Close, Execute, Raise, AbortDeadlock
<1>6. ASSUME NEW w \in Workers, Crash(w)
      PROVE  db' = db /\ \E how : End(w, how)
  BY <1>6 DEF Crash
<1>7. CASE \E w \in Workers : Step(w)
  BY <1>1, <1>2, <1>3, <1>5, <1>7
<1>8. CASE \E w \in Workers : Crash(w)
  BY <1>1, <1>6, <1>8
<1>9. CASE \E w \in Workers, job \in Jobs : Start(w, job)
  BY <1>4, <1>9
<1>10. CASE UNCHANGED vars
  BY <1>2, <1>10 DEF vars
<1> QED
  BY <1>7, <1>8, <1>9, <1>10 DEF Next, Done

\* No database found at the start spells two clubs, or two stadiums, alike.
StartsUntwinned ==
  \A d \in StartDBs : \A t \in {"teams", "venues"} : \A x, y \in d[t] : x.name = y.name => x = y

\* Importers that run one after the other never store a club or a stadium twice
\* under one spelling, for any jobs: two rows of one name come from two runs
\* that were open together and have both committed.
THEOREM TwinsOverlap ==
  ASSUME StartsUntwinned
  PROVE  Spec => []TwinsOverlapped
<1> DEFINE Inv == ImportsInv /\ TwinsApart(db, overlaps)
<1>1. Init => Inv
  <2> SUFFICES ASSUME Init PROVE TwinsApart(db, overlaps)
    BY ImportsInit
  <2>1. db \in StartDBs
    BY DEF Init
  <2> QED
    BY <2>1 DEF StartsUntwinned, TwinsApart
<1>2. Inv /\ [Next]_vars => Inv'
  <2> SUFFICES ASSUME ImportsInv, TwinsApart(db, overlaps), [Next]_vars
               PROVE  TwinsApart(db', overlaps')
    BY ImportsNext
  <2>1. overlaps \subseteq overlaps'
    BY OnlyCommitsStore
  <2>2. CASE db' = db
    BY <2>1, <2>2 DEF TwinsApart
  <2>3. CASE \E w \in Workers : Open(w) /\ run[w].pc = "closing" /\ run[w].queue = {}
                                /\ db' = Applied(db, run[w].sent)
    <3>1. PICK w \in Workers : Open(w) /\ run[w].pc = "closing" /\ run[w].queue = {}
                               /\ db' = Applied(db, run[w].sent)
      BY <2>3
    <3>2. IsHistory(fate) /\ DbRight(db, fate) /\ RunRight(db, fate, overlaps, run[w])
      BY <3>1, InvOfRun
    <3>3. TwinsApart(Applied(db, run[w].sent), overlaps)
      BY <3>1, <3>2, CommitTwins
    <3> QED
      BY <2>1, <3>1, <3>3 DEF TwinsApart
  <2> QED
    BY <2>2, <2>3, OnlyCommitsStore
<1>3. Inv => TwinsOverlapped
  <2> SUFFICES ASSUME Inv, NEW t \in {"teams", "venues"}, NEW x \in db[t], NEW y \in db[t],
                      x.name = y.name, x # y
               PROVE  Rivals(RunOf(x.id), RunOf(y.id))
    BY DEF TwinsOverlapped
  <2>1. {RunOf(x.id), RunOf(y.id)} \in overlaps
    BY DEF TwinsApart
  <2>2. RunOf(x.id) \in DOMAIN fate /\ RunOf(y.id) \in DOMAIN fate
    <3>1. PICK i \in DOMAIN fate, j \in DOMAIN fate : {RunOf(x.id), RunOf(y.id)} = {i, j}
      <4>1. overlaps \subseteq {{i, j} : i, j \in DOMAIN fate}
        BY DEF ImportsInv, FateRight
      <4> QED
        BY <2>1, <4>1
    <3> QED
      BY <3>1
  <2>3. 0 \notin DOMAIN fate
    BY InvOfRun DEF IsHistory
  <2>4. CommittedRun(fate, RunOf(x.id)) /\ CommittedRun(fate, RunOf(y.id))
    BY <2>2, <2>3, TableNames DEF ImportsInv, DbRight
  <2> QED
    BY <2>1, <2>4 DEF Rivals, CommittedRun
<1> QED
  BY <1>1, <1>2, <1>3, PTL DEF Spec

-----------------------------------------------------------------------------
(* Clubs *)

\* No database found at the start has a club under two spellings.
StartsClubsOne ==
  \A d \in StartDBs : \A x, y \in d.teams : Lowered[x.name] = Lowered[y.name] => x = y

\* The API gives the clubs of one spelling one id, in every feed.
OneIdPerClub ==
  \A j, k \in Jobs : j.kind = "mapper" /\ k.kind = "mapper" =>
    \A a \in Sides(j), b \in Sides(k) :
      Lowered[Cleaned[a.name]] = Lowered[Cleaned[b.name]] => a.id = b.id

\* A mapper that has not seen another one's club has inserted the link to the
\* same id, and the unique index has let only one of them through.
LEMMA CommitClubs ==
  ASSUME ImportsInv, ClubsLinked, ClubsStayOne, OneIdPerClub, NEW w \in Workers, Open(w),
         run[w].pc = "closing", run[w].queue = {}, db' = Applied(db, run[w].sent),
         \A i \in DOMAIN fate : i \in DOMAIN fate' /\ fate'[i].kind = fate[i].kind
  PROVE  ClubsLinked' /\ ClubsStayOne'
<1> DEFINE r == run[w]   s == r.session   first == First(r)
<1>1. IsHistory(fate) /\ DbRight(db, fate) /\ RunRight(db, fate, overlaps, r)
  BY InvOfRun
<1>2. /\ Standing(r, fate) /\ WithinIds(r) /\ SentApart(db, r) /\ UnseenOverlap(db, overlaps, r)
      /\ NamesApart(r.job, first, s) /\ OwnIds(r) = first..(s.nextId - 1)
  BY <1>1 DEF RunRight, Working, InLoopPhase, SessionRight, OwnIds, NextOf
<1>3. /\ r.job \in Jobs /\ r.no \in DOMAIN fate /\ r.no \in Nat \ {0}
      /\ fate[r.no].kind = r.job.kind /\ r.job.kind \in {"mapper", "bootstrap"}
      /\ \A id \in OwnIds(r) : RunOf(id) = r.no
  <2>1. r.no \in Nat \ {0} /\ \A id \in OwnIds(r) : RunOf(id) = r.no
    BY <1>1, <1>2, OwnIdsAreOwn
  <2> QED
    BY <1>2, <2>1, JobsAre DEF Standing
<1>4. \A t \in {"teams", "teamLinks"} :
        /\ db[t] \subseteq db'[t]
        /\ \A y \in db'[t] : y \in db[t] \/ (y \in s[t] /\ y.id \in OwnIds(r))
        /\ \A x \in db[t] : x.id \in IdsOf(s[t]) => x \in s[t]
        /\ \A y \in s[t] : y.id \in OwnIds(r) =>
             \E st \in SentOf(r) : st.insert /\ st.table = t /\ st.columns = y /\ y \in db'[t]
  BY <1>1, CommitAdds
<1>5. \A x \in db.teams : x \in s.teams \/ {RunOf(x.id), r.no} \in overlaps
  <2>1. HasRead(r, "teams")
    BY DEF HasRead
  <2> QED
    BY <1>2, <1>4, <2>1 DEF UnseenOverlap
<1>6. /\ \A x \in db.teams : StoredBy(x)' = StoredBy(x)
      /\ \A x \in db'.teams : x.id \in OwnIds(r) => StoredBy(x)' = r.job.kind
  <2>1. \A x \in db.teams : RunOf(x.id) = 0 \/ RunOf(x.id) \in DOMAIN fate
    BY <1>1, TableNames DEF DbRight, CommittedRun
  <2> QED
    BY <1>3, <2>1 DEF StoredBy
<1>7. r.job.kind = "mapper" =>
        \A t \in s.teams : t.id \in OwnIds(r) =>
          \E l \in s.teamLinks : l.id \in OwnIds(r) /\ Links(l, t, r.job)
  BY <1>2 DEF NamesApart
<1>8. ClubsLinked'
  <2> SUFFICES ASSUME NEW t \in db'.teams, StoredBy(t)' = "mapper"
               PROVE  \E l \in db'.teamLinks, job \in Jobs : job.kind = "mapper" /\ Links(l, t, job)
    BY DEF ClubsLinked
  <2>1. CASE t \in db.teams
    <3>1. StoredBy(t) = "mapper"
      BY <1>6, <2>1
    <3>2. PICK l \in db.teamLinks, job \in Jobs : job.kind = "mapper" /\ Links(l, t, job)
      BY <2>1, <3>1 DEF ClubsLinked
    <3>3. l \in db'.teamLinks
      BY <1>4, <3>2
    <3> QED
      BY <3>2, <3>3
  <2>2. CASE t \notin db.teams
    <3>1. t \in s.teams /\ t.id \in OwnIds(r)
      BY <1>4, <2>2
    <3>2. r.job.kind = "mapper"
      BY <1>6, <3>1
    <3>3. PICK l \in s.teamLinks : l.id \in OwnIds(r) /\ Links(l, t, r.job)
      BY <1>7, <3>1, <3>2
    <3>4. l \in db'.teamLinks
      BY <1>4, <3>3
    <3> QED
      BY <1>3, <3>2, <3>3, <3>4
  <2> QED
    BY <2>1, <2>2
<1>9. ASSUME NEW x \in db.teams, NEW z \in s.teams, z.id \in OwnIds(r), x # z,
             Lowered[x.name] = Lowered[z.name], StoredBy(x) # "bootstrap"
      PROVE  r.job.kind = "bootstrap"
  <2> SUFFICES ASSUME r.job.kind = "mapper"
               PROVE  FALSE
    BY <1>3
  <2>1. x \notin s.teams
    BY <1>2, <1>9 DEF NamesApart, Folded
  <2>2. {RunOf(x.id), r.no} \in overlaps
    BY <1>5, <2>1
  <2>3. RunOf(x.id) \in DOMAIN fate /\ RunOf(x.id) # 0
    <3>1. 0 \notin DOMAIN fate
      BY <1>1 DEF IsHistory
    <3>2. RunOf(x.id) \in DOMAIN fate
      BY <2>2 DEF ImportsInv, FateRight
    <3> QED
      BY <3>1, <3>2
  <2>4. StoredBy(x) = "mapper"
    <3> DEFINE E == [kind : {"mapper", "bootstrap"},
                     how : {"open", "committed", "refused", "deadlocked", "crashed"}]
    <3>1. fate \in Seq(E)
      BY <1>1 DEF IsHistory
    <3>2. \A i \in DOMAIN fate : fate[i] \in E
      <4> HIDE DEF E
      <4> QED
        BY <3>1
    <3>3. fate[RunOf(x.id)].kind \in {"mapper", "bootstrap"}
      BY <2>3, <3>2
    <3> QED
      BY <1>9, <2>3, <3>3 DEF StoredBy
  <2>5. PICK l \in db.teamLinks, job \in Jobs : job.kind = "mapper" /\ Links(l, x, job)
    BY <1>9, <2>4 DEF ClubsLinked
  <2>6. PICK k \in s.teamLinks : k.id \in OwnIds(r) /\ Links(k, z, r.job)
    BY <1>7, <1>9
  <2>7. PICK st \in SentOf(r) : st.insert /\ st.table = "teamLinks" /\ st.columns = k
    BY <1>4, <2>6
  <2>8. l.ext = k.ext /\ l.source = k.source
    <3>1. PICK a \in Sides(job) : x.name = Cleaned[a.name] /\ l.source = FootballData /\ l.ext = a.id
      BY <2>5 DEF Links
    <3>2. PICK b \in Sides(r.job) : z.name = Cleaned[b.name] /\ k.source = FootballData /\ k.ext = b.id
      BY <2>6 DEF Links
    <3>3. a.id = b.id
      BY <1>3, <1>9, <2>5, <3>1, <3>2 DEF OneIdPerClub
    <3> QED
      BY <3>1, <3>2, <3>3
  <2>9. Keys("teamLinks", l) \cap Keys("teamLinks", k) = {}
    BY <1>2, <2>5, <2>7 DEF SentApart
  <2>10. <<"source", l.ext, l.source>> \in Keys("teamLinks", l)
         /\ <<"source", k.ext, k.source>> \in Keys("teamLinks", k)
    BY DEF Keys
  <2> QED
    BY <2>8, <2>9, <2>10
<1>10. ClubsStayOne'
  <2> SUFFICES ASSUME NEW t \in db'.teams, NEW u \in db'.teams, t # u,
                      Lowered[t.name] = Lowered[u.name],
                      StoredBy(t)' # "bootstrap", StoredBy(u)' # "bootstrap"
               PROVE  FALSE
    BY DEF ClubsStayOne
  <2>1. \A x \in db'.teams : x \in db.teams \/ (x \in s.teams /\ x.id \in OwnIds(r))
    BY <1>4
  <2>2. CASE t \in db.teams /\ u \in db.teams
    BY <1>6, <2>2 DEF ClubsStayOne
  <2>3. CASE t \in db.teams /\ u \notin db.teams
    BY <1>6, <1>9, <2>1, <2>3
  <2>4. CASE t \notin db.teams /\ u \in db.teams
    BY <1>6, <1>9, <2>1, <2>4
  <2>5. CASE t \notin db.teams /\ u \notin db.teams
    <3>1. /\ t \in s.teams /\ t.id \in OwnIds(r) /\ u \in s.teams
          /\ r.job.kind = "mapper"
      BY <1>3, <1>6, <2>1, <2>5
    <3> QED
      BY <1>2, <3>1 DEF NamesApart, Folded
  <2> QED
    BY <2>2, <2>3, <2>4, <2>5
<1> QED
  BY <1>8, <1>10

\* Mappers alone never store a club twice, run at once or not: wherever the
\* database has a club under two rows, a bootstrap has stored one of them.
THEOREM MappersStoreClubsOnce ==
  ASSUME StartsClubsOne, OneIdPerClub
  PROVE  Spec => []ClubsStayOne
<1> DEFINE Inv == ImportsInv /\ ClubsLinked /\ ClubsStayOne
<1>1. Init => Inv
  <2> SUFFICES ASSUME Init PROVE ClubsLinked /\ ClubsStayOne
    BY ImportsInit
  <2>1. db \in StartDBs /\ Sound(db) /\ \A id \in Ids(db) : id \in Nat /\ id < IdsPerRun
    BY ImportsAssumption DEF Init, Sound, KeysHold
  <2>2. \A t \in db.teams : RunOf(t.id) = 0
    <3>1. \A t \in db.teams : t.id \in Ids(db)
      BY TableNames DEF Ids, IdsOf
    <3> QED
      BY <2>1, <3>1, RunOfFoundId
  <2> QED
    BY <2>1, <2>2 DEF ClubsLinked, ClubsStayOne, StoredBy, StartsClubsOne
<1>2. Inv /\ [Next]_vars => Inv'
  <2> SUFFICES ASSUME ImportsInv, ClubsLinked, ClubsStayOne, [Next]_vars
               PROVE  ClubsLinked' /\ ClubsStayOne'
    BY ImportsNext
  <2>1. \A i \in DOMAIN fate : i \in DOMAIN fate' /\ fate'[i].kind = fate[i].kind
    BY OnlyCommitsStore
  <2>2. CASE db' = db
    <3>1. \A x \in db.teams : RunOf(x.id) = 0 \/ RunOf(x.id) \in DOMAIN fate
      BY TableNames DEF ImportsInv, DbRight, CommittedRun
    <3>2. \A x \in db.teams : StoredBy(x)' = StoredBy(x)
      BY <2>1, <3>1 DEF StoredBy
    <3> QED
      BY <2>2, <3>2 DEF ClubsLinked, ClubsStayOne
  <2>3. CASE \E w \in Workers : Open(w) /\ run[w].pc = "closing" /\ run[w].queue = {}
                                /\ db' = Applied(db, run[w].sent)
    BY <2>1, <2>3, CommitClubs
  <2> QED
    BY <2>2, <2>3, OnlyCommitsStore
<1> QED
  BY <1>1, <1>2, PTL DEF Spec

-----------------------------------------------------------------------------
(* A run that nobody disturbs *)

Concat(d, s) == [t \in Tables |-> d[t] \cup s[t]]

\* Whatever the feeds call by the name of a linked club has the id of the link.
Clubs == UNION {Sides(job) : job \in {job \in Jobs : job.kind = "mapper"}}

ClubFits(d, l) ==
  \E t \in d["teams"] :
    /\ t.id = l.team
    /\ \A side \in Clubs : Lowered[Cleaned[side.name]] = Lowered[t.name] => side.id = l.ext

\* The sides of a linked match are linked, and whatever the feeds report for
\* the fixture has the id of the link.
ReportedAs(ext, year, matchday, home, away) ==
  \A job \in Jobs : job.kind = "mapper" /\ job.year = year =>
    \A i \in DOMAIN job.rows :
      LET raw == job.rows[i]
      IN raw.matchday = matchday /\ raw.home.id = home /\ raw.away.id = away => raw.id = ext

SideLink(k, side) == k.source = FootballData /\ k.team = side

FixtureFits(d, l) ==
  \E m \in d["matches"], q \in d["seasons"], h, a \in d["teamLinks"] :
    /\ m.id = l.match /\ q.id = m.season
    /\ SideLink(h, m.home) /\ SideLink(a, m.away)
    /\ ReportedAs(l.ext, q.year, m.matchday, h.ext, a.ext)

LinksFit(d) ==
  /\ \A l \in d["teamLinks"] : l.source = FootballData => ClubFits(d, l)
  /\ \A l \in d["matchLinks"] : l.source = FootballData => FixtureFits(d, l)

\* The dictionaries of a mapper answer what the rows of its session say, and the
\* lookups of a bootstrap know every key.
LinkMirror(links, dict, Value(_)) ==
  /\ \A l \in links : l.source = FootballData => l.ext \in DOMAIN dict
  /\ \A e \in DOMAIN dict :
       \E l \in links : l.source = FootballData /\ l.ext = e /\ Value(l) = dict[e]

MapperMirrors(s) ==
  /\ LinkMirror(s.teamLinks, s.teamByExt, LAMBDA l : l.team)
  /\ LinkMirror(s.matchLinks, s.matchByExt, LAMBDA l : l.match)
  /\ \A n \in DOMAIN s.teamByName :
       \E t \in s.teams : t.id = s.teamByName[n] /\ Lowered[t.name] = n
  /\ \A m \in s.matches : NaturalKey(m) \in DOMAIN s.matchByKey
  /\ \A k \in DOMAIN s.matchByKey :
       \E m \in s.matches : m.id = s.matchByKey[k] /\ NaturalKey(m) = k

BootstrapMirrors(s) ==
  /\ \A y \in DOMAIN s.seasonByYear :
       \E q \in s.seasons : q.id = s.seasonByYear[y] /\ q.year = y
  /\ \A n \in DOMAIN s.teamByName : \E t \in s.teams : t.id = s.teamByName[n] /\ t.name = n
  /\ s.matchKeys = {NaturalKey(m) : m \in s.matches}
  /\ s.seasonTeamKeys = {<<p.season, p.team>> : p \in s.seasonTeams}

\* Rows that get past the unique indexes and the CHECK on the sides.
SessionSound(job, s) ==
  /\ IF job.kind = "mapper" THEN MapperMirrors(s) ELSE BootstrapMirrors(s)
  /\ \A t \in Tables : KeysUnique(s, t)
  /\ SidesDistinct(s)

\* The tables an importer selects as a whole, and those it never touches.
Selects(kind) ==
  IF kind = "mapper" THEN {"teamLinks", "teams", "venues", "matchLinks", "matches"}
  ELSE {"seasons", "teams", "venues", "matches", "seasonTeams"}
Untouched(kind) ==
  IF kind = "mapper" THEN {"seasonTeams"} ELSE {"teamLinks", "matchLinks"}

\* A link of the run's own was made for the name of the club.
LinksNamed(d, job, s) ==
  \A l \in s.teamLinks : l.source = FootballData =>
    \/ l \in d["teamLinks"]
    \/ \E t \in s.teams, side \in Sides(job) :
         t.id = l.team /\ side.id = l.ext /\ Lowered[Cleaned[side.name]] = Lowered[t.name]

\* A mapper knows one season, its own.
OneSeason(job, seasons) == \E q \in seasons : seasons = {q} /\ q.year = job.year

\* A session in the loop.
SessionClean(d, job, s) ==
  /\ SessionSound(job, s)
  /\ LinksFit(Concat(d, s))
  /\ LinksNamed(d, job, s)

\* What holds of the rows at any time.
RowsClean(r) ==
  /\ r.job.kind = "mapper" /\ ~(r.pc = "reading" /\ r.step = 1) => OneSeason(r.job, r.session["seasons"])
  /\ \A t \in Untouched(r.job.kind) : r.session[t] = {}

\* No run that was open with it has committed.
Undisturbed(how, pairs, no) ==
  \A j \in DOMAIN how : {no, j} \in pairs => how[j].how # "committed"

\* The committed rows of what a run has selected are in its session.
Complete(d, r) ==
  \A t \in Tables : \A q \in d[t] :
    \/ t \in Selects(r.job.kind) /\ HasRead(r, t)
    \/ /\ r.job.kind = "mapper" /\ ~(r.pc = "reading" /\ r.step = 1)
       /\ t = "seasons" /\ q.year = r.job.year
    => \E x \in r.session[t] : Alike(t, q, x)

CleanRun(d, how, pairs, r) ==
  /\ RowsClean(r)
  /\ InLoopPhase(r) => SessionClean(d, r.job, r.session)
  /\ \A st \in r.queue : st.insert => st \notin SentOf(r)
  /\ Undisturbed(how, pairs, r.no) => Complete(d, r)

CleanInv ==
  /\ LinksFit(db)
  /\ \A w \in Workers : Open(w) => CleanRun(db, fate, overlaps, run[w])
  /\ RefusedOnlyByRival

\* The links found at the start fit what the feeds report.
StartsFit == \A d \in StartDBs : LinksFit(d)

\* The API gives a fixture, by its season, its matchday and its sides, one id.
OneIdPerFixture ==
  \A j, k \in Jobs : j.kind = "mapper" /\ k.kind = "mapper" /\ j.year = k.year =>
    \A a \in DOMAIN j.rows, b \in DOMAIN k.rows :
      LET p == j.rows[a]
          q == k.rows[b]
      IN p.matchday = q.matchday /\ p.home.id = q.home.id /\ p.away.id = q.away.id => p.id = q.id

\* Nobody plays itself: the API names two ids, and _parse_row drops other rows.
SidesDiffer ==
  \A job \in Jobs : \A i \in DOMAIN job.rows :
    IF job.kind = "mapper" THEN job.rows[i].home.id # job.rows[i].away.id
    ELSE job.rows[i].home # job.rows[i].away


-----------------------------------------------------------------------------
(* Links that fit go on fitting *)

Grows(d, e) == \A t \in Tables : \A x \in d[t] : \E y \in e[t] : Alike(t, x, y)

\* Rows do not go away, nor does what no UPDATE reaches.
LEMMA GrowsRows ==
  ASSUME NEW d, NEW e, Grows(d, e)
  PROVE  /\ d["teams"] \subseteq e["teams"] /\ d["teamLinks"] \subseteq e["teamLinks"]
         /\ \A m \in d["matches"] : \E n \in e["matches"] :
              n.id = m.id /\ n.season = m.season /\ n.matchday = m.matchday
              /\ n.home = m.home /\ n.away = m.away
         /\ \A q \in d["seasons"] : \E p \in e["seasons"] : p.id = q.id /\ p.year = q.year
<1>1. ASSUME NEW t \in {"teams", "teamLinks"}, NEW x \in d[t]
      PROVE  x \in e[t]
  <2>1. PICK y \in e[t] : Alike(t, x, y)
    BY TableNames DEF Grows
  <2> QED
    BY <2>1, AlikeRows, TableNames
<1>2. ASSUME NEW m \in d["matches"]
      PROVE  \E n \in e["matches"] :
               n.id = m.id /\ n.season = m.season /\ n.matchday = m.matchday
               /\ n.home = m.home /\ n.away = m.away
  <2>1. PICK n \in e["matches"] : Alike("matches", m, n)
    BY TableNames DEF Grows
  <2> QED
    BY <2>1, AlikeRows, TableNames DEF Alike
<1>3. ASSUME NEW q \in d["seasons"]
      PROVE  \E p \in e["seasons"] : p.id = q.id /\ p.year = q.year
  <2>1. PICK p \in e["seasons"] : Alike("seasons", q, p)
    BY TableNames DEF Grows
  <2> QED
    BY <2>1, AlikeRows, TableNames DEF Alike
<1> QED
  BY <1>1, <1>2, <1>3

\* Of a link only what no UPDATE reaches matters.
LEMMA GrowsFit ==
  ASSUME NEW d, NEW e, Grows(d, e), NEW l
  PROVE  /\ ClubFits(d, l) => ClubFits(e, l)
         /\ FixtureFits(d, l) => FixtureFits(e, l)
<1>1. /\ d["teams"] \subseteq e["teams"] /\ d["teamLinks"] \subseteq e["teamLinks"]
      /\ \A m \in d["matches"] : \E n \in e["matches"] :
           n.id = m.id /\ n.season = m.season /\ n.matchday = m.matchday
           /\ n.home = m.home /\ n.away = m.away
      /\ \A q \in d["seasons"] : \E p \in e["seasons"] : p.id = q.id /\ p.year = q.year
  BY GrowsRows
<1>2. ClubFits(d, l) => ClubFits(e, l)
  BY <1>1 DEF ClubFits
<1>3. ASSUME FixtureFits(d, l)
      PROVE  FixtureFits(e, l)
  <2>1. PICK m \in d["matches"], q \in d["seasons"], h \in d["teamLinks"], a \in d["teamLinks"] :
          /\ m.id = l.match /\ q.id = m.season
          /\ SideLink(h, m.home) /\ SideLink(a, m.away)
          /\ ReportedAs(l.ext, q.year, m.matchday, h.ext, a.ext)
    BY <1>3 DEF FixtureFits
  <2>2. PICK n \in e["matches"] : n.id = m.id /\ n.season = m.season /\ n.matchday = m.matchday
                                  /\ n.home = m.home /\ n.away = m.away
    BY <1>1
  <2>3. PICK p \in e["seasons"] : p.id = q.id /\ p.year = q.year
    BY <1>1
  <2>4. /\ h \in e["teamLinks"] /\ a \in e["teamLinks"]
        /\ n.id = l.match /\ p.id = n.season
        /\ SideLink(h, n.home) /\ SideLink(a, n.away)
        /\ ReportedAs(l.ext, p.year, n.matchday, h.ext, a.ext)
    BY <1>1, <2>1, <2>2, <2>3
  <2> QED
    BY <2>4 DEF FixtureFits
<1> QED
  BY <1>2, <1>3

LEMMA ConcatRows ==
  ASSUME NEW d, NEW s
  PROVE  /\ \A t \in Tables : Concat(d, s)[t] = d[t] \cup s[t]
         /\ Concat(d, s).teams = d["teams"] \cup s["teams"]
         /\ Concat(d, s).teamLinks = d["teamLinks"] \cup s["teamLinks"]
         /\ Concat(d, s).matches = d["matches"] \cup s["matches"]
         /\ Concat(d, s).matchLinks = d["matchLinks"] \cup s["matchLinks"]
         /\ Concat(d, s).seasons = d["seasons"] \cup s["seasons"]
BY TableNames DEF Concat

\* The links of a larger database fit if those fit that it has and d has not.
LEMMA LinksFitOn ==
  ASSUME NEW d, NEW e, Grows(d, e), LinksFit(d),
         \A l \in e["teamLinks"] \ d["teamLinks"] : l.source = FootballData => ClubFits(e, l),
         \A l \in e["matchLinks"] \ d["matchLinks"] : l.source = FootballData => FixtureFits(e, l)
  PROVE  LinksFit(e)
BY GrowsFit DEF LinksFit

LEMMA ConcatGrows ==
  ASSUME NEW d, NEW e, NEW s, NEW u, Grows(d, e), Grows(s, u)
  PROVE  Grows(Concat(d, s), Concat(e, u))
BY ConcatRows DEF Grows

LEMMA GrowsItself ==
  ASSUME NEW d
  PROVE  Grows(d, d)
BY AlikeItself DEF Grows

-----------------------------------------------------------------------------
(* One lookup of a run nobody disturbs *)

\* What a run works on, and what is committed.
Placed(d, job, first, s) ==
  /\ Reserved(d, first)
  /\ \A t \in Tables : UniqueOn(d[t], LAMBDA r : r.id) /\ KeysUnique(d, t)
  /\ SessionRight(d, job, first, s)
  /\ first <= s.nextId
  /\ job \in Jobs

\* Committed or in the session, the rows of one id are versions of one row.
LEMMA OneRowPerId ==
  ASSUME NEW d, NEW job, NEW first, NEW s, Placed(d, job, first, s),
         s.nextId <= first + IdsPerRun,
         NEW t \in Tables, NEW x \in d[t] \cup s[t], NEW y \in d[t] \cup s[t], x.id = y.id
  PROVE  Alike(t, x, y)
<1>1. /\ \A p, q \in d[t] : p.id = q.id => p = q
      /\ \A p, q \in s[t] : p.id = q.id => p = q
  BY DEF Placed, SessionRight, RowsRight, UniqueOn
<1>2. ASSUME NEW p \in s[t], NEW q \in d[t], p.id = q.id
      PROVE  Alike(t, p, q)
  <2>1. p.id \notin first..(s.nextId - 1)
    <3>1. /\ first \in Nat /\ IdsPerRun \in Nat /\ s.nextId \in Nat
          /\ q.id \notin first..(first + IdsPerRun - 1)
      BY DEF Placed, Reserved, SessionRight
    <3> QED
      BY <1>2, <3>1
  <2>2. PICK z \in d[t] : Alike(t, z, p)
    BY <2>1 DEF Placed, SessionRight, RowsRight
  <2>3. z = q
    BY <1>1, <1>2, <2>2 DEF Alike
  <2> QED
    BY <2>2, <2>3, AlikeItself
<1> QED
  BY <1>1, <1>2, AlikeItself

\* A link's team and a link's match are no new rows.
LEMMA LinkedIdsAreOld ==
  ASSUME NEW d, NEW job, NEW first, NEW s, Placed(d, job, first, s),
         s.nextId < first + IdsPerRun
  PROVE  /\ \A l \in s.teamLinks : l.team # s.nextId
         /\ \A l \in s.matchLinks : l.match # s.nextId
         /\ \A t \in Tables : \A x \in d[t] \cup s[t] : x.id # s.nextId
<1>1. /\ first \in Nat /\ IdsPerRun \in Nat /\ s.nextId \in Nat /\ first <= s.nextId
  BY DEF Placed, Reserved, SessionRight
<1>2. \A t \in Tables : \A x \in d[t] \cup s[t] : x.id # s.nextId
  <2>1. s.nextId \in first..(first + IdsPerRun - 1)
    BY <1>1
  <2>2. \A t \in Tables : \A x \in d[t] : x.id # s.nextId
    BY <2>1 DEF Placed, Reserved
  <2>3. \A t \in Tables : \A x \in s[t] :
          x.id \in first..(s.nextId - 1) \/ \E q \in d[t] : q.id = x.id
    BY DEF Placed, SessionRight, RowsRight, Alike
  <2> QED
    BY <1>1, <2>2, <2>3
<1>3. \A l \in s.teamLinks : l.team \in Known(d, s)["teams"]
  BY TableNames DEF Placed, SessionRight, RowsRight, RefersInto
<1>4. \A l \in s.matchLinks : l.match \in Known(d, s)["matches"]
  BY TableNames DEF Placed, SessionRight, RowsRight, RefersInto
<1>5. \A t \in Tables : s.nextId \notin Known(d, s)[t]
  BY <1>2 DEF Known, IdsOf
<1> QED
  BY <1>2, <1>3, <1>4, <1>5, TableNames

\* Two links of one club name one id.
LEMMA LinksAgree ==
  ASSUME NEW d, NEW job, job.kind = "mapper", NEW first, NEW s, Placed(d, job, first, s),
         s.nextId <= first + IdsPerRun,
         LinksFit(Concat(d, s)), LinksNamed(d, job, s),
         NEW k \in d["teamLinks"] \cup s["teamLinks"], NEW l \in d["teamLinks"] \cup s["teamLinks"],
         k.source = FootballData, l.source = FootballData, k.team = l.team
  PROVE  k.ext = l.ext
<1>1. ASSUME NEW p \in s["teamLinks"], NEW q \in d["teamLinks"] \cup s["teamLinks"],
             p.source = FootballData, q.source = FootballData, p.team = q.team,
             p \notin d["teamLinks"]
      PROVE  p.ext = q.ext
  <2>1. PICK t \in s.teams, side \in Sides(job) :
          t.id = p.team /\ side.id = p.ext /\ Lowered[Cleaned[side.name]] = Lowered[t.name]
    BY <1>1 DEF LinksNamed
  <2>2. ClubFits(Concat(d, s), q)
    BY <1>1, ConcatRows DEF LinksFit
  <2>3. PICK u \in d["teams"] \cup s["teams"] :
          u.id = q.team
          /\ \A a \in Clubs : Lowered[Cleaned[a.name]] = Lowered[u.name] => a.id = q.ext
    BY <2>2, ConcatRows DEF ClubFits
  <2>4. u = t
    BY <1>1, <2>1, <2>3, OneRowPerId, AlikeRows, TableNames
  <2>5. side \in Clubs
    BY <2>1 DEF Clubs, Placed
  <2> QED
    BY <2>1, <2>3, <2>4, <2>5
<1>2. CASE k \in d["teamLinks"] /\ l \in d["teamLinks"]
  <2>1. <<"team", k.team, k.source>> \in Keys("teamLinks", k) \cap Keys("teamLinks", l)
    BY DEF Keys
  <2>2. k = l
    BY <1>2, <2>1, TableNames DEF Placed, KeysUnique
  <2> QED
    BY <2>2
<1> QED
  BY <1>1, <1>2


\* What a lookup has moved keeps the links that fit.
LEMMA MovesKeepLinks ==
  ASSUME NEW d, NEW s, NEW u, LinksFit(Concat(d, s)), RowsMoved(s, u),
         \A l \in u["teamLinks"] \ s["teamLinks"] :
           l.source = FootballData => ClubFits(Concat(d, u), l),
         \A l \in u["matchLinks"] \ s["matchLinks"] :
           l.source = FootballData => FixtureFits(Concat(d, u), l)
  PROVE  LinksFit(Concat(d, u))
<1>1. Grows(Concat(d, s), Concat(d, u))
  BY GrowsItself, ConcatGrows DEF RowsMoved, Grows
<1>2. /\ Concat(d, u)["teamLinks"] \ Concat(d, s)["teamLinks"] \subseteq u["teamLinks"] \ s["teamLinks"]
      /\ Concat(d, u)["matchLinks"] \ Concat(d, s)["matchLinks"] \subseteq u["matchLinks"] \ s["matchLinks"]
  BY ConcatRows
<1> QED
  BY <1>1, <1>2, LinksFitOn

\* _resolve_team: a club the session knows by name only has no link yet, or the
\* feeds would know its id.
LEMMA ResolveTeamClean ==
  ASSUME OneIdPerClub, NEW d, NEW first, NEW job, job.kind = "mapper",
         NEW s, Placed(d, job, first, s), SessionClean(d, job, s),
         s.nextId + 2 <= first + IdsPerRun, NEW api \in Sides(job)
  PROVE  SessionClean(d, job, Mapper!ResolveTeam(s, api))
<1> DEFINE u == Mapper!ResolveTeam(s, api)
           name == Cleaned[api.name]
           key  == Lowered[name]
           known == key \in DOMAIN s.teamByName
           team == IF known THEN s.teamByName[key] ELSE s.nextId
           newTeam == [id |-> s.nextId, name |-> name]
           newLink == [id |-> s.nextId + 1, team |-> team, source |-> FootballData,
                       ext |-> api.id]
<1>0. /\ s.nextId \in Nat /\ DOMAIN s = MapperFields
      /\ s.nextId <= first + IdsPerRun /\ s.nextId < first + IdsPerRun
      /\ Looked(d, job, first, s, u, 2)
  <2>1. /\ s.nextId \in Nat /\ DOMAIN s = MapperFields /\ first \in Nat /\ IdsPerRun \in Nat
    BY DEF Placed, Reserved, SessionRight, Dicts, MapperDicts, MapperFields
  <2>2. Looked(d, job, first, s, u, 2)
    BY ResolveTeamRight DEF Placed
  <2> QED
    BY <2>1, <2>2
<1>1. CASE api.id \in DOMAIN s.teamByExt
  <2>1. u = s
    BY <1>1 DEF Mapper!ResolveTeam
  <2> QED
    BY <2>1
<1>2. CASE api.id \notin DOMAIN s.teamByExt
  <2>1. /\ DOMAIN u = MapperFields
        /\ u.teams = IF known THEN s.teams ELSE s.teams \cup {newTeam}
        /\ u.teamByName = Put(s.teamByName, key, team)
        /\ u.teamLinks = s.teamLinks \cup {newLink}
        /\ u.teamByExt = Put(s.teamByExt, api.id, team)
        /\ \A f \in MapperFields \ {"teams", "nextId", "teamByName", "teamLinks", "teamByExt"} :
             u[f] = s[f]
    BY <1>0, <1>2, TableNames DEF Mapper!ResolveTeam, MapperFields, Mapper!Put, Put,
       FootballData, Mapper!FootballData
  <2> HIDE DEF u
  <2>2. /\ u.matchByExt = s.matchByExt /\ u.matchByKey = s.matchByKey
        /\ u.matches = s.matches /\ u.matchLinks = s.matchLinks
        /\ \A t \in Tables \ {"teams", "teamLinks"} : u[t] = s[t]
    BY <2>1, TableNames DEF MapperFields
  <2>3. /\ newTeam.id = s.nextId /\ newTeam.name = name
        /\ newLink.team = team /\ newLink.source = FootballData /\ newLink.ext = api.id
    OBVIOUS
  <2> HIDE DEF newTeam, newLink, name
  <2>4. MapperMirrors(s) /\ (\A t \in Tables : KeysUnique(s, t)) /\ SidesDistinct(s)
        /\ LinksFit(Concat(d, s)) /\ LinksNamed(d, job, s)
    BY DEF SessionClean, SessionSound
  \* the row of the team, and its name
  <2>5. PICK t \in u.teams : t.id = team /\ Lowered[t.name] = key /\ (known => t \in s.teams)
    <3>1. CASE known
      BY <2>1, <2>4, <3>1 DEF MapperMirrors
    <3>2. CASE ~known
      BY <2>1, <2>3, <3>2 DEF key
    <3> QED
      BY <3>1, <3>2
  <2>6. ASSUME NEW l \in s.teamLinks, l.source = FootballData
        PROVE  l.team # team /\ l.ext # api.id
    <3>1. l.ext # api.id
      BY <1>2, <2>4, <2>6 DEF MapperMirrors, LinkMirror
    <3>2. CASE ~known
      BY <1>0, <3>1, <3>2, LinkedIdsAreOld
    <3>3. CASE known
      <4>1. ClubFits(Concat(d, s), l)
        BY <2>4, <2>6, ConcatRows DEF LinksFit
      <4>2. PICK v \in d["teams"] \cup s["teams"] :
              v.id = l.team
              /\ \A a \in Clubs : Lowered[Cleaned[a.name]] = Lowered[v.name] => a.id = l.ext
        BY <4>1, ConcatRows DEF ClubFits
      <4>3. api \in Clubs
        BY DEF Clubs, Placed
      <4>4. l.team = team => v = t
        BY <1>0, <2>5, <3>3, <4>2, OneRowPerId, AlikeRows, TableNames
      <4> QED
        BY <2>5, <3>1, <4>2, <4>3, <4>4 DEF key, name
    <3> QED
      BY <3>2, <3>3
  <2> HIDE DEF team, known, key
  <2>7. KeysUnique(u, "teamLinks")
    <3>1. \A l \in s.teamLinks : Keys("teamLinks", l) \cap Keys("teamLinks", newLink) = {}
      BY <2>3, <2>6 DEF Keys
    <3>2. \A k, l \in s.teamLinks : k # l => Keys("teamLinks", k) \cap Keys("teamLinks", l) = {}
      BY <2>4, TableNames DEF KeysUnique
    <3> QED
      BY <2>1, <3>1, <3>2 DEF KeysUnique
  <2>8. \A v \in Tables : KeysUnique(u, v)
    <3>1. KeysUnique(u, "teams")
      BY DEF KeysUnique, Keys
    <3> QED
      BY <2>2, <2>4, <2>7, <3>1 DEF KeysUnique
  <2>9. SidesDistinct(u)
    BY <2>2, <2>4 DEF SidesDistinct
  <2>10. MapperMirrors(u)
    <3>1. /\ DOMAIN u.teamByExt = DOMAIN s.teamByExt \cup {api.id}
          /\ u.teamByExt[api.id] = team
          /\ \A e \in DOMAIN s.teamByExt : u.teamByExt[e] = s.teamByExt[e]
          /\ DOMAIN u.teamByName = DOMAIN s.teamByName \cup {key}
          /\ u.teamByName[key] = team
          /\ \A n \in DOMAIN s.teamByName : n # key => u.teamByName[n] = s.teamByName[n]
      BY <1>2, <2>1 DEF Put
    <3>2. LinkMirror(u.teamLinks, u.teamByExt, LAMBDA l : l.team)
      <4>1. \A l \in s.teamLinks : l.source = FootballData => l.ext \in DOMAIN s.teamByExt
        BY <2>4 DEF MapperMirrors, LinkMirror
      <4>2. \A e \in DOMAIN s.teamByExt :
              \E l \in s.teamLinks : l.source = FootballData /\ l.ext = e /\ l.team = s.teamByExt[e]
        BY <2>4 DEF MapperMirrors, LinkMirror
      <4>3. \A l \in u.teamLinks : l.source = FootballData => l.ext \in DOMAIN u.teamByExt
        BY <2>1, <2>3, <3>1, <4>1
      <4>4. \A e \in DOMAIN u.teamByExt :
              \E l \in u.teamLinks : l.source = FootballData /\ l.ext = e /\ l.team = u.teamByExt[e]
        BY <2>1, <2>3, <3>1, <4>2
      <4> QED
        BY <4>3, <4>4 DEF LinkMirror
    <3>3. \A n \in DOMAIN u.teamByName :
            \E v \in u.teams : v.id = u.teamByName[n] /\ Lowered[v.name] = n
      <4>1. \A n \in DOMAIN s.teamByName :
              \E v \in s.teams : v.id = s.teamByName[n] /\ Lowered[v.name] = n
        BY <2>4 DEF MapperMirrors
      <4> QED
        BY <2>1, <2>5, <3>1, <4>1
    <3> QED
      BY <2>2, <2>4, <3>2, <3>3 DEF MapperMirrors
  <2>11. ClubFits(Concat(d, u), newLink)
    <3>1. \A a \in Clubs : Lowered[Cleaned[a.name]] = Lowered[t.name] => a.id = newLink.ext
      <4> SUFFICES ASSUME NEW j \in Jobs, j.kind = "mapper", NEW a \in Sides(j),
                          Lowered[Cleaned[a.name]] = Lowered[t.name]
                   PROVE  a.id = api.id
        BY <2>3 DEF Clubs
      <4> QED
        BY <2>5 DEF OneIdPerClub, Placed, key, name
    <3> QED
      BY <2>3, <2>5, <3>1, ConcatRows DEF ClubFits
  <2>12. LinksFit(Concat(d, u))
    <3>1. \A l \in u["teamLinks"] \ s["teamLinks"] : l = newLink
      BY <2>1
    <3>2. u["matchLinks"] \ s["matchLinks"] = {}
      BY <2>2
    <3>3. RowsMoved(s, u)
      BY <1>0 DEF Looked, u
    <3> QED
      BY <2>4, <2>11, <3>1, <3>2, <3>3, MovesKeepLinks
  <2>13. LinksNamed(d, job, u)
    <3>1. s.teams \subseteq u.teams
      BY <2>1
    <3> QED
      BY <2>1, <2>3, <2>4, <2>5, <3>1 DEF LinksNamed, key, name
  <2> QED
    BY <2>8, <2>9, <2>10, <2>12, <2>13 DEF SessionClean, SessionSound, u
<1> QED
  BY <1>1, <1>2

\* _resolve_venue adds a row that nothing else speaks of.
LEMMA ResolveVenueClean ==
  ASSUME NEW d, NEW first, NEW job, job.kind = "mapper",
         NEW s, Placed(d, job, first, s), SessionClean(d, job, s),
         s.nextId + 2 <= first + IdsPerRun, NEW raw
  PROVE  SessionClean(d, job, Mapper!ResolveVenue(s, raw))
<1> DEFINE u == Mapper!ResolveVenue(s, raw)
<1>1. DOMAIN s = MapperFields /\ RowsMoved(s, u)
  <2>1. Looked(d, job, first, s, u, 2)
    BY ResolveVenueRight DEF Placed
  <2> QED
    BY <2>1 DEF Looked, Placed, SessionRight, Dicts, MapperDicts, MapperFields
<1>2. \A f \in MapperFields \ {"venues", "nextId", "venueByName"} : u[f] = s[f]
  BY <1>1 DEF Mapper!ResolveVenue, MapperFields
<1> HIDE DEF u
<1>3. /\ u.teamByExt = s.teamByExt /\ u.teamByName = s.teamByName
      /\ u.matchByExt = s.matchByExt /\ u.matchByKey = s.matchByKey
      /\ u.teams = s.teams /\ u.teamLinks = s.teamLinks
      /\ u.matches = s.matches /\ u.matchLinks = s.matchLinks
      /\ \A t \in Tables \ {"venues"} : u[t] = s[t]
  BY <1>2, TableNames DEF MapperFields
<1>4. MapperMirrors(u)
  BY <1>3 DEF SessionClean, SessionSound, MapperMirrors
<1>5. \A t \in Tables : KeysUnique(u, t)
  <2>1. KeysUnique(u, "venues")
    BY DEF KeysUnique, Keys
  <2> QED
    BY <1>3, <2>1 DEF SessionClean, SessionSound, KeysUnique
<1>6. SidesDistinct(u)
  BY <1>3 DEF SessionClean, SessionSound, SidesDistinct
<1>7. LinksFit(Concat(d, u))
  BY <1>1, <1>3, MovesKeepLinks DEF SessionClean
<1>8. LinksNamed(d, job, u)
  BY <1>3 DEF SessionClean, LinksNamed
<1> QED
  BY <1>4, <1>5, <1>6, <1>7, <1>8 DEF SessionClean, SessionSound, u


\* Two sides with different ids are two clubs.
LEMMA SidesStayApart ==
  ASSUME NEW s, MapperMirrors(s), KeysUnique(s, "teamLinks"),
         NEW h \in DOMAIN s.teamByExt, NEW a \in DOMAIN s.teamByExt, h # a
  PROVE  s.teamByExt[h] # s.teamByExt[a]
<1>1. PICK k \in s.teamLinks : k.source = FootballData /\ k.ext = h /\ k.team = s.teamByExt[h]
  BY DEF MapperMirrors, LinkMirror
<1>2. PICK l \in s.teamLinks : l.source = FootballData /\ l.ext = a /\ l.team = s.teamByExt[a]
  BY DEF MapperMirrors, LinkMirror
<1>3. k.team # l.team
  <2>1. k # l
    BY <1>1, <1>2
  <2>2. Keys("teamLinks", k) \cap Keys("teamLinks", l) = {}
    BY <2>1 DEF KeysUnique
  <2>3. /\ <<"team", k.team, k.source>> \in Keys("teamLinks", k)
        /\ <<"team", l.team, l.source>> \in Keys("teamLinks", l)
    BY DEF Keys
  <2> QED
    BY <1>1, <1>2, <2>2, <2>3
<1> QED
  BY <1>1, <1>2, <1>3

\* A match with the natural key of a reported fixture, if it is linked at all,
\* is linked to the id of that fixture.
LEMMA LinkOfFixture ==
  ASSUME NEW d, NEW first, NEW job, job.kind = "mapper",
         NEW s, Placed(d, job, first, s), SessionClean(d, job, s),
         OneSeason(job, s.seasons), s.nextId <= first + IdsPerRun,
         NEW i \in DOMAIN job.rows, NEW m \in s.matches,
         NEW h \in s.teamLinks, NEW a \in s.teamLinks,
         SideLink(h, m.home), h.ext = job.rows[i].home.id,
         SideLink(a, m.away), a.ext = job.rows[i].away.id,
         m.season = s.season, m.matchday = job.rows[i].matchday,
         NEW l \in s.matchLinks, l.source = FootballData, l.match = m.id
  PROVE  l.ext = job.rows[i].id
<1>1. FixtureFits(Concat(d, s), l)
  BY ConcatRows DEF SessionClean, LinksFit
<1>2. PICK n \in d["matches"] \cup s["matches"], q \in d["seasons"] \cup s["seasons"],
           g \in d["teamLinks"] \cup s["teamLinks"], b \in d["teamLinks"] \cup s["teamLinks"] :
        /\ n.id = l.match /\ q.id = n.season
        /\ SideLink(g, n.home) /\ SideLink(b, n.away)
        /\ ReportedAs(l.ext, q.year, n.matchday, g.ext, b.ext)
  BY <1>1, ConcatRows DEF FixtureFits
<1>3. n.season = m.season /\ n.matchday = m.matchday /\ n.home = m.home /\ n.away = m.away
  <2>1. Alike("matches", n, m)
    BY <1>2, OneRowPerId, TableNames
  <2> QED
    BY <2>1, AlikeRows, TableNames
<1>4. q.year = job.year
  <2>1. PICK p \in s.seasons : s.seasons = {p} /\ p.year = job.year
    BY DEF OneSeason
  <2>2. p.id = s.season
    BY <2>1 DEF Placed, SessionRight, Dicts, MapperDicts, IdsOf
  <2>3. Alike("seasons", q, p)
    BY <1>2, <1>3, <2>1, <2>2, OneRowPerId, TableNames
  <2> QED
    BY <2>1, <2>3, AlikeRows, TableNames
<1>5. g.ext = h.ext /\ b.ext = a.ext
  BY <1>2, <1>3, LinksAgree DEF SideLink, SessionClean
<1> QED
  BY <1>2, <1>3, <1>4, <1>5 DEF ReportedAs, Placed

\* The tail of the loop body: a fixture the session knows by its key only has no
\* link yet, and one it does not know has two sides.
LEMMA UpsertMatchClean ==
  ASSUME OneIdPerFixture, SidesDiffer, NEW d, NEW first, NEW job, job.kind = "mapper",
         NEW s, Placed(d, job, first, s), SessionClean(d, job, s),
         OneSeason(job, s.seasons), s.nextId + 2 <= first + IdsPerRun,
         NEW i \in DOMAIN job.rows,
         job.rows[i].home.id \in DOMAIN s.teamByExt, job.rows[i].away.id \in DOMAIN s.teamByExt,
         \/ Mapper!Venueless(job.rows[i].venue)
         \/ Cleaned[job.rows[i].venue] \in DOMAIN s.venueByName
  PROVE  SessionClean(d, job, Mapper!UpsertMatch(s, job.rows[i]))
<1> DEFINE raw == job.rows[i]
           u == Mapper!UpsertMatch(s, raw)
           home == s.teamByExt[raw.home.id]
           away == s.teamByExt[raw.away.id]
           key  == <<s.season, raw.matchday, home, away>>
           linked == raw.id \in DOMAIN s.matchByExt
           found  == linked \/ key \in DOMAIN s.matchByKey
           match  == IF linked THEN s.matchByExt[raw.id]
                     ELSE IF found THEN s.matchByKey[key] ELSE s.nextId
           venue  == Mapper!VenueId(s, raw.venue)
           status == Mapper!MapStatus(raw.status)
           new == [id |-> match, season |-> s.season, matchday |-> raw.matchday,
                   home |-> home, away |-> away, at |-> raw.at, venue |-> venue,
                   status |-> status, score |-> raw.score]
           newLink == [id |-> s.nextId + 1, match |-> match, source |-> FootballData,
                       ext |-> raw.id]
           Now(m) == IF m.id = match
                       THEN [id |-> m.id, season |-> m.season, matchday |-> m.matchday,
                             home |-> m.home, away |-> m.away, at |-> raw.at,
                             venue |-> venue, status |-> status, score |-> raw.score]
                       ELSE m
<1>0. /\ s.nextId \in Nat /\ DOMAIN s = MapperFields
      /\ s.nextId <= first + IdsPerRun /\ s.nextId < first + IdsPerRun
      /\ RowsMoved(s, u)
  <2>1. /\ s.nextId \in Nat /\ DOMAIN s = MapperFields /\ first \in Nat /\ IdsPerRun \in Nat
    BY DEF Placed, Reserved, SessionRight, Dicts, MapperDicts, MapperFields
  <2>2. Looked(d, job, first, s, u, 2)
    BY UpsertMatchRight DEF Placed
  <2> QED
    BY <2>1, <2>2 DEF Looked
<1>1. /\ DOMAIN u = MapperFields
      /\ u.matches = IF found THEN {Now(m) : m \in s.matches} ELSE s.matches \cup {new}
      /\ u.matchByKey = IF found THEN s.matchByKey ELSE Put(s.matchByKey, key, match)
      /\ u.matchLinks = IF linked THEN s.matchLinks ELSE s.matchLinks \cup {newLink}
      /\ u.matchByExt = Put(s.matchByExt, raw.id, match)
      /\ \A f \in MapperFields \ {"matches", "nextId", "matchByKey", "matchLinks", "matchByExt"} :
           u[f] = s[f]
  BY <1>0, TableNames DEF Mapper!UpsertMatch, Mapper!Overwritten, MapperFields, Mapper!Put, Put,
     FootballData, Mapper!FootballData
<1> HIDE DEF u
<1>2. /\ u.teamByName = s.teamByName /\ u.teamByExt = s.teamByExt
      /\ u.teams = s.teams /\ u.teamLinks = s.teamLinks /\ u.seasons = s.seasons
      /\ \A t \in Tables \ {"matches", "matchLinks"} : u[t] = s[t]
  BY <1>1, TableNames DEF MapperFields
<1>3. MapperMirrors(s) /\ (\A t \in Tables : KeysUnique(s, t)) /\ SidesDistinct(s)
      /\ LinksFit(Concat(d, s)) /\ LinksNamed(d, job, s)
  BY DEF SessionClean, SessionSound
<1>4. PICK h \in s.teamLinks : h.source = FootballData /\ h.ext = raw.home.id /\ h.team = home
  BY <1>3 DEF MapperMirrors, LinkMirror
<1>5. PICK a \in s.teamLinks : a.source = FootballData /\ a.ext = raw.away.id /\ a.team = away
  BY <1>3 DEF MapperMirrors, LinkMirror
<1>6. home # away
  BY <1>3, SidesStayApart, TableNames DEF SidesDiffer, Placed
<1>7. /\ new.id = match /\ NaturalKey(new) = key /\ new.home = home /\ new.away = away
      /\ new.season = s.season /\ new.matchday = raw.matchday
      /\ newLink.match = match /\ newLink.source = FootballData /\ newLink.ext = raw.id
  BY DEF NaturalKey
<1>8. \A m \in s.matches : /\ Now(m).id = m.id /\ NaturalKey(Now(m)) = NaturalKey(m)
                           /\ Now(m).home = m.home /\ Now(m).away = m.away
  BY DEF NaturalKey
<1>9. ~linked /\ found => \E m \in s.matches : m.id = match /\ NaturalKey(m) = key
  BY <1>3 DEF MapperMirrors
<1>10. ASSUME NEW m, NaturalKey(m) = key
       PROVE  m.season = s.season /\ m.matchday = raw.matchday /\ m.home = home /\ m.away = away
  BY <1>10 DEF NaturalKey
<1>11. (~found => match = s.nextId) /\ (linked => found) /\ (linked => match = s.matchByExt[raw.id])
       /\ (~found => key \notin DOMAIN s.matchByKey) /\ (linked <=> raw.id \in DOMAIN s.matchByExt)
  OBVIOUS
<1> HIDE DEF new, newLink, Now, match, venue, status, linked, found
\* the link is new, and so is its match, or it has none yet
<1>12. ASSUME ~linked, NEW l \in s.matchLinks, l.source = FootballData
       PROVE  l.match # match /\ l.ext # raw.id
  <2>1. l.ext # raw.id
    BY <1>3, <1>11, <1>12 DEF MapperMirrors, LinkMirror
  <2>2. CASE ~found
    BY <1>0, <1>11, <2>1, <2>2, LinkedIdsAreOld
  <2>3. CASE found
    <3>1. PICK m \in s.matches : m.id = match /\ NaturalKey(m) = key
      BY <1>9, <1>12, <2>3
    <3>2. m.season = s.season /\ m.matchday = raw.matchday /\ m.home = home /\ m.away = away
      BY <1>10, <3>1
    <3>3. SideLink(h, m.home) /\ SideLink(a, m.away)
      BY <1>4, <1>5, <3>2 DEF SideLink
    <3>4. l.match = m.id => l.ext = raw.id
      <4> HIDE DEF home, away
      <4> QED
        BY <1>0, <1>4, <1>5, <1>12, <3>2, <3>3, LinkOfFixture
    <3> QED
      BY <2>1, <3>1, <3>4
  <2> QED
    BY <2>2, <2>3
<1>13. KeysUnique(u, "matchLinks")
  <2>1. \A k, l \in s.matchLinks : k # l => Keys("matchLinks", k) \cap Keys("matchLinks", l) = {}
    BY <1>3, TableNames DEF KeysUnique
  <2>2. ~linked => \A l \in s.matchLinks : Keys("matchLinks", l) \cap Keys("matchLinks", newLink) = {}
    BY <1>7, <1>12 DEF Keys
  <2> QED
    BY <1>1, <2>1, <2>2 DEF KeysUnique
<1>14. KeysUnique(u, "matches") /\ SidesDistinct(u)
  <2>1. /\ \A m \in s.matches : m.home # m.away
        /\ \A m, n \in s.matches : m # n => NaturalKey(m) # NaturalKey(n)
    <3>1. \A m, n \in s.matches : m # n => Keys("matches", m) \cap Keys("matches", n) = {}
      BY <1>3, TableNames DEF KeysUnique
    <3>2. \A m : Keys("matches", m) = {NaturalKey(m)}
      BY DEF Keys
    <3>3. \A x, y : {x} \cap {y} = {} => x # y
      OBVIOUS
    <3> QED
      BY <1>3, <3>1, <3>2, <3>3 DEF SidesDistinct
  <2>2. \A m, n \in u.matches : m # n => NaturalKey(m) # NaturalKey(n)
    <3>1. CASE found
      BY <1>1, <1>8, <2>1, <3>1
    <3>2. CASE ~found
      <4>1. \A m \in s.matches : NaturalKey(m) # key
        BY <1>3, <1>11, <3>2 DEF MapperMirrors
      <4> QED
        BY <1>1, <1>7, <2>1, <3>2, <4>1
    <3> QED
      BY <3>1, <3>2
  <2>3. \A m \in u.matches : m.home # m.away
    BY <1>1, <1>6, <1>7, <1>8, <2>1
  <2>4. KeysUnique(u, "matches")
    <3>1. \A m : Keys("matches", m) = {NaturalKey(m)}
      BY DEF Keys
    <3>2. \A x, y : x # y => {x} \cap {y} = {}
      OBVIOUS
    <3> QED
      BY <2>2, <3>1, <3>2 DEF KeysUnique
  <2> QED
    BY <2>3, <2>4 DEF SidesDistinct
<1>15. MapperMirrors(u)
  <2>1. LinkMirror(u.matchLinks, u.matchByExt, LAMBDA l : l.match)
    <3>1. /\ DOMAIN u.matchByExt = DOMAIN s.matchByExt \cup {raw.id}
          /\ u.matchByExt[raw.id] = match
          /\ \A e \in DOMAIN s.matchByExt : e # raw.id => u.matchByExt[e] = s.matchByExt[e]
      BY <1>1 DEF Put
    <3>2. \A l \in s.matchLinks : l.source = FootballData => l.ext \in DOMAIN s.matchByExt
      BY <1>3 DEF MapperMirrors, LinkMirror
    <3>3. \A e \in DOMAIN s.matchByExt :
            \E l \in s.matchLinks : l.source = FootballData /\ l.ext = e /\ l.match = s.matchByExt[e]
      BY <1>3 DEF MapperMirrors, LinkMirror
    <3>4. \A l \in u.matchLinks : l.source = FootballData => l.ext \in DOMAIN u.matchByExt
      BY <1>1, <1>7, <3>1, <3>2
    <3>5. \A e \in DOMAIN u.matchByExt :
            \E l \in u.matchLinks : l.source = FootballData /\ l.ext = e /\ l.match = u.matchByExt[e]
      BY <1>1, <1>7, <1>11, <3>1, <3>3
    <3> QED
      BY <3>4, <3>5 DEF LinkMirror
  <2>4. ~found => /\ DOMAIN u.matchByKey = DOMAIN s.matchByKey \cup {key}
                  /\ u.matchByKey[key] = match
                  /\ \A k \in DOMAIN s.matchByKey : k # key => u.matchByKey[k] = s.matchByKey[k]
    <3> HIDE DEF key
    <3> QED
      BY <1>1 DEF Put
  <2>5. \A m \in s.matches : NaturalKey(m) \in DOMAIN s.matchByKey
    BY <1>3 DEF MapperMirrors
  <2>6. /\ found => u.matches = {Now(m) : m \in s.matches} /\ u.matchByKey = s.matchByKey
        /\ ~found => u.matches = s.matches \cup {new}
    BY <1>1
  <2> HIDE DEF key
  <2>2. \A m \in u.matches : NaturalKey(m) \in DOMAIN u.matchByKey
    BY <1>7, <1>8, <2>4, <2>5, <2>6
  <2>3. \A k \in DOMAIN u.matchByKey :
          \E m \in u.matches : m.id = u.matchByKey[k] /\ NaturalKey(m) = k
    <3>1. \A k \in DOMAIN s.matchByKey :
            \E m \in s.matches : m.id = s.matchByKey[k] /\ NaturalKey(m) = k
      BY <1>3 DEF MapperMirrors
    <3>2. CASE found
      BY <1>8, <2>6, <3>1, <3>2
    <3>3. CASE ~found
      BY <1>7, <2>4, <2>6, <3>1, <3>3
    <3> QED
      BY <3>2, <3>3
  <2> QED
    BY <1>2, <1>3, <2>1, <2>2, <2>3 DEF MapperMirrors
<1>16. LinksFit(Concat(d, u))
  <2>1. ASSUME ~linked
        PROVE  FixtureFits(Concat(d, u), newLink)
    <3>1. PICK m \in u.matches : m.id = match /\ NaturalKey(m) = key
      BY <1>1, <1>7, <1>8, <1>9, <2>1
    <3>2. PICK q \in u.seasons : q.id = s.season /\ q.year = job.year
      BY <1>2 DEF OneSeason, Placed, SessionRight, Dicts, MapperDicts, IdsOf
    <3>3. ReportedAs(raw.id, job.year, raw.matchday, raw.home.id, raw.away.id)
      BY DEF ReportedAs, OneIdPerFixture, Placed
    <3>4. m.season = s.season /\ m.matchday = raw.matchday /\ m.home = home /\ m.away = away
      BY <1>10, <3>1
    <3>5. SideLink(h, m.home) /\ SideLink(a, m.away) /\ h \in u.teamLinks /\ a \in u.teamLinks
      BY <1>2, <1>4, <1>5, <3>4 DEF SideLink
    <3>6. ReportedAs(newLink.ext, q.year, m.matchday, h.ext, a.ext)
      BY <1>4, <1>5, <1>7, <3>2, <3>3, <3>4
    <3>7. m.id = newLink.match /\ q.id = m.season
      BY <1>7, <3>1, <3>2, <3>4
    <3> QED
      BY <3>1, <3>2, <3>5, <3>6, <3>7, ConcatRows DEF FixtureFits
  <2>2. \A l \in u["matchLinks"] \ s["matchLinks"] : ~linked /\ l = newLink
    BY <1>1
  <2>3. u["teamLinks"] \ s["teamLinks"] = {}
    BY <1>2
  <2> QED
    BY <1>0, <1>3, <2>1, <2>2, <2>3, MovesKeepLinks
<1>17. LinksNamed(d, job, u)
  BY <1>2, <1>3 DEF LinksNamed
<1>18. \A t \in Tables : KeysUnique(u, t)
  BY <1>2, <1>3, <1>13, <1>14 DEF KeysUnique
<1> QED
  BY <1>14, <1>15, <1>16, <1>17, <1>18 DEF SessionClean, SessionSound, u


\* A lookup of a bootstrap leaves the links alone.
LEMMA BootstrapKeepsClean ==
  ASSUME NEW d, NEW job, job.kind = "bootstrap", NEW s, NEW u,
         SessionClean(d, job, s), RowsMoved(s, u), BootstrapMirrors(u),
         u["teamLinks"] = s["teamLinks"], u["matchLinks"] = s["matchLinks"],
         \A t \in Tables : u[t] = s[t] \/ KeysUnique(u, t),
         u["matches"] = s["matches"] \/ SidesDistinct(u)
  PROVE  SessionClean(d, job, u)
<1>1. \A t \in Tables : KeysUnique(u, t)
  BY DEF SessionClean, SessionSound, KeysUnique
<1>2. SidesDistinct(u)
  BY DEF SessionClean, SessionSound, SidesDistinct
<1>3. LinksFit(Concat(d, u))
  BY MovesKeepLinks DEF SessionClean
<1>4. LinksNamed(d, job, u)
  <2>1. s.teams \subseteq u.teams
    BY AlikeRows, TableNames DEF RowsMoved
  <2> QED
    BY <2>1 DEF LinksNamed, SessionClean
<1> QED
  BY <1>1, <1>2, <1>3, <1>4 DEF SessionClean, SessionSound

LEMMA BootstrapMoves ==
  ASSUME NEW d, NEW first, NEW job, job.kind = "bootstrap", NEW s, Placed(d, job, first, s),
         s.nextId + 1 <= first + IdsPerRun
  PROVE  /\ DOMAIN s = BootstrapFields /\ s.nextId \in Nat /\ BootstrapDicts(s)
         /\ s.nextId <= first + IdsPerRun /\ s.nextId < first + IdsPerRun
         /\ SessionRight(d, job, first, s) /\ first <= s.nextId /\ Reserved(d, first)
         /\ job \in Jobs
BY DEF Placed, Reserved, SessionRight, Dicts, BootstrapDicts, BootstrapFields

LEMMA WithSeasonClean ==
  ASSUME NEW d, NEW first, NEW job, job.kind = "bootstrap",
         NEW s, Placed(d, job, first, s), SessionClean(d, job, s),
         s.nextId + 1 <= first + IdsPerRun, NEW i \in DOMAIN job.rows
  PROVE  SessionClean(d, job, Bootstrap!WithSeason(s, job.rows, job.rows[i]))
<1> DEFINE r == job.rows[i]
           u == Bootstrap!WithSeason(s, job.rows, r)
           dates == Bootstrap!DatesOf(job.rows, r.year)
           start == Bootstrap!Lowest(dates)
           end   == Bootstrap!Highest(dates)
           known == r.year \in DOMAIN s.seasonByYear
           id == s.seasonByYear[r.year]
           Now(q) == IF q.id = id
                       THEN [id |-> q.id, year |-> q.year,
                             start |-> Bootstrap!Lowest({q.start, start}),
                             end |-> Bootstrap!Highest({q.end, end}), status |-> q.status]
                       ELSE q
           new == [id |-> s.nextId, year |-> r.year, start |-> start, end |-> end,
                   status |-> "finished"]
<1>0. /\ DOMAIN s = BootstrapFields /\ s.nextId \in Nat /\ BootstrapDicts(s)
      /\ RowsMoved(s, u)
  BY BootstrapMoves, WithSeasonRight DEF Looked
<1>1. /\ u.seasons = IF known THEN {Now(q) : q \in s.seasons} ELSE s.seasons \cup {new}
      /\ u.seasonByYear = IF known THEN s.seasonByYear ELSE Put(s.seasonByYear, r.year, s.nextId)
      /\ \A f \in BootstrapFields \ {"seasons", "nextId", "seasonByYear"} : u[f] = s[f]
  BY <1>0, TableNames DEF Bootstrap!WithSeason, BootstrapFields, Bootstrap!Put, Put
<1>2. /\ u.teamByName = s.teamByName /\ u.teams = s.teams /\ u.matches = s.matches
      /\ u.matchKeys = s.matchKeys /\ u.seasonTeamKeys = s.seasonTeamKeys
      /\ u.seasonTeams = s.seasonTeams
      /\ \A t \in Tables \ {"seasons"} : u[t] = s[t]
  BY <1>1, TableNames DEF BootstrapFields
<1>3. \A q \in s.seasons : Now(q).id = q.id /\ Now(q).year = q.year
  OBVIOUS
<1>4. new.id = s.nextId /\ new.year = r.year
  OBVIOUS
<1> HIDE DEF u, Now, new, r
<1>5. BootstrapMirrors(s) /\ KeysUnique(s, "seasons")
  BY TableNames DEF SessionClean, SessionSound
<1>6. BootstrapMirrors(u)
  <2>1. \A y \in DOMAIN s.seasonByYear : \E q \in s.seasons : q.id = s.seasonByYear[y] /\ q.year = y
    BY <1>5 DEF BootstrapMirrors
  <2>2. \A y \in DOMAIN u.seasonByYear : \E q \in u.seasons : q.id = u.seasonByYear[y] /\ q.year = y
    <3>1. CASE known
      BY <1>1, <1>3, <2>1, <3>1
    <3>2. CASE ~known
      <4>1. /\ DOMAIN u.seasonByYear = DOMAIN s.seasonByYear \cup {r.year}
            /\ u.seasonByYear[r.year] = s.nextId
            /\ \A y \in DOMAIN s.seasonByYear : y # r.year => u.seasonByYear[y] = s.seasonByYear[y]
        BY <1>1, <3>2 DEF Put
      <4>2. u.seasons = s.seasons \cup {new}
        BY <1>1, <3>2
      <4> QED
        BY <1>4, <2>1, <4>1, <4>2
    <3> QED
      BY <3>1, <3>2
  <2> QED
    BY <1>2, <1>5, <2>2 DEF BootstrapMirrors
<1>7. KeysUnique(u, "seasons")
  <2>1. \A q : Keys("seasons", q) = {<<q.year>>}
    BY DEF Keys
  <2>2. \A x, y : {<<x>>} \cap {<<y>>} = {} <=> x # y
    <3>1. \A x, y : {x} \cap {y} = {} <=> x # y
      OBVIOUS
    <3>2. \A x, y : <<x>> = <<y>> <=> x = y
      OBVIOUS
    <3> QED
      BY <3>1, <3>2
  <2>3. \A q, p \in s.seasons : q # p => q.year # p.year
    BY <1>5, <2>1, <2>2 DEF KeysUnique
  <2>4. \A q, p \in u.seasons : q # p => q.year # p.year
    <3>1. CASE known
      BY <1>1, <1>3, <2>3, <3>1
    <3>2. CASE ~known
      <4>1. \A q \in s.seasons : q.year # r.year
        BY <1>0, <3>2 DEF BootstrapDicts
      <4> QED
        BY <1>1, <1>4, <2>3, <3>2, <4>1
    <3> QED
      BY <3>1, <3>2
  <2> QED
    BY <2>1, <2>2, <2>4 DEF KeysUnique
<1>8. u["teamLinks"] = s["teamLinks"] /\ u["matchLinks"] = s["matchLinks"] /\ u["matches"] = s["matches"]
  BY <1>2, TableNames
<1>9. SessionClean(d, job, u)
  BY <1>0, <1>2, <1>6, <1>7, <1>8, BootstrapKeepsClean
<1> QED
  BY <1>9 DEF u, r

LEMMA WithTeamClean ==
  ASSUME NEW d, NEW first, NEW job, job.kind = "bootstrap",
         NEW s, Placed(d, job, first, s), SessionClean(d, job, s),
         s.nextId + 1 <= first + IdsPerRun, NEW name
  PROVE  LET u == Bootstrap!WithTeam(s, name) IN
         /\ SessionClean(d, job, u)
         /\ \A n \in DOMAIN s.teamByName : u.teamByName[n] = s.teamByName[n]
<1> DEFINE u == Bootstrap!WithTeam(s, name)
           new == [id |-> s.nextId, name |-> name]
<1>0. /\ DOMAIN s = BootstrapFields /\ s.nextId \in Nat /\ BootstrapDicts(s)
      /\ RowsMoved(s, u)
  BY BootstrapMoves, WithTeamRight DEF Looked
<1>1. CASE name \in DOMAIN s.teamByName
  <2>1. u = s
    BY <1>1 DEF Bootstrap!WithTeam
  <2> QED
    BY <2>1
<1>2. CASE name \notin DOMAIN s.teamByName
  <2>1. /\ u.teams = s.teams \cup {new}
        /\ u.teamByName = Put(s.teamByName, name, s.nextId)
        /\ \A f \in BootstrapFields \ {"teams", "nextId", "teamByName"} : u[f] = s[f]
    BY <1>0, <1>2, TableNames DEF Bootstrap!WithTeam, BootstrapFields, Bootstrap!Put, Put
  <2>2. /\ u.seasonByYear = s.seasonByYear /\ u.seasons = s.seasons /\ u.matches = s.matches
        /\ u.matchKeys = s.matchKeys /\ u.seasonTeamKeys = s.seasonTeamKeys
        /\ u.seasonTeams = s.seasonTeams
        /\ \A t \in Tables \ {"teams"} : u[t] = s[t]
    BY <2>1, TableNames DEF BootstrapFields
  <2>3. /\ DOMAIN u.teamByName = DOMAIN s.teamByName \cup {name}
        /\ u.teamByName[name] = s.nextId
        /\ \A n \in DOMAIN s.teamByName : n # name => u.teamByName[n] = s.teamByName[n]
    BY <2>1 DEF Put
  <2>4. new.id = s.nextId /\ new.name = name
    OBVIOUS
  <2> HIDE DEF u, new
  <2>5. BootstrapMirrors(u)
    <3>1. BootstrapMirrors(s)
      BY DEF SessionClean, SessionSound
    <3>2. \A n \in DOMAIN s.teamByName : \E t \in s.teams : t.id = s.teamByName[n] /\ t.name = n
      BY <3>1 DEF BootstrapMirrors
    <3>3. \A n \in DOMAIN u.teamByName : \E t \in u.teams : t.id = u.teamByName[n] /\ t.name = n
      BY <2>1, <2>3, <2>4, <3>2
    <3> QED
      BY <2>2, <3>1, <3>3 DEF BootstrapMirrors
  <2>6. KeysUnique(u, "teams")
    BY DEF KeysUnique, Keys
  <2>7. u["teamLinks"] = s["teamLinks"] /\ u["matchLinks"] = s["matchLinks"] /\ u["matches"] = s["matches"]
    BY <2>2, TableNames
  <2>8. SessionClean(d, job, u)
    BY <1>0, <2>2, <2>5, <2>6, <2>7, BootstrapKeepsClean DEF u
  <2> QED
    BY <1>2, <2>3, <2>8 DEF u
<1> QED
  BY <1>1, <1>2

LEMMA WithVenueClean ==
  ASSUME NEW d, NEW first, NEW job, job.kind = "bootstrap",
         NEW s, Placed(d, job, first, s), SessionClean(d, job, s),
         s.nextId + 1 <= first + IdsPerRun, NEW name
  PROVE  LET u == Bootstrap!WithVenue(s, name) IN
         SessionClean(d, job, u) /\ u.teamByName = s.teamByName
<1> DEFINE u == Bootstrap!WithVenue(s, name)
<1>0. /\ DOMAIN s = BootstrapFields /\ RowsMoved(s, u)
  BY BootstrapMoves, WithVenueRight DEF Looked
<1>1. \A f \in BootstrapFields \ {"venues", "nextId", "venueByName"} : u[f] = s[f]
  BY <1>0 DEF Bootstrap!WithVenue, BootstrapFields
<1> HIDE DEF u
<1>2. /\ u.seasonByYear = s.seasonByYear /\ u.seasons = s.seasons /\ u.matches = s.matches
      /\ u.teams = s.teams /\ u.teamByName = s.teamByName
      /\ u.matchKeys = s.matchKeys /\ u.seasonTeamKeys = s.seasonTeamKeys
      /\ u.seasonTeams = s.seasonTeams
      /\ \A t \in Tables \ {"venues"} : u[t] = s[t]
  BY <1>1, TableNames DEF BootstrapFields
<1>3. BootstrapMirrors(u)
  BY <1>2 DEF SessionClean, SessionSound, BootstrapMirrors
<1>4. KeysUnique(u, "venues")
  BY DEF KeysUnique, Keys
<1>5. u["teamLinks"] = s["teamLinks"] /\ u["matchLinks"] = s["matchLinks"] /\ u["matches"] = s["matches"]
  BY <1>2, TableNames
<1>6. SessionClean(d, job, u)
  BY <1>0, <1>2, <1>3, <1>4, <1>5, BootstrapKeepsClean
<1> QED
  BY <1>2, <1>6 DEF u

LEMMA WithParticipantClean ==
  ASSUME NEW d, NEW first, NEW job, job.kind = "bootstrap",
         NEW s, Placed(d, job, first, s), SessionClean(d, job, s),
         s.nextId + 1 <= first + IdsPerRun,
         NEW season \in IdsOf(s.seasons), NEW team \in IdsOf(s.teams)
  PROVE  SessionClean(d, job, Bootstrap!WithParticipant(s, season, team))
<1> DEFINE u == Bootstrap!WithParticipant(s, season, team)
           new == [id |-> s.nextId, season |-> season, team |-> team]
<1>0. DOMAIN s = BootstrapFields /\ RowsMoved(s, u)
  BY BootstrapMoves, WithParticipantRight DEF Looked
<1>1. CASE <<season, team>> \in s.seasonTeamKeys
  <2>1. u = s
    BY <1>1 DEF Bootstrap!WithParticipant
  <2> QED
    BY <2>1
<1>2. CASE <<season, team>> \notin s.seasonTeamKeys
  <2>1. /\ u.seasonTeams = s.seasonTeams \cup {new}
        /\ u.seasonTeamKeys = s.seasonTeamKeys \cup {<<season, team>>}
        /\ \A f \in BootstrapFields \ {"seasonTeams", "nextId", "seasonTeamKeys"} : u[f] = s[f]
    BY <1>0, <1>2, TableNames DEF Bootstrap!WithParticipant, BootstrapFields
  <2>2. /\ u.seasonByYear = s.seasonByYear /\ u.seasons = s.seasons /\ u.matches = s.matches
        /\ u.teams = s.teams /\ u.teamByName = s.teamByName /\ u.matchKeys = s.matchKeys
        /\ \A t \in Tables \ {"seasonTeams"} : u[t] = s[t]
    BY <2>1, TableNames DEF BootstrapFields
  <2>3. new.season = season /\ new.team = team
    OBVIOUS
  <2> HIDE DEF u, new
  <2>4. BootstrapMirrors(s) /\ KeysUnique(s, "seasonTeams")
    BY TableNames DEF SessionClean, SessionSound
  <2>5. BootstrapMirrors(u)
    <3>1. s.seasonTeamKeys = {<<p.season, p.team>> : p \in s.seasonTeams}
      BY <2>4 DEF BootstrapMirrors
    <3>2. u.seasonTeamKeys = {<<p.season, p.team>> : p \in u.seasonTeams}
      BY <2>1, <2>3, <3>1
    <3> QED
      BY <2>2, <2>4, <3>2 DEF BootstrapMirrors
  <2>6. KeysUnique(u, "seasonTeams")
    <3>1. \A p : Keys("seasonTeams", p) = {<<p.season, p.team>>}
      BY DEF Keys
    <3>2. \A x, y : {x} \cap {y} = {} <=> x # y
      OBVIOUS
    <3>3. \A p \in s.seasonTeams : <<p.season, p.team>> # <<season, team>>
      BY <1>2, <2>4 DEF BootstrapMirrors
    <3> QED
      BY <2>1, <2>3, <2>4, <3>1, <3>2, <3>3 DEF KeysUnique
  <2>7. u["teamLinks"] = s["teamLinks"] /\ u["matchLinks"] = s["matchLinks"] /\ u["matches"] = s["matches"]
    BY <2>2, TableNames
  <2>8. SessionClean(d, job, u)
    BY <1>0, <2>2, <2>5, <2>6, <2>7, BootstrapKeepsClean DEF u
  <2> QED
    BY <2>8 DEF u
<1> QED
  BY <1>1, <1>2

LEMMA WithMatchClean ==
  ASSUME NEW d, NEW first, NEW job, job.kind = "bootstrap",
         NEW s, Placed(d, job, first, s), SessionClean(d, job, s),
         s.nextId + 1 <= first + IdsPerRun,
         NEW r, r.venue \in DOMAIN s.venueByName, NEW season \in IdsOf(s.seasons),
         NEW home \in IdsOf(s.teams), NEW away \in IdsOf(s.teams), home # away
  PROVE  SessionClean(d, job, Bootstrap!WithMatch(s, r, season, home, away))
<1> DEFINE u == Bootstrap!WithMatch(s, r, season, home, away)
           key == <<season, r.matchday, home, away>>
           new == [id |-> s.nextId, season |-> season, matchday |-> r.matchday,
                   home |-> home, away |-> away, at |-> r.at, venue |-> s.venueByName[r.venue],
                   status |-> "finished", score |-> r.score]
<1>0. DOMAIN s = BootstrapFields /\ RowsMoved(s, u)
  BY BootstrapMoves, WithMatchRight DEF Looked
<1>1. CASE key \in s.matchKeys
  <2>1. u = s
    BY <1>1 DEF Bootstrap!WithMatch
  <2> QED
    BY <2>1
<1>2. CASE key \notin s.matchKeys
  <2>1. /\ u.matches = s.matches \cup {new}
        /\ u.matchKeys = s.matchKeys \cup {key}
        /\ \A f \in BootstrapFields \ {"matches", "nextId", "matchKeys"} : u[f] = s[f]
    BY <1>0, <1>2, TableNames DEF Bootstrap!WithMatch, BootstrapFields
  <2>2. /\ u.seasonByYear = s.seasonByYear /\ u.seasons = s.seasons
        /\ u.teams = s.teams /\ u.teamByName = s.teamByName
        /\ u.seasonTeams = s.seasonTeams /\ u.seasonTeamKeys = s.seasonTeamKeys
        /\ \A t \in Tables \ {"matches"} : u[t] = s[t]
    BY <2>1, TableNames DEF BootstrapFields
  <2>3. NaturalKey(new) = key /\ new.home = home /\ new.away = away
    BY DEF NaturalKey
  <2> HIDE DEF u, new, key
  <2>4. BootstrapMirrors(s) /\ KeysUnique(s, "matches") /\ SidesDistinct(s)
    BY TableNames DEF SessionClean, SessionSound
  <2>5. BootstrapMirrors(u)
    <3>1. s.matchKeys = {NaturalKey(m) : m \in s.matches}
      BY <2>4 DEF BootstrapMirrors
    <3>2. u.matchKeys = {NaturalKey(m) : m \in u.matches}
      BY <2>1, <2>3, <3>1
    <3> QED
      BY <2>2, <2>4, <3>2 DEF BootstrapMirrors
  <2>6. KeysUnique(u, "matches")
    <3>1. \A m : Keys("matches", m) = {NaturalKey(m)}
      BY DEF Keys
    <3>2. \A x, y : {x} \cap {y} = {} <=> x # y
      OBVIOUS
    <3>3. \A m \in s.matches : NaturalKey(m) # key
      BY <1>2, <2>4 DEF BootstrapMirrors
    <3> QED
      BY <2>1, <2>3, <2>4, <3>1, <3>2, <3>3 DEF KeysUnique
  <2>7. SidesDistinct(u)
    BY <2>1, <2>3, <2>4 DEF SidesDistinct
  <2>8. u["teamLinks"] = s["teamLinks"] /\ u["matchLinks"] = s["matchLinks"]
    BY <2>2, TableNames
  <2>9. SessionClean(d, job, u)
    BY <1>0, <2>2, <2>5, <2>6, <2>7, <2>8, BootstrapKeepsClean DEF u
  <2> QED
    BY <2>9 DEF u
<1> QED
  BY <1>1, <1>2


\* What the lookups leave is a session to look up in again.
LEMMA PlacedFurther ==
  ASSUME NEW d, NEW first, NEW job, NEW s, Placed(d, job, first, s),
         NEW u, NEW most \in Nat, Looked(d, job, first, s, u, most)
  PROVE  /\ Placed(d, job, first, u)
         /\ first \in Nat /\ IdsPerRun \in Nat /\ s.nextId \in Nat /\ u.nextId \in Nat
         /\ first <= s.nextId /\ u.nextId <= s.nextId + most
<1>1. /\ s.nextId \in Nat /\ u.nextId \in Nat /\ s.nextId <= u.nextId /\ first <= s.nextId
      /\ first \in Nat /\ IdsPerRun \in Nat /\ u.nextId <= s.nextId + most
  BY DEF Placed, Looked, RowsMoved, Reserved
<1>2. SessionRight(d, job, first, u)
  BY DEF Looked
<1>3. first <= u.nextId
  BY <1>1
<1> QED
  BY <1>1, <1>2, <1>3 DEF Placed

\* _import_row: two names are two clubs, so the match has two sides.
LEMMA ImportRowClean ==
  ASSUME SidesDiffer, NEW d, NEW first, NEW job, job.kind = "bootstrap",
         NEW s, Placed(d, job, first, s), SessionClean(d, job, s),
         s.nextId + 7 <= first + IdsPerRun, NEW i \in DOMAIN job.rows
  PROVE  SessionClean(d, job, Bootstrap!AfterRow(s, job.rows, job.rows[i]))
<1> DEFINE r == job.rows[i]
           a == Bootstrap!WithSeason(s, job.rows, r)
           b == Bootstrap!WithTeam(a, r.home)
           c == Bootstrap!WithTeam(b, r.away)
           t == Bootstrap!WithVenue(c, r.venue)
           season == t.seasonByYear[r.year]
           home == t.teamByName[r.home]
           away == t.teamByName[r.away]
           e == Bootstrap!WithParticipant(t, season, home)
           g == Bootstrap!WithParticipant(e, season, away)
           h == Bootstrap!WithMatch(g, r, season, home, away)
<1>0. /\ first \in Nat /\ IdsPerRun \in Nat /\ s.nextId \in Nat /\ first <= s.nextId
      /\ job \in Jobs /\ Reserved(d, first) /\ SessionRight(d, job, first, s)
      /\ s.nextId + 1 <= first + IdsPerRun
  BY DEF Placed, Reserved, SessionRight
<1> DEFINE Near(x, most) == /\ Placed(d, job, first, x) /\ SessionRight(d, job, first, x)
                            /\ SessionClean(d, job, x)
                            /\ x.nextId \in Nat /\ first <= x.nextId
                            /\ x.nextId <= s.nextId + most
<1>2. ASSUME NEW x, NEW m \in Nat, Near(x, m), NEW y, Looked(d, job, first, x, y, 1),
             SessionClean(d, job, y)
      PROVE  Near(y, m + 1)
  <2>1. /\ Placed(d, job, first, y) /\ x.nextId \in Nat /\ y.nextId \in Nat
        /\ y.nextId <= x.nextId + 1
    BY <1>2, PlacedFurther
  <2>2. y.nextId <= s.nextId + (m + 1)
    BY <1>0, <1>2, <2>1
  <2> QED
    BY <1>2, <2>1, <2>2 DEF Placed
<1>3. ASSUME NEW x, NEW m \in Nat, Near(x, m), m <= 6
      PROVE  x.nextId + 1 <= first + IdsPerRun
  BY <1>0, <1>3
<1>4. Looked(d, job, first, s, a, 1) /\ r.year \in DOMAIN a.seasonByYear
  BY <1>0, WithSeasonRight
<1>5. SessionClean(d, job, a)
  BY <1>0, WithSeasonClean
<1>6. Near(s, 0)
  BY <1>0
<1>7. Near(a, 1)
  BY <1>2, <1>4, <1>5, <1>6
<1> HIDE DEF Near
<1>8. \A x, m : Near(x, m) => /\ Placed(d, job, first, x) /\ SessionRight(d, job, first, x)
                              /\ SessionClean(d, job, x) /\ first <= x.nextId
  BY DEF Near
<1> HIDE DEF a, r
<1>9. Near(b, 2) /\ LookupsGrow(a, b) /\ r.home \in DOMAIN b.teamByName
      /\ \A n \in DOMAIN a.teamByName : b.teamByName[n] = a.teamByName[n]
  <2>1. a.nextId + 1 <= first + IdsPerRun
    BY <1>3, <1>7
  <2>2. Looked(d, job, first, a, b, 1) /\ LookupsGrow(a, b) /\ r.home \in DOMAIN b.teamByName
    BY <1>0, <1>7, <1>8, <2>1, WithTeamRight
  <2>3. SessionClean(d, job, b) /\ \A n \in DOMAIN a.teamByName : b.teamByName[n] = a.teamByName[n]
    BY <1>7, <1>8, <2>1, WithTeamClean
  <2>4. Near(b, 1 + 1)
    BY <1>2, <1>7, <2>2, <2>3
  <2> QED
    BY <2>2, <2>3, <2>4
<1> HIDE DEF b
<1>10. Near(c, 3) /\ LookupsGrow(b, c) /\ r.away \in DOMAIN c.teamByName
  <2>1. b.nextId + 1 <= first + IdsPerRun
    BY <1>3, <1>9
  <2>2. Looked(d, job, first, b, c, 1) /\ LookupsGrow(b, c) /\ r.away \in DOMAIN c.teamByName
    BY <1>0, <1>8, <1>9, <2>1, WithTeamRight
  <2>3. SessionClean(d, job, c)
    BY <1>8, <1>9, <2>1, WithTeamClean
  <2>4. Near(c, 2 + 1)
    BY <1>2, <1>9, <2>2, <2>3
  <2> QED
    BY <2>2, <2>4
<1> HIDE DEF c
<1>11. Near(t, 4) /\ LookupsGrow(c, t) /\ r.venue \in DOMAIN t.venueByName
  <2>1. c.nextId + 1 <= first + IdsPerRun
    BY <1>3, <1>10
  <2>2. Looked(d, job, first, c, t, 1) /\ LookupsGrow(c, t) /\ r.venue \in DOMAIN t.venueByName
    BY <1>0, <1>8, <1>10, <2>1, WithVenueRight
  <2>3. SessionClean(d, job, t)
    BY <1>8, <1>10, <2>1, WithVenueClean
  <2>4. Near(t, 3 + 1)
    BY <1>2, <1>10, <2>2, <2>3
  <2> QED
    BY <2>2, <2>4
<1> HIDE DEF t
<1>12. /\ r.year \in DOMAIN t.seasonByYear
       /\ r.home \in DOMAIN t.teamByName /\ r.away \in DOMAIN t.teamByName
  BY <1>4, <1>9, <1>10, <1>11 DEF LookupsGrow
<1>13. season \in IdsOf(t.seasons) /\ home \in IdsOf(t.teams) /\ away \in IdsOf(t.teams)
  <2>1. BootstrapDicts(t)
    BY <1>8, <1>11 DEF SessionRight, Dicts
  <2> QED
    BY <1>12, <2>1 DEF BootstrapDicts
<1>14. home # away
  <2>1. r.home # r.away
    BY <1>0 DEF SidesDiffer, r
  <2>2. BootstrapMirrors(t)
    BY <1>8, <1>11 DEF SessionClean, SessionSound
  <2>3. PICK x \in t.teams : x.id = home /\ x.name = r.home
    BY <1>12, <2>2 DEF BootstrapMirrors
  <2>4. PICK y \in t.teams : y.id = away /\ y.name = r.away
    BY <1>12, <2>2 DEF BootstrapMirrors
  <2>5. UniqueOn(t["teams"], LAMBDA q : q.id)
    BY <1>8, <1>11, TableNames DEF SessionRight, RowsRight
  <2> QED
    BY <2>1, <2>3, <2>4, <2>5 DEF UniqueOn
<1> HIDE DEF season, home, away
<1>15. /\ Near(e, 5) /\ e.seasons = t.seasons /\ e.teams = t.teams
       /\ e.venueByName = t.venueByName
  <2>1. t.nextId + 1 <= first + IdsPerRun
    BY <1>3, <1>11
  <2>2. /\ Looked(d, job, first, t, e, 1) /\ e.seasons = t.seasons /\ e.teams = t.teams
        /\ e.venueByName = t.venueByName
    BY <1>0, <1>8, <1>11, <1>13, <2>1, WithParticipantRight
  <2>3. SessionClean(d, job, e)
    BY <1>8, <1>11, <1>13, <2>1, WithParticipantClean
  <2>4. Near(e, 4 + 1)
    BY <1>2, <1>11, <2>2, <2>3
  <2> QED
    BY <2>2, <2>4
<1> HIDE DEF e
<1>16. /\ Near(g, 6) /\ g.seasons = t.seasons /\ g.teams = t.teams
       /\ g.venueByName = t.venueByName
  <2>1. e.nextId + 1 <= first + IdsPerRun
    BY <1>3, <1>15
  <2>2. /\ Looked(d, job, first, e, g, 1) /\ g.seasons = e.seasons /\ g.teams = e.teams
        /\ g.venueByName = e.venueByName
    BY <1>0, <1>8, <1>13, <1>15, <2>1, WithParticipantRight
  <2>3. SessionClean(d, job, g)
    BY <1>8, <1>13, <1>15, <2>1, WithParticipantClean
  <2>4. Near(g, 5 + 1)
    BY <1>2, <1>15, <2>2, <2>3
  <2> QED
    BY <1>15, <2>2, <2>4
<1> HIDE DEF g
<1>17. SessionClean(d, job, h)
  <2>1. g.nextId + 1 <= first + IdsPerRun
    BY <1>3, <1>16
  <2> QED
    BY <1>8, <1>11, <1>13, <1>14, <1>16, <2>1, WithMatchClean
<1>18. h = Bootstrap!AfterRow(s, job.rows, r)
  BY DEF Bootstrap!AfterRow, a, b, c, t, e, g, season, home, away
<1> QED
  BY <1>17, <1>18 DEF r

\* One turn: rows that get past the indexes and links that fit, after any lookup.
LEMMA AfterClean ==
  ASSUME OneIdPerClub, OneIdPerFixture, SidesDiffer,
         NEW d, NEW first, NEW job, NEW s, Placed(d, job, first, s), SessionClean(d, job, s),
         job.kind = "mapper" => OneSeason(job, s["seasons"]),
         s.nextId + 10 <= first + IdsPerRun, NEW j \in DOMAIN job.rows,
         NEW i \in 1..Lookups(job.kind), Found(job, s, job.rows[j], i)
  PROVE  SessionClean(d, job, After(job, s, job.rows[j], i))
<1> DEFINE raw == job.rows[j]
           u == After(job, s, raw, i)
<1>0. /\ first \in Nat /\ IdsPerRun \in Nat /\ s.nextId \in Nat /\ job \in Jobs
      /\ job.kind \in {"mapper", "bootstrap"}
  BY JobsAre DEF Placed, Reserved, SessionRight
<1>1. /\ s.nextId + 7 <= first + IdsPerRun /\ s.nextId + 2 <= first + IdsPerRun
      /\ s.nextId + 1 <= first + IdsPerRun
  BY <1>0
<1>4. CASE job.kind = "mapper"
  <2>0. raw.home \in Sides(job) /\ raw.away \in Sides(job)
    BY DEF Sides
  <2>1. CASE i = 1
    <3>1. u = Mapper!ResolveTeam(s, raw.home)
      BY <1>4, <2>1 DEF After
    <3> QED
      BY <1>1, <1>4, <2>0, <3>1, ResolveTeamClean
  <2>2. CASE i = 2
    <3>1. u = Mapper!ResolveTeam(s, raw.away)
      BY <1>4, <2>2 DEF After
    <3> QED
      BY <1>1, <1>4, <2>0, <3>1, ResolveTeamClean
  <2>3. CASE i = 3
    <3>1. u = Mapper!ResolveVenue(s, raw.venue)
      BY <1>4, <2>3 DEF After
    <3> QED
      BY <1>1, <1>4, <3>1, ResolveVenueClean
  <2>4. CASE i = 4
    <3>1. u = Mapper!UpsertMatch(s, raw)
      BY <1>4, <2>4 DEF After
    <3>2. OneSeason(job, s.seasons)
      BY <1>4
    <3>3. /\ raw.home.id \in DOMAIN s.teamByExt /\ raw.away.id \in DOMAIN s.teamByExt
          /\ Mapper!Venueless(raw.venue) \/ Cleaned[raw.venue] \in DOMAIN s.venueByName
      BY <1>4, <2>4 DEF Found
    <3> QED
      BY <1>1, <1>4, <3>1, <3>2, <3>3, UpsertMatchClean
  <2> QED
    BY <1>4, <2>1, <2>2, <2>3, <2>4 DEF Lookups
<1>5. CASE job.kind = "bootstrap"
  <2>0. job.kind # "mapper" /\ Lookups(job.kind) = 5
    BY <1>5 DEF Lookups
  <2>1. CASE i = 1
    BY <1>1, <1>5, <2>0, <2>1, WithSeasonClean DEF After
  <2>2. CASE i = 2
    BY <1>1, <1>5, <2>0, <2>2, WithTeamClean DEF After
  <2>3. CASE i = 3
    BY <1>1, <1>5, <2>0, <2>3, WithTeamClean DEF After
  <2>4. CASE i = 4
    BY <1>1, <1>5, <2>0, <2>4, WithVenueClean DEF After
  <2>5. CASE i = 5
    <3>1. u = Bootstrap!AfterRow(s, job.rows, raw)
      BY <1>5, <2>5 DEF After
    <3> QED
      BY <1>1, <1>5, <3>1, ImportRowClean
  <2> QED
    BY <2>0, <2>1, <2>2, <2>3, <2>4, <2>5
<1> QED
  BY <1>0, <1>4, <1>5

\* A flush inserts nothing that an earlier one has inserted.
LEMMA FreshInserts ==
  ASSUME NEW d, NEW r, StatementsRight(d, r), NEW old, NEW new,
         \A t \in Tables : IdsOf(r.flushed[t]) \subseteq IdsOf(old[t])
  PROVE  \A st \in Statements(old, new) : st.insert => st \notin SentOf(r)
<1> DEFINE Inserts(t) == {[table |-> t, insert |-> TRUE, id |-> x.id, columns |-> x] :
                            x \in {x \in new[t] : x.id \notin IdsOf(old[t])}}
           Updates(t) == {[table |-> t, insert |-> FALSE, id |-> x.id,
                           columns |-> Changed(RowOf(old[t], x.id), x)] :
                            x \in {x \in new[t] \ old[t] : x.id \in IdsOf(old[t])}}
<1>1. Statements(old, new) = (UNION {Inserts(t) : t \in Tables}) \cup (UNION {Updates(t) : t \in Tables})
  BY DEF Statements
<1>2. \A t : /\ \A st \in Inserts(t) : st.insert /\ st.table = t /\ st.id \notin IdsOf(old[t])
             /\ \A st \in Updates(t) : ~st.insert
  OBVIOUS
<1> HIDE DEF Inserts, Updates
<1>3. ASSUME NEW st \in Statements(old, new), st.insert
      PROVE  st \notin SentOf(r)
  <2>1. st \in (UNION {Inserts(t) : t \in Tables}) \/ st \in (UNION {Updates(t) : t \in Tables})
    BY <1>1, Zenon
  <2>2. PICK t \in Tables : st \in Inserts(t)
    BY <1>2, <1>3, <2>1
  <2>3. st.table = t /\ st.id \notin IdsOf(old[t])
    BY <1>2, <2>2
  <2>4. SUFFICES ASSUME st \in SentOf(r) PROVE FALSE
    OBVIOUS
  <2>5. InsertRight(d, r, st)
    BY <1>3, <2>4 DEF StatementsRight, AllOf
  <2>6. st.id \in IdsOf(r.flushed[t])
    BY <2>3, <2>5 DEF InsertRight, Alike, IdsOf
  <2> QED
    BY <2>3, <2>6
<1> QED
  BY <1>3

\* A SELECT brings the committed rows of a table into the session.
LEMMA ReadClean ==
  ASSUME IsHistory(fate), DbRight(db, fate), DOMAIN run = Workers, NEW w \in Workers,
         RunRight(db, fate, overlaps, run[w]), CleanRun(db, fate, overlaps, run[w]), Read(w)
  PROVE  CleanRun(db, fate, overlaps, run'[w])
<1> DEFINE r     == run[w]
           table == Plan(r.job.kind)[r.step]
           seen  == IF table = "season"
                      THEN [EmptyDB EXCEPT !.seasons = SeasonsOf(r.job.year)]
                      ELSE Selected(w, table)
           known == [t \in Tables |-> Learn(r.session[t], seen[t])]
           first == table = "season" /\ r.job.kind = "mapper"
           after == IF first
                      THEN [known EXCEPT !.seasons = {Mapper!SeasonAfter(r.job, FirstId(r.no))}]
                      ELSE known
           more  == r.step < Len(Plan(r.job.kind))
           q     == run'[w]
<1>1. /\ r.pc = "reading" /\ r.queue = {} /\ r.job \in Jobs /\ r.job.kind \in {"mapper", "bootstrap"}
      /\ r.step \in Nat /\ 1 <= r.step /\ r.step <= Len(Plan(r.job.kind)) /\ r.row = 1
      /\ DOMAIN r = {"pc", "no", "job", "step", "row", "session", "flushed", "queue", "sent"}
  BY JobsAre DEF Read, RunRight, Standing, InLoopPhase
<1>2. /\ q.session = after /\ q.queue = Statements(known, after)
      /\ q.step = (IF more THEN r.step + 1 ELSE 1)
      /\ q.pc = (IF more THEN "reading" ELSE "read")
      /\ q.no = r.no /\ q.job = r.job /\ q.sent = r.sent
  BY <1>1 DEF Read
<1>3. /\ OwnIds(r) = First(r)..(Base(r) - 1) /\ ~InLoopPhase(q) /\ ~InLoopPhase(r)
      /\ r.job.kind = "bootstrap" => Base(r) = First(r)
  <2>1. Standing(r, fate) /\ WithinIds(r)
    BY DEF RunRight
  <2>2. First(r) \in Nat
    BY <2>1, OwnIdsAreOwn
  <2>3. ~InLoopPhase(r)
    BY <1>1 DEF InLoopPhase
  <2>4. ~InLoopPhase(q)
    BY <1>2 DEF InLoopPhase
  <2>5. OwnIds(r) = First(r)..(Base(r) - 1)
    BY <2>3 DEF OwnIds, NextOf
  <2>6. r.job.kind = "bootstrap" => Base(r) = First(r)
    BY <2>2 DEF Base
  <2> QED
    BY <2>3, <2>4, <2>5, <2>6
<1>4. /\ ReadSoFar(db, r) /\ StatementsRight(db, r)
      /\ \A t \in Tables : r.flushed[t] = r.session[t]
      /\ RowsClean(r) /\ (Undisturbed(fate, overlaps, r.no) => Complete(db, r))
  BY <1>1, <1>3 DEF RunRight, Working, FlushRight, CleanRun
<1>5. First(r) \in Nat
  <2>1. Standing(r, fate) /\ WithinIds(r)
    BY DEF RunRight
  <2> QED
    BY <2>1, OwnIdsAreOwn
<1>6. \A t \in Tables : \A x \in r.session[t] :
        t # "seasons" \/ r.job.kind = "bootstrap" => \E c \in db[t] : Alike(t, c, x)
  <2> TAKE t \in Tables
  <2> TAKE x \in r.session[t]
  <2>1. x.id \in OwnIds(r) \/ \E c \in db[t] : Alike(t, c, x)
    BY <1>3, <1>4 DEF ReadSoFar, RowsRight
  <2>2. t # "seasons" => x.id \notin OwnIds(r)
    BY <1>4 DEF ReadSoFar
  <2>3. r.job.kind = "bootstrap" => OwnIds(r) = {}
    BY <1>3, <1>5
  <2> QED
    BY <2>1, <2>2, <2>3
<1>7. /\ r.job.kind = "mapper" => table \in {"season", "teamLinks", "teams", "venues", "matchLinks",
                                             "matches"}
      /\ r.job.kind = "bootstrap" => table \in {"seasons", "teams", "venues", "matches",
                                                "seasonTeams"}
  <2>3. r.step \in Nat /\ 1 <= r.step /\ r.step <= Len(Plan(r.job.kind))
    BY <1>1
  <2>1. CASE r.job.kind = "mapper"
    <3>2. Len(Plan(r.job.kind)) = 6
      BY <2>1, Plans
    <3> HIDE DEF r
    <3>1. r.step \in 1..6
      BY <2>3, <3>2
    <3> QED
      BY <2>1, <3>1, Plans
  <2>2. CASE r.job.kind = "bootstrap"
    <3>2. Len(Plan(r.job.kind)) = 5
      BY <2>2, Plans
    <3> HIDE DEF r
    <3>1. r.step \in 1..5
      BY <2>3, <3>2
    <3> QED
      BY <2>2, <3>1, Plans
  <2> QED
    BY <1>1, <2>1, <2>2
<1>8. /\ first <=> r.step = 1 /\ r.job.kind = "mapper"
      /\ table = "season" <=> first
  BY <1>1, Plans
<1>9. /\ \A t \in Tables : seen[t] \subseteq db[t]
      /\ table # "season" => seen[table] = db[table]
      /\ first => \A t \in Tables : seen[t] = IF t = "seasons" THEN SeasonsOf(r.job.year) ELSE {}
      /\ r.job.kind = "bootstrap" => seen["teamLinks"] = {} /\ seen["matchLinks"] = {}
      /\ r.job.kind = "mapper" => seen["seasonTeams"] = {} /\ (~first => seen["seasons"] = {})
  <2>1. CASE table = "season"
    <3>1. seen = [EmptyDB EXCEPT !.seasons = SeasonsOf(r.job.year)]
      BY <2>1
    <3>2. \A t \in Tables : seen[t] = IF t = "seasons" THEN SeasonsOf(r.job.year) ELSE {}
      BY <3>1, TableNames DEF EmptyDB
    <3> HIDE DEF seen
    <3>3. SeasonsOf(r.job.year) \subseteq db["seasons"]
      BY DEF SeasonsOf
    <3> QED
      BY <1>8, <2>1, <3>2, <3>3, TableNames
  <2>2. CASE table = "matchLinks"
    <3>1. PICK found : found \subseteq db["matches"]
                       /\ seen = [EmptyDB EXCEPT !.matchLinks = db.matchLinks, !.matches = found]
      BY <2>2 DEF Selected
    <3>2. \A t \in Tables : seen[t] = CASE t = "matchLinks" -> db[t] [] t = "matches" -> found [] OTHER -> {}
      BY <3>1, TableNames DEF EmptyDB
    <3> HIDE DEF seen
    <3> QED
      BY <1>7, <1>8, <2>2, <3>1, <3>2, TableNames
  <2>3. CASE table \notin {"season", "matchLinks"}
    <3>1. table \in Tables
      BY <1>1, <1>7, <2>3, TableNames
    <3>2. seen = [EmptyDB EXCEPT ![table] = db[table]]
      BY <2>3 DEF Selected
    <3>3. \A t \in Tables : seen[t] = IF t = table THEN db[t] ELSE {}
      BY <3>1, <3>2, TableNames DEF EmptyDB
    <3> HIDE DEF seen
    <3> QED
      BY <1>1, <1>7, <1>8, <2>3, <3>1, <3>3, TableNames
  <2> QED
    BY <2>1, <2>2, <2>3
<1> HIDE DEF seen
<1>10. DOMAIN known = Tables /\ \A t \in Tables : known[t] = Learn(r.session[t], seen[t])
  OBVIOUS
<1> HIDE DEF known
<1>11. \A t \in Tables : /\ r.session[t] \subseteq known[t]
                         /\ known[t] \subseteq r.session[t] \cup db[t]
                         /\ \A x \in seen[t] : x.id \in IdsOf(known[t])
  BY <1>4, <1>9, <1>10, LearnedRows DEF ReadSoFar
<1> DEFINE n == Mapper!SeasonAfter(r.job, FirstId(r.no))
<1>13. DOMAIN after = Tables
       /\ \A t \in Tables : after[t] = IF first /\ t = "seasons" THEN {n} ELSE known[t]
  BY <1>10, TableNames
<1>14. ASSUME first
       PROVE  n.year = r.job.year /\ \A s \in SeasonsOf(r.job.year) : Alike("seasons", s, n)
  <2>4. /\ n.year = r.job.year
        /\ \/ \E s \in SeasonsOf(r.job.year) : Alike("seasons", s, n)
           \/ SeasonsOf(r.job.year) = {}
    BY <1>1, SeasonRight
  <2>5. \A s, x \in SeasonsOf(r.job.year) : s = x
    BY DEF SeasonsOf, DbRight, SchemaHolds, SeasonsUnique, UniqueOn
  <2> QED
    BY <2>4, <2>5
<1> HIDE DEF n, after
<1>15. RowsClean(q)
  <2>1. ASSUME q.job.kind = "mapper"
        PROVE  OneSeason(q.job, q.session["seasons"])
    <3>1. CASE first
      BY <1>2, <1>13, <1>14, <3>1, TableNames DEF OneSeason
    <3>2. CASE ~first
      <4>1. OneSeason(r.job, r.session["seasons"])
        BY <1>1, <1>2, <1>4, <1>8, <2>1, <3>2 DEF RowsClean
      <4>2. after["seasons"] = r.session["seasons"]
        <5>1. seen["seasons"] = {}
          BY <1>2, <1>9, <2>1, <3>2
        <5>2. after["seasons"] = Learn(r.session["seasons"], seen["seasons"])
          BY <1>10, <1>13, <3>2, TableNames
        <5> QED
          BY <5>1, <5>2 DEF Learn
      <4> QED
        BY <1>2, <4>1, <4>2
    <3> QED
      BY <3>1, <3>2
  <2>2. ASSUME NEW t \in Untouched(q.job.kind)
        PROVE  q.session[t] = {}
    <3>1. t \in Tables /\ t # "seasons" /\ seen[t] = {}
      BY <1>1, <1>2, <1>9, <2>2, TableNames DEF Untouched
    <3>2. r.session[t] = {}
      BY <1>2, <1>4, <2>2 DEF RowsClean
    <3> QED
      BY <1>2, <1>10, <1>13, <3>1, <3>2 DEF Learn
  <2> QED
    BY <2>1, <2>2 DEF RowsClean
<1>16. \A st \in q.queue : st.insert => st \notin SentOf(q)
  <2>1. \A t \in Tables : IdsOf(r.flushed[t]) \subseteq IdsOf(known[t])
    BY <1>4, <1>11 DEF IdsOf
  <2>2. SentOf(q) = SentOf(r)
    BY <1>2 DEF SentOf
  <2> QED
    BY <1>2, <1>4, <2>1, <2>2, FreshInserts
<1>17. ASSUME Undisturbed(fate, overlaps, q.no)
       PROVE  Complete(db, q)
  <2>0. Complete(db, r)
    BY <1>2, <1>4, <1>17
  <2>1. ASSUME NEW t \in Tables, NEW x \in db[t], t \in Selects(q.job.kind), HasRead(q, t)
        PROVE  \E y \in q.session[t] : Alike(t, x, y)
    <3>1. q.session[t] = known[t] /\ (t # "seasons" \/ r.job.kind = "bootstrap")
      BY <1>1, <1>2, <1>8, <1>13, <2>1 DEF Selects
    <3>2. HasRead(r, t) \/ table = t
      <4>1. CASE more
        <5>1. PICK i \in 1..(q.step - 1) : Plan(r.job.kind)[i] = t
          BY <1>2, <2>1, <4>1 DEF HasRead
        <5>2. i \in 1..(r.step - 1) \/ i = r.step
          BY <1>1, <1>2, <4>1, <5>1
        <5> QED
          BY <5>1, <5>2 DEF HasRead
      <4>2. CASE ~more
        <5>0. r.step = Len(Plan(r.job.kind))
          BY <1>1, <4>2, Plans
        <5>1. CASE r.job.kind = "mapper"
          <6>1. r.step = 6
            BY <5>0, <5>1, Plans
          <6>2. /\ 2 \in 1..(r.step - 1) /\ 3 \in 1..(r.step - 1) /\ 4 \in 1..(r.step - 1)
                /\ 5 \in 1..(r.step - 1)
            BY <6>1
          <6> QED
            BY <1>2, <2>1, <5>1, <6>1, <6>2, Plans DEF HasRead, Selects
        <5>2. CASE r.job.kind = "bootstrap"
          <6>1. r.step = 5
            BY <5>0, <5>2, Plans
          <6>2. /\ 2 \in 1..(r.step - 1) /\ 3 \in 1..(r.step - 1) /\ 4 \in 1..(r.step - 1)
                /\ 1 \in 1..(r.step - 1)
            BY <6>1
          <6> QED
            BY <1>2, <2>1, <5>2, <6>1, <6>2, Plans DEF HasRead, Selects
        <5> QED
          BY <1>1, <5>1, <5>2
      <4> QED
        BY <4>1, <4>2
    <3>3. CASE HasRead(r, t)
      BY <1>2, <1>11, <2>0, <2>1, <3>1, <3>3 DEF Complete
    <3>4. CASE table = t
      <4>1. t # "season"
        BY <2>1, <1>1, <1>2 DEF Selects
      <4>2. PICK y \in known[t] : y.id = x.id
        BY <1>9, <1>11, <3>4, <4>1 DEF IdsOf
      <4>3. \E c \in db[t] : Alike(t, c, y)
        BY <1>6, <1>11, <3>1, <4>2, AlikeItself
      <4>4. UniqueOn(db[t], LAMBDA z : z.id)
        BY DEF DbRight
      <4>5. Alike(t, x, y)
        BY <4>2, <4>3, <4>4 DEF UniqueOn, Alike
      <4> QED
        BY <3>1, <4>2, <4>5
    <3> QED
      BY <3>2, <3>3, <3>4
  <2>2. ASSUME NEW x \in db["seasons"], q.job.kind = "mapper", x.year = q.job.year
        PROVE  \E y \in q.session["seasons"] : Alike("seasons", x, y)
    <3>1. CASE first
      BY <1>2, <1>13, <1>14, <2>2, <3>1, TableNames DEF SeasonsOf
    <3>2. CASE ~first
      <4>1. \E y \in r.session["seasons"] : Alike("seasons", x, y)
        BY <1>1, <1>2, <1>8, <2>0, <2>2, <3>2, TableNames DEF Complete
      <4> QED
        BY <1>2, <1>11, <1>13, <3>2, <4>1, TableNames
    <3> QED
      BY <3>1, <3>2
  <2> QED
    BY <2>1, <2>2 DEF Complete
<1> QED
  BY <1>3, <1>15, <1>16, <1>17 DEF CleanRun

\* The dictionaries a session opens with are made of its rows.
LEMMA MapperOpensClean ==
  ASSUME NEW e, DOMAIN e = Tables, NEW top, DOMAIN top = {"open", "nextId", "season"},
         NEW f \in Mapper!Dictionaries(e)
  PROVE  MapperMirrors(Joined(top, Joined(f, e)))
<1> DEFINE g == Joined(f, e)
           s == Joined(top, g)
<1>1. PICK teamByExt \in Mapper!LinkedTeams(Mapper!OfSource(e.teamLinks)),
           teamByName \in Mapper!FoldedTeams(e.teams),
           venueByName \in Mapper!NamedVenues(e.venues),
           matchByExt \in Mapper!LinkedMatches(Mapper!OfSource(e.matchLinks)),
           matchByKey \in Mapper!KeyedMatches(e.matches) :
        f = [teamByExt |-> teamByExt, teamByName |-> teamByName, venueByName |-> venueByName,
             matchByExt |-> matchByExt, matchByKey |-> matchByKey]
  BY DEF Mapper!Dictionaries
<1>2. DOMAIN f = {"teamByExt", "teamByName", "venueByName", "matchByExt", "matchByKey"}
  BY <1>1
<1>3. /\ DOMAIN g = DOMAIN f \cup Tables
      /\ \A k \in DOMAIN f : g[k] = f[k]
      /\ \A t \in Tables : g[t] = e[t]
  BY <1>2, TableNames DEF Joined
<1> HIDE DEF g
<1>4. /\ DOMAIN s = DOMAIN top \cup DOMAIN g
      /\ \A k \in DOMAIN top : s[k] = top[k]
      /\ \A k \in DOMAIN g : k \notin DOMAIN top => s[k] = g[k]
  BY DEF Joined
<1> HIDE DEF s
<1>5. /\ \A t \in Tables : s[t] = e[t]
      /\ s.teamByExt = teamByExt /\ s.teamByName = teamByName
      /\ s.matchByExt = matchByExt /\ s.matchByKey = matchByKey
  BY <1>1, <1>2, <1>3, <1>4, TableNames
<1>6. /\ s.teamLinks = e.teamLinks /\ s.teams = e.teams
      /\ s.matchLinks = e.matchLinks /\ s.matches = e.matches
  BY <1>5, TableNames
<1>7. LinkMirror(s.teamLinks, s.teamByExt, LAMBDA l : l.team)
  <2>1. /\ DOMAIN teamByExt = {l.ext : l \in Mapper!OfSource(e.teamLinks)}
        /\ \A x \in DOMAIN teamByExt :
             \E l \in Mapper!OfSource(e.teamLinks) : l.ext = x /\ l.team = teamByExt[x]
    BY DEF Mapper!LinkedTeams, Mapper!DictOf
  <2>2. \A l \in e.teamLinks : l.source = FootballData => l.ext \in DOMAIN teamByExt
    BY <2>1 DEF Mapper!OfSource, Mapper!FootballData, FootballData
  <2>3. \A x \in DOMAIN teamByExt :
          \E l \in e.teamLinks : l.source = FootballData /\ l.ext = x /\ l.team = teamByExt[x]
    BY <2>1 DEF Mapper!OfSource, Mapper!FootballData, FootballData
  <2> QED
    BY <1>5, <1>6, <2>2, <2>3 DEF LinkMirror
<1>8. LinkMirror(s.matchLinks, s.matchByExt, LAMBDA l : l.match)
  <2>1. /\ DOMAIN matchByExt = {l.ext : l \in Mapper!OfSource(e.matchLinks)}
        /\ \A x \in DOMAIN matchByExt :
             \E l \in Mapper!OfSource(e.matchLinks) : l.ext = x /\ l.match = matchByExt[x]
    BY DEF Mapper!LinkedMatches, Mapper!DictOf
  <2>2. \A l \in e.matchLinks : l.source = FootballData => l.ext \in DOMAIN matchByExt
    BY <2>1 DEF Mapper!OfSource, Mapper!FootballData, FootballData
  <2>3. \A x \in DOMAIN matchByExt :
          \E l \in e.matchLinks : l.source = FootballData /\ l.ext = x /\ l.match = matchByExt[x]
    BY <2>1 DEF Mapper!OfSource, Mapper!FootballData, FootballData
  <2> QED
    BY <1>5, <1>6, <2>2, <2>3 DEF LinkMirror
<1>9. \A n \in DOMAIN s.teamByName :
        \E t \in s.teams : t.id = s.teamByName[n] /\ Lowered[t.name] = n
  <2>1. \A n \in DOMAIN teamByName :
          \E t \in e.teams : Lowered[t.name] = n /\ t.id = teamByName[n]
    BY DEF Mapper!FoldedTeams, Mapper!DictOf
  <2> QED
    BY <1>5, <1>6, <2>1
<1>10. /\ \A m \in s.matches : NaturalKey(m) \in DOMAIN s.matchByKey
       /\ \A k \in DOMAIN s.matchByKey :
            \E m \in s.matches : m.id = s.matchByKey[k] /\ NaturalKey(m) = k
  <2>1. /\ DOMAIN matchByKey = {NaturalKey(m) : m \in e.matches}
        /\ \A k \in DOMAIN matchByKey :
             \E m \in e.matches : NaturalKey(m) = k /\ m.id = matchByKey[k]
    BY DEF Mapper!KeyedMatches, Mapper!DictOf, Mapper!NaturalKey, NaturalKey
  <2> QED
    BY <1>5, <1>6, <2>1
<1> QED
  BY <1>7, <1>8, <1>9, <1>10 DEF MapperMirrors, s, g

LEMMA BootstrapOpensClean ==
  ASSUME NEW e, DOMAIN e = Tables, NEW top, DOMAIN top = {"open", "nextId"},
         NEW f \in Bootstrap!Lookups(e)
  PROVE  BootstrapMirrors(Joined(top, Joined(f, e)))
<1> DEFINE g == Joined(f, e)
           s == Joined(top, g)
<1>1. PICK seasons \in Bootstrap!SeasonIds(e.seasons), teams \in Bootstrap!NameIds(e.teams),
           venues \in Bootstrap!NameIds(e.venues) :
        f = [seasonByYear |-> seasons, teamByName |-> teams, venueByName |-> venues,
             matchKeys |-> {Bootstrap!NaturalKey(m) : m \in e.matches},
             seasonTeamKeys |-> {<<p.season, p.team>> : p \in e.seasonTeams}]
  BY DEF Bootstrap!Lookups
<1>2. DOMAIN f = {"seasonByYear", "teamByName", "venueByName", "matchKeys", "seasonTeamKeys"}
  BY <1>1
<1>3. /\ DOMAIN g = DOMAIN f \cup Tables
      /\ \A k \in DOMAIN f : g[k] = f[k]
      /\ \A t \in Tables : g[t] = e[t]
  BY <1>2, TableNames DEF Joined
<1> HIDE DEF g
<1>4. /\ DOMAIN s = DOMAIN top \cup DOMAIN g
      /\ \A k \in DOMAIN top : s[k] = top[k]
      /\ \A k \in DOMAIN g : k \notin DOMAIN top => s[k] = g[k]
  BY DEF Joined
<1> HIDE DEF s
<1>5. /\ \A t \in Tables : s[t] = e[t]
      /\ s.seasonByYear = seasons /\ s.teamByName = teams
      /\ s.matchKeys = {Bootstrap!NaturalKey(m) : m \in e.matches}
      /\ s.seasonTeamKeys = {<<p.season, p.team>> : p \in e.seasonTeams}
  BY <1>1, <1>2, <1>3, <1>4, TableNames
<1>6. /\ s.seasons = e.seasons /\ s.teams = e.teams
      /\ s.matches = e.matches /\ s.seasonTeams = e.seasonTeams
  BY <1>5, TableNames
<1>7. \A y \in DOMAIN seasons : \E q \in e.seasons : q.year = y /\ q.id = seasons[y]
  BY DEF Bootstrap!SeasonIds, Bootstrap!DictOf
<1>8. \A n \in DOMAIN teams : \E t \in e.teams : t.name = n /\ t.id = teams[n]
  BY DEF Bootstrap!NameIds, Bootstrap!DictOf
<1>9. {Bootstrap!NaturalKey(m) : m \in e.matches} = {NaturalKey(m) : m \in e.matches}
  BY DEF Bootstrap!NaturalKey, NaturalKey
<1> QED
  BY <1>5, <1>6, <1>7, <1>8, <1>9 DEF BootstrapMirrors, s, g

\* Rows that are versions of committed ones get past the indexes.
LEMMA ReadRowsSound ==
  ASSUME NEW d, NEW t \in Tables, KeysUnique(d, t), NEW s,
         UniqueOn(s[t], LAMBDA x : x.id), \A x \in s[t] : \E c \in d[t] : Alike(t, c, x)
  PROVE  KeysUnique(s, t)
<1>1. ASSUME NEW x \in s[t], NEW y \in s[t], x # y
      PROVE  Keys(t, x) \cap Keys(t, y) = {}
  <2>1. PICK c \in d[t], k \in d[t] : Alike(t, c, x) /\ Alike(t, k, y)
    OBVIOUS
  <2>2. c # k
    BY <1>1, <2>1 DEF UniqueOn, Alike
  <2>3. Keys(t, c) = Keys(t, x) /\ Keys(t, k) = Keys(t, y)
    BY <2>1, AlikeRows
  <2> QED
    BY <2>2, <2>3 DEF KeysUnique
<1> QED
  BY <1>1 DEF KeysUnique

\* A session over what a run has read.
LEMMA SessionsClean ==
  ASSUME NEW d, NEW how, DbRight(d, how), LinksFit(d),
         NEW r, r.job \in Jobs, r.pc = "read", ReadSoFar(d, r), RowsClean(r),
         Base(r) \in Nat, First(r) \in Nat, NEW s \in Sessions(r)
  PROVE  SessionClean(d, r.job, s)
<1> DEFINE e == TablesOf(r.session)
<1>1. DOMAIN e = Tables /\ \A t \in Tables : e[t] = r.session[t]
  BY DEF TablesOf
<1>2. r.job.kind \in {"mapper", "bootstrap"}
  BY JobsAre
<1>3. \A t \in Tables : s[t] = r.session[t]
  BY SessionsRight
<1>4. IF r.job.kind = "mapper" THEN MapperMirrors(s) ELSE BootstrapMirrors(s)
  <2>1. CASE r.job.kind = "mapper"
    <3> DEFINE top == [open |-> TRUE, nextId |-> FirstId(r.no) + 1,
                       season |-> (CHOOSE x \in e.seasons : x.year = r.job.year).id]
    <3>1. DOMAIN top = {"open", "nextId", "season"}
      OBVIOUS
    <3>2. PICK f \in Mapper!Dictionaries(e) : s = Joined(top, Joined(f, e))
      BY <2>1 DEF Sessions
    <3> HIDE DEF top, e
    <3> QED
      BY <1>1, <2>1, <3>1, <3>2, MapperOpensClean
  <2>2. CASE r.job.kind = "bootstrap"
    <3> DEFINE top == [open |-> TRUE, nextId |-> FirstId(r.no)]
    <3>1. DOMAIN top = {"open", "nextId"}
      OBVIOUS
    <3>2. PICK f \in Bootstrap!Lookups(e) : s = Joined(top, Joined(f, e))
      BY <2>2 DEF Sessions
    <3> HIDE DEF top, e
    <3> QED
      BY <1>1, <2>2, <3>1, <3>2, BootstrapOpensClean
  <2> QED
    BY <1>2, <2>1, <2>2
<1>5. \A t \in Tables : \A x \in s[t] :
        t # "seasons" \/ r.job.kind = "bootstrap" => \E c \in d[t] : Alike(t, c, x)
  <2> TAKE t \in Tables
  <2> TAKE x \in s[t]
  <2>1. OwnIds(r) = First(r)..(Base(r) - 1)
    BY DEF OwnIds, NextOf, InLoopPhase
  <2>2. x.id \in OwnIds(r) \/ \E c \in d[t] : Alike(t, c, x)
    BY <1>3, <2>1 DEF ReadSoFar, RowsRight
  <2>3. t # "seasons" => x.id \notin OwnIds(r)
    BY <1>3 DEF ReadSoFar
  <2>4. r.job.kind = "bootstrap" => OwnIds(r) = {}
    BY <2>1 DEF Base
  <2> QED
    BY <2>2, <2>3, <2>4
<1>6. \A t \in Tables : KeysUnique(s, t)
  <2> TAKE t \in Tables
  <2>1. CASE t = "seasons" /\ r.job.kind = "mapper"
    BY <1>3, <2>1 DEF RowsClean, OneSeason, KeysUnique
  <2>2. CASE t # "seasons" \/ r.job.kind = "bootstrap"
    <3>1. UniqueOn(s[t], LAMBDA x : x.id)
      BY <1>3 DEF ReadSoFar, RowsRight
    <3>2. KeysUnique(d, t)
      BY SchemaByKeys DEF DbRight
    <3> QED
      BY <1>5, <2>2, <3>1, <3>2, ReadRowsSound
  <2> QED
    BY <1>2, <2>1, <2>2
<1>7. SidesDistinct(s)
  <2>1. ASSUME NEW m \in s.matches
        PROVE  m.home # m.away
    <3>1. PICK c \in d["matches"] : Alike("matches", c, m)
      BY <1>5, TableNames
    <3>2. c.home # c.away
      BY <3>1 DEF DbRight, SchemaHolds, SidesDistinct
    <3> QED
      BY <3>1, <3>2, AlikeRows, TableNames
  <2> QED
    BY <2>1 DEF SidesDistinct
<1>8. s.teamLinks \subseteq d["teamLinks"] /\ s.matchLinks \subseteq d["matchLinks"]
  BY <1>5, AlikeRows, TableNames
<1>9. LinksFit(Concat(d, s))
  <2>1. Grows(d, Concat(d, s))
    BY ConcatRows, AlikeItself DEF Grows
  <2>2. /\ Concat(d, s)["teamLinks"] = d["teamLinks"] /\ Concat(d, s)["matchLinks"] = d["matchLinks"]
    <3>1. /\ Concat(d, s)["teamLinks"] = d["teamLinks"] \cup s["teamLinks"]
          /\ Concat(d, s)["matchLinks"] = d["matchLinks"] \cup s["matchLinks"]
      BY ConcatRows, TableNames
    <3> QED
      BY <1>8, <3>1
  <2> QED
    BY <2>1, <2>2, LinksFitOn
<1>10. LinksNamed(d, r.job, s)
  BY <1>8 DEF LinksNamed
<1> QED
  BY <1>4, <1>6, <1>7, <1>9, <1>10 DEF SessionClean, SessionSound

\* What a run has read it keeps, in a later version.
LEMMA CompleteKeeps ==
  ASSUME NEW d, NEW r, Complete(d, r), NEW q, q.job = r.job,
         r.pc # "reading", q.pc # "reading",
         \A t \in Tables : \A x \in r.session[t] : \E y \in q.session[t] : Alike(t, x, y)
  PROVE  Complete(d, q)
<1>1. ASSUME NEW t \in Tables, NEW x \in d[t],
             \/ t \in Selects(r.job.kind)
             \/ r.job.kind = "mapper" /\ t = "seasons" /\ x.year = r.job.year
      PROVE  \E y \in q.session[t] : Alike(t, x, y)
  <2>1. PICK z \in r.session[t] : Alike(t, x, z)
    BY <1>1 DEF Complete, HasRead
  <2>2. PICK y \in q.session[t] : Alike(t, z, y)
    OBVIOUS
  <2> QED
    BY <2>1, <2>2, AlikeItself
<1> QED
  BY <1>1 DEF Complete

LEMMA EnterLoopClean ==
  ASSUME NEW how, IsHistory(how), DbRight(db, how), LinksFit(db), NEW pairs, DOMAIN run = Workers,
         NEW w \in Workers, RunRight(db, how, pairs, run[w]), CleanRun(db, how, pairs, run[w]),
         EnterLoop(w)
  PROVE  CleanRun(db, how, pairs, run'[w])
<1> DEFINE r == run[w]   q == run'[w]
<1>1. /\ r.pc = "read" /\ r.job \in Jobs
      /\ DOMAIN r = {"pc", "no", "job", "step", "row", "session", "flushed", "queue", "sent"}
  BY DEF EnterLoop, RunRight, Standing
<1>2. PICK s \in Sessions(r) :
        run' = [run EXCEPT ![w].session = s, ![w].pc = "rows"]
  BY DEF EnterLoop
<1>3. /\ q.session = s /\ q.queue = r.queue /\ q.pc = "rows" /\ q.job = r.job /\ q.sent = r.sent
      /\ q.no = r.no
  BY <1>1, <1>2
<1>4. Standing(r, how) /\ WithinIds(r) /\ ReadSoFar(db, r)
  BY <1>1 DEF RunRight, Working, InLoopPhase
<1>5. First(r) \in Nat /\ Base(r) \in Nat
  <2>1. First(r) \in Nat
    BY <1>4, OwnIdsAreOwn
  <2> QED
    BY <2>1 DEF Base
<1>6. /\ RowsClean(r) /\ \A st \in r.queue : st.insert => st \notin SentOf(r)
      /\ Undisturbed(how, pairs, r.no) => Complete(db, r)
  BY DEF CleanRun
<1> HIDE DEF r, q
<1>7. \A t \in Tables : s[t] = r.session[t]
  BY <1>1, <1>4, <1>5, SessionsRight
<1>8. SessionClean(db, r.job, s)
  BY <1>1, <1>4, <1>5, <1>6, SessionsClean
<1>9. RowsClean(q)
  <2>1. \A t \in Untouched(r.job.kind) : t \in Tables
    BY TableNames DEF Untouched
  <2>2. "seasons" \in Tables
    BY TableNames
  <2> QED
    BY <1>1, <1>3, <1>6, <1>7, <2>1, <2>2 DEF RowsClean
<1>10. SentOf(q) = SentOf(r)
  BY <1>3 DEF SentOf
<1>11. Undisturbed(how, pairs, q.no) => Complete(db, q)
  <2>1. \A t \in Tables : \A x \in r.session[t] : \E y \in q.session[t] : Alike(t, x, y)
    BY <1>3, <1>7, AlikeItself
  <2> QED
    BY <1>1, <1>3, <1>6, <2>1, CompleteKeeps
<1> QED
  BY <1>3, <1>6, <1>8, <1>9, <1>10, <1>11 DEF CleanRun, q

LEMMA SkipClean ==
  ASSUME NEW how, NEW pairs, DOMAIN run = Workers, NEW w \in Workers,
         RunRight(db, how, pairs, run[w]), CleanRun(db, how, pairs, run[w]), Skip(w)
  PROVE  CleanRun(db, how, pairs, run'[w])
<1> DEFINE r == run[w]   q == run'[w]
<1>1. /\ r.pc = "rows"
      /\ DOMAIN r = {"pc", "no", "job", "step", "row", "session", "flushed", "queue", "sent"}
      /\ run' = [run EXCEPT ![w].row = @ + 1]
  BY DEF Skip, InLoop, RunRight, Standing
<1>2. /\ q.session = r.session /\ q.queue = r.queue /\ q.step = r.step /\ q.pc = r.pc
      /\ q.no = r.no /\ q.job = r.job /\ q.sent = r.sent
  BY <1>1
<1>3. CleanRun(db, how, pairs, r)
  OBVIOUS
<1> HIDE DEF r, q
<1>4. SentOf(q) = SentOf(r) /\ (InLoopPhase(q) <=> InLoopPhase(r)) /\ (RowsClean(q) <=> RowsClean(r))
  BY <1>2 DEF SentOf, InLoopPhase, RowsClean
<1>5. Complete(db, q) <=> Complete(db, r)
  BY <1>1, <1>2 DEF Complete, HasRead
<1> QED
  BY <1>2, <1>3, <1>4, <1>5 DEF CleanRun, q

\* A run at a turn has the session and the ids for it.
LEMMA TurnPlaced ==
  ASSUME NEW how, IsHistory(how), DbRight(db, how), NEW pairs, DOMAIN run = Workers,
         NEW w \in Workers, RunRight(db, how, pairs, run[w]), InLoop(w), ~PassedOver(w)
  PROVE  LET r == run[w] IN
         /\ Placed(db, r.job, First(r), r.session)
         /\ r.session.nextId + 10 <= First(r) + IdsPerRun
         /\ r.row \in DOMAIN r.job.rows /\ r.step \in 1..Lookups(r.job.kind)
         /\ Found(r.job, r.session, r.job.rows[r.row], r.step)
<1> DEFINE r == run[w]   s == r.session   first == First(r)
<1>1. /\ r.pc = "rows" /\ r.job \in Jobs /\ r.row <= Len(r.job.rows) /\ InLoopPhase(r)
      /\ Standing(r, how) /\ WithinIds(r) /\ FoundSoFar(r) /\ Working(db, r)
  BY DEF InLoop, RunRight, Standing, InLoopPhase
<1>3. /\ r.row \in Nat /\ Len(r.job.rows) \in Nat /\ r.row >= 1 /\ r.row \in DOMAIN r.job.rows
      /\ r.job.kind \in {"mapper", "bootstrap"} /\ IdsPerRun \in Nat
      /\ 20 * Len(r.job.rows) < IdsPerRun
  BY <1>1, JobsAre DEF Standing, IdsPerTurn
<1>4. /\ r.step \in Nat /\ r.step >= 1 /\ r.step <= Lookups(r.job.kind)
      /\ Lookups(r.job.kind) \in {4, 5}
  BY <1>1, <1>3 DEF Standing, Lookups
<1>5. Reserved(db, first) /\ first \in Nat
  BY <1>1, ReservedIds DEF Reserved
<1>6. SessionRight(db, r.job, first, s) /\ s.nextId \in Nat
  BY <1>1 DEF Working, SessionRight
<1>7. /\ first <= Base(r) /\ Base(r) \in Nat /\ Base(r) <= s.nextId
      /\ s.nextId <= first + 1 + 20 * (r.row - 1) + 2 * (r.step - 1)
  BY <1>1, <1>5 DEF WithinIds, Base, IdsPerTurn
<1>8. first <= s.nextId /\ s.nextId + 10 <= first + IdsPerRun
  <2>1. r.step <= 5 /\ r.row <= Len(r.job.rows)
    BY <1>1, <1>4
  <2>2. first <= s.nextId
    BY <1>5, <1>6, <1>7
  <2> HIDE DEF r, s, first
  <2> QED
    BY <1>3, <1>4, <1>5, <1>6, <1>7, <2>1, <2>2, TurnFits
<1>9. Found(r.job, s, r.job.rows[r.row], r.step)
  BY <1>1 DEF FoundSoFar, Found
<1>10. r.step \in 1..Lookups(r.job.kind)
  BY <1>4
<1>11. \A t \in Tables : UniqueOn(db[t], LAMBDA x : x.id) /\ KeysUnique(db, t)
  BY SchemaByKeys DEF DbRight
<1>12. Placed(db, r.job, first, s)
  BY <1>1, <1>5, <1>6, <1>8, <1>11 DEF Placed
<1> QED
  BY <1>3, <1>8, <1>9, <1>10, <1>12

LEMMA TurnClean ==
  ASSUME OneIdPerClub, OneIdPerFixture, SidesDiffer,
         NEW how, IsHistory(how), DbRight(db, how), NEW pairs, DOMAIN run = Workers,
         NEW w \in Workers, RunRight(db, how, pairs, run[w]), CleanRun(db, how, pairs, run[w]),
         Turn(w)
  PROVE  CleanRun(db, how, pairs, run'[w])
<1> DEFINE r == run[w]   q == run'[w]   s == r.session   raw == r.job.rows[r.row]
           after == After(r.job, s, raw, r.step)
           made == {t \in FlushedAtOnce(r.job.kind) : IdsOf(after[t]) # IdsOf(s[t])}
           shown == [t \in Tables |-> IF t \in made THEN after[t] ELSE s[t]]
<1>1. /\ r.pc = "rows" /\ r.job \in Jobs /\ StatementsRight(db, r) /\ InLoopPhase(r)
      /\ DOMAIN r = {"pc", "no", "job", "step", "row", "session", "flushed", "queue", "sent"}
  BY DEF Turn, InLoop, RunRight, Standing, InLoopPhase
<1>2. /\ q.session = after
      /\ q.queue = (IF made = {} THEN {} ELSE Statements(r.flushed, shown))
      /\ q.pc = "rows" /\ q.no = r.no /\ q.job = r.job /\ q.sent = r.sent
  BY <1>1 DEF Turn
<1>3. InLoop(w) /\ ~PassedOver(w) /\ CleanRun(db, how, pairs, r)
  BY DEF Turn
<1>4. /\ Placed(db, r.job, First(r), s)
      /\ s.nextId + 10 <= First(r) + IdsPerRun
      /\ r.row \in DOMAIN r.job.rows /\ r.step \in 1..Lookups(r.job.kind)
      /\ Found(r.job, s, raw, r.step)
  BY <1>3, TurnPlaced
<1>5. /\ RowsClean(r) /\ SessionClean(db, r.job, s)
      /\ Undisturbed(how, pairs, r.no) => Complete(db, r)
  BY <1>1, <1>3 DEF CleanRun
<1> HIDE DEF r, q
<1>6. r.job.kind = "mapper" => OneSeason(r.job, s["seasons"])
  BY <1>1, <1>5 DEF RowsClean
<1>7. SessionClean(db, r.job, after)
  BY <1>4, <1>5, <1>6, AfterClean
<1>8. RowsMoved(s, after)
  BY <1>1, <1>4, AfterRight DEF Placed, Looked
<1>9. LeavesAlone(r.job, s, after)
  BY <1>1, <1>4, TurnSpares DEF Placed, SessionRight
<1> HIDE DEF after, made, shown
<1>10. r.job.kind \in {"mapper", "bootstrap"}
  BY <1>1, JobsAre
<1>11. RowsClean(q)
  BY <1>1, <1>2, <1>5, <1>6, <1>9, <1>10 DEF RowsClean, LeavesAlone, Untouched
<1>12. SentOf(q) = SentOf(r)
  BY <1>2 DEF SentOf
<1>13. \A st \in q.queue : st.insert => st \notin SentOf(q)
  BY <1>1, <1>2, <1>12, FreshInserts
<1>14. Undisturbed(how, pairs, q.no) => Complete(db, q)
  <2>1. \A t \in Tables : \A x \in r.session[t] : \E y \in q.session[t] : Alike(t, x, y)
    BY <1>2, <1>8 DEF RowsMoved
  <2> QED
    BY <1>1, <1>2, <1>5, <2>1, CompleteKeeps
<1> QED
  BY <1>2, <1>7, <1>11, <1>13, <1>14 DEF CleanRun, q

LEMMA CloseClean ==
  ASSUME NEW how, NEW pairs, DOMAIN run = Workers, NEW w \in Workers,
         RunRight(db, how, pairs, run[w]), CleanRun(db, how, pairs, run[w]), Close(w)
  PROVE  CleanRun(db, how, pairs, run'[w])
<1> DEFINE r == run[w]   q == run'[w]
<1>1. /\ r.pc = "rows" /\ StatementsRight(db, r) /\ CleanRun(db, how, pairs, r)
      /\ DOMAIN r = {"pc", "no", "job", "step", "row", "session", "flushed", "queue", "sent"}
  BY DEF Close, RunRight, Standing
<1>2. /\ q.session = r.session /\ q.queue = Statements(r.flushed, TablesOf(r.session))
      /\ q.pc = "closing" /\ q.no = r.no /\ q.job = r.job /\ q.sent = r.sent
  BY <1>1 DEF Close
<1> HIDE DEF r, q
<1>3. SentOf(q) = SentOf(r) /\ InLoopPhase(r) /\ (RowsClean(r) => RowsClean(q))
  BY <1>1, <1>2 DEF SentOf, InLoopPhase, RowsClean
<1>4. \A st \in q.queue : st.insert => st \notin SentOf(q)
  BY <1>1, <1>2, <1>3, FreshInserts
<1>5. Complete(db, r) => Complete(db, q)
  BY <1>1, <1>2 DEF Complete, HasRead
<1> QED
  BY <1>1, <1>2, <1>3, <1>4, <1>5 DEF CleanRun, q

LEMMA ExecuteClean ==
  ASSUME NEW how, NEW pairs, DOMAIN run = Workers, NEW w \in Workers,
         RunRight(db, how, pairs, run[w]), CleanRun(db, how, pairs, run[w]), Execute(w)
  PROVE  CleanRun(db, how, pairs, run'[w])
<1> DEFINE r == run[w]   q == run'[w]
<1>1. PICK st \in Due(w) : run' = [run EXCEPT ![w].queue = @ \ {st}, ![w].sent = Append(@, st)]
  BY DEF Execute
<1>2. /\ DOMAIN r = {"pc", "no", "job", "step", "row", "session", "flushed", "queue", "sent"}
      /\ CleanRun(db, how, pairs, r)
  BY DEF RunRight, Standing
<1>3. /\ q.session = r.session /\ q.queue = r.queue \ {st} /\ q.step = r.step /\ q.pc = r.pc
      /\ q.no = r.no /\ q.job = r.job
  BY <1>1, <1>2
<1>4. SentOf(q) = SentOf(r) \cup {st}
  <2>2. q.sent = Append(r.sent, st)
    BY <1>1, <1>2
  <2>3. r.sent \in Seq(SentOf(r))
    BY DEF RunRight, StatementsRight
  <2> HIDE DEF r, q
  <2>4. /\ DOMAIN q.sent = 1..(Len(r.sent) + 1) /\ DOMAIN r.sent = 1..Len(r.sent)
        /\ Len(r.sent) \in Nat /\ q.sent[Len(r.sent) + 1] = st
        /\ \A i \in DOMAIN r.sent : q.sent[i] = r.sent[i]
    BY <2>2, <2>3
  <2>5. SentOf(q) \subseteq SentOf(r) \cup {st}
    BY <2>4 DEF SentOf
  <2>6. SentOf(r) \cup {st} \subseteq SentOf(q)
    BY <2>4 DEF SentOf
  <2> QED
    BY <2>5, <2>6
<1> HIDE DEF r, q
<1>5. (InLoopPhase(q) <=> InLoopPhase(r)) /\ (RowsClean(q) <=> RowsClean(r))
      /\ (Complete(db, q) <=> Complete(db, r))
  BY <1>3 DEF InLoopPhase, RowsClean, Complete, HasRead
<1>6. \A other \in q.queue : other.insert => other \notin SentOf(q)
  BY <1>2, <1>3, <1>4 DEF CleanRun
<1> QED
  BY <1>2, <1>3, <1>5, <1>6 DEF CleanRun, q

LEMMA StartClean ==
  ASSUME DOMAIN run = Workers, NEW w \in Workers, NEW job \in Jobs, Start(w, job)
  PROVE  CleanRun(db, fate', overlaps', run'[w])
<1> DEFINE q == run'[w]
<1>1. /\ q.pc = "reading" /\ q.job = job /\ q.step = 1
      /\ q.session = EmptyDB /\ q.queue = {}
  BY DEF Start
<1> HIDE DEF q
<1>2. \A t \in Tables : q.session[t] = {}
  BY <1>1, TableNames DEF EmptyDB
<1>3. RowsClean(q)
  <2>1. \A t \in Untouched(q.job.kind) : t \in Tables
    BY TableNames DEF Untouched
  <2> QED
    BY <1>1, <1>2, <2>1 DEF RowsClean
<1>4. Complete(db, q)
  <2>1. \A t : ~HasRead(q, t)
    BY <1>1 DEF HasRead
  <2> QED
    BY <1>1, <2>1 DEF Complete
<1> QED
  BY <1>1, <1>3, <1>4 DEF CleanRun, InLoopPhase, q

\* A commit stores the session of its run: the rows of both have a version in the
\* database, and its links are links of one of them.
LEMMA CommitMerges ==
  ASSUME NEW d, NEW how, IsHistory(how), DbRight(d, how), NEW pairs,
         NEW r, RunRight(d, how, pairs, r), r.pc = "closing", r.queue = {}
  PROVE  LET e == Applied(d, r.sent) IN
         /\ Grows(d, e) /\ Grows(Concat(d, r.session), e)
         /\ \A t \in {"teamLinks", "matchLinks"} : e[t] \subseteq d[t] \cup r.session[t]
<1> DEFINE e == Applied(d, r.sent)   s == r.session
<1>1. /\ StatementsRight(d, r) /\ FlushRight(r) /\ InLoopPhase(r) /\ ColumnsHold(d)
      /\ \A t \in Tables : r.flushed[t] = s[t]
      /\ SessionRight(d, r.job, First(r), s)
      /\ AllOf(r) = SentOf(r)
  BY DEF RunRight, FlushRight, InLoopPhase, Working, DbRight, AllOf
<1>2. OwnIds(r) = First(r)..(s.nextId - 1)
  BY <1>1 DEF OwnIds, NextOf
<1> HIDE DEF e, s
<1>3. ASSUME NEW t \in Tables
      PROVE  /\ \A x \in d[t] : \E y \in e[t] : Alike(t, x, y)
             /\ \A st \in SentOf(r) : st.insert /\ st.table = t =>
                  \E y \in e[t] : Alike(t, st.columns, y)
             /\ \A y \in e[t] :
                  \/ \E x \in d[t] : Alike(t, x, y)
                  \/ \E st \in SentOf(r) : st.insert /\ st.table = t /\ Alike(t, st.columns, y)
  BY <1>1, CommitMoves DEF e
<1>4. \A st \in SentOf(r) : st.insert =>
        st.id = st.columns.id /\ \E x \in s[st.table] : Alike(st.table, x, st.columns)
  <2> TAKE st \in SentOf(r)
  <2> HAVE st.insert
  <2>1. InsertRight(d, r, st) /\ st.table \in Tables
    BY <1>1 DEF StatementsRight
  <2> QED
    BY <1>1, <2>1 DEF InsertRight
<1>5. Grows(d, e)
  BY <1>3 DEF Grows
<1>6. Grows(Concat(d, s), e)
  <2>1. ASSUME NEW t \in Tables, NEW x \in s[t]
        PROVE  \E y \in e[t] : Alike(t, x, y)
    <3>1. CASE x.id \in OwnIds(r)
      <4>1. PICK st \in SentOf(r) : st.insert /\ st.table = t /\ st.id = x.id
        BY <1>1, <3>1 DEF StatementsRight
      <4>2. PICK z \in s[t] : Alike(t, z, st.columns) /\ st.id = st.columns.id
        BY <1>4, <4>1
      <4>3. z = x
        <5>1. UniqueOn(s[t], LAMBDA i : i.id)
          BY <1>1 DEF SessionRight, RowsRight
        <5> QED
          BY <4>1, <4>2, <5>1 DEF UniqueOn, Alike
      <4> QED
        BY <1>3, <4>1, <4>2, <4>3, AlikeItself
    <3>2. CASE \E q \in d[t] : Alike(t, q, x)
      BY <1>3, <3>2, AlikeItself
    <3> QED
      BY <1>1, <1>2, <3>1, <3>2 DEF SessionRight, RowsRight
  <2> QED
    BY <1>3, <2>1, ConcatRows DEF Grows
<1>7. \A t \in {"teamLinks", "matchLinks"} : e[t] \subseteq d[t] \cup s[t]
  <2> TAKE t \in {"teamLinks", "matchLinks"}
  <2>0. t \in Tables /\ t \notin {"seasons", "matches"}
    BY TableNames
  <2>1. ASSUME NEW y \in e[t]
        PROVE  y \in d[t] \cup s[t]
    <3>1. CASE \E x \in d[t] : Alike(t, x, y)
      BY <2>0, <3>1, AlikeRows
    <3>2. CASE \E st \in SentOf(r) : st.insert /\ st.table = t /\ Alike(t, st.columns, y)
      <4>1. PICK st \in SentOf(r) : st.insert /\ st.table = t /\ Alike(t, st.columns, y)
        BY <3>2
      <4>2. PICK x \in s[t] : Alike(t, x, st.columns)
        BY <1>4, <4>1
      <4>3. x = y
        BY <2>0, <4>1, <4>2, AlikeRows
      <4> QED
        BY <4>3
    <3> QED
      BY <1>3, <2>0, <3>1, <3>2
  <2> QED
    BY <2>1
<1> QED
  BY <1>5, <1>6, <1>7 DEF e, s

LEMMA CommitFits ==
  ASSUME NEW d, NEW how, IsHistory(how), DbRight(d, how), LinksFit(d), NEW pairs,
         NEW r, RunRight(d, how, pairs, r), CleanRun(d, how, pairs, r),
         r.pc = "closing", r.queue = {}
  PROVE  LinksFit(Applied(d, r.sent)) /\ Grows(d, Applied(d, r.sent))
<1> DEFINE e == Applied(d, r.sent)   s == r.session
<1>1. /\ Grows(d, e) /\ Grows(Concat(d, s), e)
      /\ \A t \in {"teamLinks", "matchLinks"} : e[t] \subseteq d[t] \cup s[t]
  BY CommitMerges
<1>2. LinksFit(Concat(d, s))
  BY DEF CleanRun, InLoopPhase, SessionClean
<1> HIDE DEF e, s
<1>3. LinksFit(e)
  <2>1. ASSUME NEW l \in e["teamLinks"], l.source = FootballData
        PROVE  ClubFits(e, l)
    <3>1. l \in Concat(d, s)["teamLinks"]
      BY <1>1, ConcatRows, TableNames
    <3> QED
      BY <1>1, <1>2, <2>1, <3>1, GrowsFit DEF LinksFit
  <2>2. ASSUME NEW l \in e["matchLinks"], l.source = FootballData
        PROVE  FixtureFits(e, l)
    <3>1. l \in Concat(d, s)["matchLinks"]
      BY <1>1, ConcatRows, TableNames
    <3> QED
      BY <1>1, <1>2, <2>2, <3>1, GrowsFit DEF LinksFit
  <2> QED
    BY <2>1, <2>2 DEF LinksFit
<1> QED
  BY <1>1, <1>3 DEF e

\* A session stays clean over a database with more in it.
LEMMA CleanOverMore ==
  ASSUME NEW d, NEW e, Grows(d, e), LinksFit(e), NEW job, NEW s, SessionClean(d, job, s)
  PROVE  SessionClean(e, job, s)
<1>1. Grows(Concat(d, s), Concat(e, s)) /\ Grows(e, Concat(e, s))
  BY ConcatGrows, GrowsItself, ConcatRows, AlikeItself DEF Grows
<1>2. LinksFit(Concat(d, s)) /\ LinksNamed(d, job, s)
  BY DEF SessionClean
<1>3. LinksFit(Concat(e, s))
  <2>1. ASSUME NEW l \in Concat(e, s)["teamLinks"], l.source = FootballData
        PROVE  ClubFits(Concat(e, s), l)
    <3>1. l \in e["teamLinks"] \/ l \in Concat(d, s)["teamLinks"]
      BY ConcatRows, TableNames
    <3> QED
      BY <1>1, <1>2, <2>1, <3>1, GrowsFit DEF LinksFit
  <2>2. ASSUME NEW l \in Concat(e, s)["matchLinks"], l.source = FootballData
        PROVE  FixtureFits(Concat(e, s), l)
    <3>1. l \in e["matchLinks"] \/ l \in Concat(d, s)["matchLinks"]
      BY ConcatRows, TableNames
    <3> QED
      BY <1>1, <1>2, <2>2, <3>1, GrowsFit DEF LinksFit
  <2> QED
    BY <2>1, <2>2 DEF LinksFit
<1>4. LinksNamed(e, job, s)
  <2>1. d["teamLinks"] \subseteq e["teamLinks"]
    BY AlikeRows, TableNames DEF Grows
  <2> QED
    BY <1>2, <2>1 DEF LinksNamed
<1> QED
  BY <1>3, <1>4 DEF SessionClean

\* A run stays clean when another one starts, ends or commits: what it knows of
\* the database is then not asked for any more.
LEMMA OthersStayClean ==
  ASSUME NEW d, NEW e, Grows(d, e), LinksFit(e), NEW how, NEW now, NEW pairs, NEW more,
         NEW r, CleanRun(d, how, pairs, r),
         Undisturbed(now, more, r.no) => Undisturbed(how, pairs, r.no) /\ d = e
  PROVE  CleanRun(e, now, more, r)
BY CleanOverMore DEF CleanRun

\* A run is not refused by its own rows, nor by committed ones it has seen.
LEMMA LoneRunPasses ==
  ASSUME NEW how, IsHistory(how), DbRight(db, how), NEW pairs,
         NEW w \in Workers, RunRight(db, how, pairs, run[w]), CleanRun(db, how, pairs, run[w]),
         Undisturbed(how, pairs, run[w].no), NEW st \in Due(w)
  PROVE  ~Violates(w, st)
<1> DEFINE r == run[w]   s == r.session   t == st.table
<1>1. /\ Standing(r, how) /\ WithinIds(r) /\ Working(db, r) /\ FlushRight(r)
      /\ StatementsRight(db, r) /\ RowsClean(r) /\ Complete(db, r)
      /\ InLoopPhase(r) => SessionClean(db, r.job, s)
      /\ \A q \in r.queue : q.insert => q \notin SentOf(r)
      /\ st \in r.queue /\ st \in AllOf(r)
  BY DEF RunRight, CleanRun, Due, AllOf
<1>2. SUFFICES ASSUME st.insert
               PROVE  /\ \A x \in db[t] : Keys(t, x) \cap Keys(t, st.columns) = {}
                      /\ \A own \in SentOf(r) : own.insert /\ own.table = t =>
                           Keys(t, own.columns) \cap Keys(t, st.columns) = {}
                      /\ t = "matches" => st.columns.home # st.columns.away
  BY DEF Violates, SameKey, Sent, SentOf
<1> HIDE DEF r, s, t
<1>3. ASSUME NEW q \in AllOf(r), q.insert
      PROVE  /\ q.table \in Tables \ {"stats"} /\ q.id \in OwnIds(r) /\ q.id = q.columns.id
             /\ \E z \in s[q.table] : Alike(q.table, z, q.columns) /\ z.id = q.id
  <2>1. InsertRight(db, r, q) /\ q.table \in Tables \ {"stats"}
    BY <1>1, <1>3 DEF StatementsRight
  <2>2. PICK x \in r.flushed[q.table] : Alike(q.table, x, q.columns)
    BY <2>1 DEF InsertRight
  <2>3. PICK z \in s[q.table] : Alike(q.table, x, z)
    BY <1>1, <2>1 DEF FlushRight, s
  <2>4. Alike(q.table, z, q.columns)
    BY <2>2, <2>3, AlikeItself
  <2> QED
    BY <2>1, <2>4 DEF InsertRight, Alike
<1>4. t \in Tables \ {"stats"} /\ st.id \in OwnIds(r)
  BY <1>1, <1>2, <1>3 DEF t
<1>5. PICK z \in s[t] : Alike(t, z, st.columns) /\ z.id = st.id
  BY <1>1, <1>2, <1>3 DEF t
<1>6. Keys(t, st.columns) = Keys(t, z)
  BY <1>4, <1>5, AlikeRows
<1>7. r.job.kind \in {"mapper", "bootstrap"} /\ r.job \in Jobs
  BY <1>1, JobsAre DEF Standing
<1>8. First(r) \in Nat /\ \A id \in OwnIds(r) : id \in Nat /\ RunOf(id) = r.no
  BY <1>1, OwnIdsAreOwn
<1>9. ~InLoopPhase(r) => /\ t = "seasons" /\ r.job.kind = "mapper"
                         /\ ~(r.pc = "reading" /\ r.step = 1)
  <2> HAVE ~InLoopPhase(r)
  <2>1. ReadSoFar(db, r)
    BY <1>1 DEF Working
  <2>2. t = "seasons"
    BY <1>4, <1>5, <2>1 DEF ReadSoFar, s
  <2>3. r.job.kind = "mapper"
    <3>1. OwnIds(r) = First(r)..(Base(r) - 1)
      BY DEF OwnIds, NextOf
    <3>2. r.job.kind = "bootstrap" => OwnIds(r) = {}
      BY <1>8, <3>1 DEF Base
    <3> QED
      BY <1>4, <1>7, <3>2
  <2>4. ~(r.pc = "reading" /\ r.step = 1)
    <3>1. r.pc = "reading" /\ r.step = 1 => s[t] = {}
      BY <1>4, <2>1 DEF ReadSoFar, EmptyDB, s
    <3> QED
      BY <1>5, <3>1
  <2> QED
    BY <2>2, <2>3, <2>4
<1>10. t = "seasons" /\ r.job.kind = "mapper" => OneSeason(r.job, s["seasons"])
       /\ ~(r.pc = "reading" /\ r.step = 1)
  BY <1>1, <1>9 DEF RowsClean, InLoopPhase, s
<1>11. \A x \in s[t] : x # z => Keys(t, x) \cap Keys(t, z) = {}
  <2>1. CASE InLoopPhase(r)
    BY <1>1, <1>4, <1>5, <2>1 DEF SessionClean, SessionSound, KeysUnique
  <2>2. CASE ~InLoopPhase(r)
    BY <1>5, <1>9, <1>10, <2>2 DEF OneSeason
  <2> QED
    BY <2>1, <2>2
<1>12. ASSUME NEW x \in db[t], Keys(t, x) \cap Keys(t, z) # {}
       PROVE  FALSE
  <2>1. x.id \notin OwnIds(r)
    <3>1. Reserved(db, First(r))
      BY <1>1, ReservedIds
    <3>2. r.no \in DOMAIN how /\ how[r.no].how = "open" /\ r.no \in Nat \ {0}
      BY <1>1, ReservedIds DEF Standing
    <3> QED
      BY <1>4, <1>8, <3>2 DEF DbRight, CommittedRun
  <2>2. \E y \in s[t] : Alike(t, x, y)
    <3>1. CASE t = "seasons" /\ r.job.kind = "mapper"
      <4>1. Keys(t, x) = {<<x.year>>} /\ Keys(t, z) = {<<z.year>>}
        BY <3>1 DEF Keys
      <4>2. x.year = z.year
        BY <1>12, <4>1
      <4>3. z.year = r.job.year
        BY <1>5, <1>10, <3>1 DEF OneSeason
      <4> QED
        BY <1>1, <1>4, <1>10, <3>1, <4>2, <4>3 DEF Complete, s
    <3>2. CASE t \in Selects(r.job.kind)
      <4>1. HasRead(r, t)
        BY <1>7, <1>9, <3>2 DEF HasRead, InLoopPhase, Selects
      <4> QED
        BY <1>1, <1>4, <3>2, <4>1 DEF Complete, s
    <3>3. CASE t \in Untouched(r.job.kind)
      BY <1>1, <1>5, <3>3 DEF RowsClean, s
    <3> QED
      BY <1>4, <1>7, <3>1, <3>2, <3>3, TableNames DEF Selects, Untouched
  <2>3. PICK y \in s[t] : Alike(t, x, y)
    BY <2>2
  <2>4. y # z
    BY <1>4, <1>5, <2>1, <2>3 DEF Alike
  <2>5. Keys(t, y) = Keys(t, x)
    BY <1>4, <2>3, AlikeRows
  <2> QED
    BY <1>11, <1>12, <2>4, <2>5
<1>13. ASSUME NEW own \in SentOf(r), own.insert, own.table = t,
              Keys(t, own.columns) \cap Keys(t, z) # {}
       PROVE  FALSE
  <2>1. own \in AllOf(r)
    BY DEF AllOf
  <2>2. PICK y \in s[t] : Alike(t, y, own.columns) /\ y.id = own.id
    BY <1>3, <1>13, <2>1
  <2>3. Keys(t, y) = Keys(t, own.columns)
    BY <1>4, <2>2, AlikeRows
  <2>4. y = z
    BY <1>11, <1>13, <2>3
  <2>5. own.id = st.id
    BY <1>5, <2>2, <2>4
  <2>6. own = st
    BY <1>1, <1>2, <1>13, <2>1, <2>5 DEF StatementsRight, t
  <2> QED
    BY <1>1, <1>2, <2>6
<1>14. t = "matches" => z.home # z.away
  <2>1. t = "matches" => SidesDistinct(s)
    BY <1>1, <1>9 DEF SessionClean, SessionSound
  <2> QED
    BY <1>5, <2>1 DEF SidesDistinct
<1>15. t = "matches" => st.columns.home = z.home /\ st.columns.away = z.away
  BY <1>4, <1>5, AlikeRows
<1> QED
  BY <1>6, <1>12, <1>13, <1>14, <1>15 DEF t

LEMMA CleanInit ==
  ASSUME StartsFit, Init
  PROVE  CleanInv
<1>1. LinksFit(db)
  BY DEF Init, StartsFit
<1>2. \A w \in Workers : ~Open(w)
  BY DEF Init, Open, NoRun
<1>3. RefusedOnlyByRival
  BY DEF Init, RefusedOnlyByRival
<1> QED
  BY <1>1, <1>2, <1>3 DEF CleanInv

\* A step of one run that leaves the database to the others.
LEMMA CleanAlone ==
  ASSUME DOMAIN run = Workers, CleanInv, NEW w \in Workers, Open(w),
         UNCHANGED <<db, fate, overlaps>>, run' = [run EXCEPT ![w] = run'[w]],
         CleanRun(db, fate, overlaps, run'[w])
  PROVE  CleanInv'
<1>1. \A v \in Workers : v # w => run'[v] = run[v]
  OBVIOUS
<1>2. ASSUME NEW v \in Workers, run'[v].pc # "idle"
      PROVE  CleanRun(db', fate', overlaps', run'[v])
  BY <1>1, <1>2 DEF CleanInv, Open
<1> QED
  BY <1>2 DEF CleanInv, RefusedOnlyByRival, Open

\* The end of a run: the others have either seen no change, or are disturbed by
\* the commit.
LEMMA CleanEnd ==
  ASSUME ImportsInv, CleanInv, NEW w \in Workers, Open(w),
         NEW how \in {"committed", "refused", "deadlocked", "crashed"}, End(w, how),
         Grows(db, db'), LinksFit(db'), how = "committed" \/ db' = db,
         how = "refused" =>
           \E j \in DOMAIN fate : {run[w].no, j} \in overlaps /\ fate[j].how = "committed",
         how = "deadlocked" => \E j \in DOMAIN fate \ {run[w].no} : {run[w].no, j} \in overlaps
  PROVE  CleanInv'
<1> DEFINE i == run[w].no
<1>1. /\ DOMAIN fate' = DOMAIN fate /\ i \in DOMAIN fate /\ fate'[i].how = how
      /\ \A j \in DOMAIN fate : j # i => fate'[j] = fate[j]
      /\ overlaps' = overlaps
  BY EndOf
<1>2. \A v \in Workers : run'[v].pc # "idle" => v # w /\ Open(v) /\ run'[v] = run[v]
  BY EndOf
<1>3. fate[i].how = "open"
  <2>1. RunRight(db, fate, overlaps, run[w])
    BY InvOfRun
  <2>2. fate[run[w].no] = [kind |-> run[w].job.kind, how |-> "open"]
    BY <2>1 DEF RunRight, Standing
  <2> QED
    BY <2>2
<1>4. \A j \in DOMAIN fate : fate[j].how = "committed" => fate'[j].how = "committed"
  BY <1>1, <1>3
<1>5. ASSUME NEW v \in Workers, run'[v].pc # "idle"
      PROVE  CleanRun(db', fate', overlaps', run'[v])
  <2>1. v # w /\ Open(v) /\ run'[v] = run[v] /\ CleanRun(db, fate, overlaps, run[v])
    BY <1>2, <1>5 DEF CleanInv
  <2>2. {run[v].no, i} \in overlaps
    BY <2>1 DEF ImportsInv, FateRight, OpenTogether
  <2>3. Undisturbed(fate', overlaps', run[v].no) =>
          Undisturbed(fate, overlaps, run[v].no) /\ db = db'
    BY <1>1, <1>4, <2>2 DEF Undisturbed
  <2> QED
    BY <2>1, <2>3, OthersStayClean
<1>6. RefusedOnlyByRival'
  <2>1. ASSUME NEW k \in DOMAIN fate', fate'[k].how = "refused"
        PROVE  \E j \in DOMAIN fate' : {k, j} \in overlaps' /\ fate'[j].how = "committed"
    <3>1. \E j \in DOMAIN fate : {k, j} \in overlaps /\ fate[j].how = "committed"
      BY <1>1, <2>1 DEF CleanInv, RefusedOnlyByRival
    <3> QED
      BY <1>1, <1>4, <3>1
  <2>2. ASSUME NEW k \in DOMAIN fate', fate'[k].how = "deadlocked"
        PROVE  \E j \in DOMAIN fate' \ {k} : {k, j} \in overlaps'
    BY <1>1, <2>2 DEF CleanInv, RefusedOnlyByRival
  <2> QED
    BY <2>1, <2>2 DEF RefusedOnlyByRival
<1> QED
  BY <1>5, <1>6 DEF CleanInv, Open

LEMMA CleanStart ==
  ASSUME ImportsInv, CleanInv, NEW w \in Workers, NEW job \in Jobs, Start(w, job)
  PROVE  CleanInv'
<1> DEFINE n == Len(fate)   new == [kind |-> job.kind, how |-> "open"]
<1>1. /\ fate' = Append(fate, new) /\ db' = db /\ overlaps \subseteq overlaps' /\ new.how = "open"
      /\ run' = [run EXCEPT ![w] = run'[w]]
  BY InvOfRun DEF Start
<1>2. DOMAIN run = Workers /\ IsHistory(fate)
  BY InvOfRun
<1> HIDE DEF new
<1>3. n \in Nat /\ DOMAIN fate = 1..n
  BY <1>2 DEF IsHistory
<1>4. /\ DOMAIN fate' = 1..(n + 1) /\ fate'[n + 1] = new
      /\ \A i \in 1..n : fate'[i] = fate[i] /\ i \in DOMAIN fate'
  BY <1>1, <1>2 DEF IsHistory
<1>5. \A v \in Workers : v # w => run'[v] = run[v]
  BY <1>1, <1>2
<1>6. ASSUME NEW v \in Workers, run'[v].pc # "idle"
      PROVE  CleanRun(db', fate', overlaps', run'[v])
  <2>1. CASE v = w
    <3>1. CleanRun(db, fate', overlaps', run'[w])
      BY <1>2, StartClean
    <3> QED
      BY <1>1, <2>1, <3>1
  <2>2. CASE v # w
    <3>1. run'[v] = run[v] /\ CleanRun(db, fate, overlaps, run[v]) /\ LinksFit(db)
      BY <1>5, <1>6, <2>2 DEF CleanInv, Open
    <3>2. Undisturbed(fate', overlaps', run[v].no) => Undisturbed(fate, overlaps, run[v].no)
      BY <1>1, <1>3, <1>4 DEF Undisturbed
    <3> QED
      BY <1>1, <3>1, <3>2, GrowsItself, OthersStayClean
  <2> QED
    BY <2>1, <2>2
<1>7. RefusedOnlyByRival'
  <2>1. ASSUME NEW k \in DOMAIN fate', fate'[k].how # "open"
        PROVE  k \in DOMAIN fate /\ fate'[k] = fate[k]
    <3>1. k \in 1..n
      BY <1>1, <1>3, <1>4, <2>1
    <3> QED
      BY <1>3, <1>4, <3>1
  <2>2. ASSUME NEW k \in DOMAIN fate', fate'[k].how = "refused"
        PROVE  \E j \in DOMAIN fate' : {k, j} \in overlaps' /\ fate'[j].how = "committed"
    <3>1. PICK j \in DOMAIN fate : {k, j} \in overlaps /\ fate[j].how = "committed"
      BY <2>1, <2>2 DEF CleanInv, RefusedOnlyByRival
    <3> QED
      BY <1>1, <1>3, <1>4, <3>1
  <2>3. ASSUME NEW k \in DOMAIN fate', fate'[k].how = "deadlocked"
        PROVE  \E j \in DOMAIN fate' \ {k} : {k, j} \in overlaps'
    <3>1. PICK j \in DOMAIN fate \ {k} : {k, j} \in overlaps
      BY <2>1, <2>3 DEF CleanInv, RefusedOnlyByRival
    <3> QED
      BY <1>1, <1>3, <1>4, <3>1
  <2> QED
    BY <2>2, <2>3 DEF RefusedOnlyByRival
<1> QED
  BY <1>1, <1>6, <1>7 DEF CleanInv, Open

\* A run that works on what it knows.
LEMMA CleanQuiet ==
  ASSUME OneIdPerClub, OneIdPerFixture, SidesDiffer, ImportsInv, CleanInv, NEW w \in Workers,
         Read(w) \/ EnterLoop(w) \/ Skip(w) \/ Turn(w) \/ Close(w) \/ Execute(w)
  PROVE  CleanInv'
<1>1. UNCHANGED <<db, fate, overlaps>>
  BY DEF Read, EnterLoop, Skip, Turn, Close, Execute
<1>2. Open(w)
  BY InvOfRun DEF Read, EnterLoop, Skip, Turn, Close, Execute, InLoop, Open
<1>3. IsHistory(fate) /\ DbRight(db, fate) /\ DOMAIN run = Workers
      /\ RunRight(db, fate, overlaps, run[w])
  BY <1>2, InvOfRun
<1>4. CleanRun(db, fate, overlaps, run[w]) /\ LinksFit(db)
  BY <1>2 DEF CleanInv
<1>5. run' = [run EXCEPT ![w] = run'[w]] /\ CleanRun(db, fate, overlaps, run'[w])
  <2>1. CASE Read(w)
    BY <1>3, <1>4, <2>1, ReadRight, ReadClean
  <2>2. CASE EnterLoop(w)
    BY <1>3, <1>4, <2>2, EnterLoopRight, EnterLoopClean
  <2>3. CASE Skip(w)
    BY <1>3, <1>4, <2>3, SkipRight, SkipClean
  <2>4. CASE Turn(w)
    BY <1>3, <1>4, <2>4, TurnRight, TurnClean
  <2>5. CASE Close(w)
    BY <1>3, <1>4, <2>5, CloseRight, CloseClean
  <2>6. CASE Execute(w)
    BY <1>3, <1>4, <2>6, ExecuteRight, ExecuteClean
  <2> QED
    BY <2>1, <2>2, <2>3, <2>4, <2>5, <2>6
<1> QED
  BY <1>1, <1>2, <1>3, <1>5, CleanAlone

LEMMA CleanCommit ==
  ASSUME ImportsInv, CleanInv, NEW w \in Workers, Commit(w)
  PROVE  CleanInv'
<1>1. /\ run[w].pc = "closing" /\ run[w].queue = {} /\ Open(w)
      /\ db' = Applied(db, run[w].sent) /\ End(w, "committed")
  BY DEF Commit, Open
<1>2. IsHistory(fate) /\ DbRight(db, fate) /\ RunRight(db, fate, overlaps, run[w])
  BY <1>1, InvOfRun
<1>3. LinksFit(db) /\ CleanRun(db, fate, overlaps, run[w])
  BY <1>1 DEF CleanInv
<1>4. LinksFit(db') /\ Grows(db, db')
  <2>1. LinksFit(Applied(db, run[w].sent)) /\ Grows(db, Applied(db, run[w].sent))
    BY <1>1, <1>2, <1>3, CommitFits
  <2> QED
    BY <1>1, <2>1
<1> QED
  BY <1>1, <1>4, CleanEnd

\* A run is refused only by rows it has not seen, and those came from a run that
\* has committed beside it.
LEMMA CleanRaise ==
  ASSUME ImportsInv, CleanInv, NEW w \in Workers, Raise(w)
  PROVE  CleanInv'
<1>1. PICK st \in Due(w) : Violates(w, st)
  BY DEF Raise
<1>2. Open(w) /\ db' = db /\ End(w, "refused")
  BY <1>1, InvOfRun DEF Raise
<1>3. IsHistory(fate) /\ DbRight(db, fate) /\ RunRight(db, fate, overlaps, run[w])
      /\ CleanRun(db, fate, overlaps, run[w]) /\ LinksFit(db)
  BY <1>2, InvOfRun DEF CleanInv
<1>4. ~Undisturbed(fate, overlaps, run[w].no)
  BY <1>1, <1>3, LoneRunPasses
<1>5. \E j \in DOMAIN fate : {run[w].no, j} \in overlaps /\ fate[j].how = "committed"
  BY <1>4 DEF Undisturbed
<1>6. Grows(db, db') /\ LinksFit(db')
  BY <1>2, <1>3, GrowsItself
<1> QED
  BY <1>2, <1>5, <1>6, CleanEnd

\* A run waits for another open one only.
LEMMA CleanAbort ==
  ASSUME ImportsInv, CleanInv, NEW w \in Workers, AbortDeadlock(w)
  PROVE  CleanInv'
<1>1. PICK v \in Workers : WaitsFor(w, v)
  BY DEF AbortDeadlock
<1>2. v # w /\ Open(v) /\ Due(w) # {}
  BY <1>1 DEF WaitsFor, Holds
<1>3. Open(w) /\ db' = db /\ End(w, "deadlocked")
  BY <1>2, InvOfRun DEF AbortDeadlock
<1>4. run[v].no # run[w].no /\ {run[w].no, run[v].no} \in overlaps
  BY <1>2, <1>3 DEF ImportsInv, FateRight, OpenTogether
<1>5. run[v].no \in DOMAIN fate
  BY <1>2, InvOfRun DEF RunRight, Standing
<1>6. Grows(db, db') /\ LinksFit(db')
  BY <1>3, GrowsItself DEF CleanInv
<1> QED
  BY <1>3, <1>4, <1>5, <1>6, CleanEnd

LEMMA CleanCrash ==
  ASSUME ImportsInv, CleanInv, NEW w \in Workers, Crash(w)
  PROVE  CleanInv'
<1>1. Open(w) /\ db' = db /\ End(w, "crashed")
  BY DEF Crash
<1>2. Grows(db, db') /\ LinksFit(db')
  BY <1>1, GrowsItself DEF CleanInv
<1> QED
  BY <1>1, <1>2, CleanEnd

LEMMA CleanNext ==
  ASSUME OneIdPerClub, OneIdPerFixture, SidesDiffer, ImportsInv, CleanInv, [Next]_vars
  PROVE  CleanInv'
<1>1. ASSUME NEW w \in Workers, Step(w) PROVE CleanInv'
  BY <1>1, CleanQuiet, CleanCommit, CleanRaise, CleanAbort DEF Step
<1>2. ASSUME NEW w \in Workers, Crash(w) PROVE CleanInv'
  BY <1>2, CleanCrash
<1>3. ASSUME NEW w \in Workers, NEW job \in Jobs, Start(w, job) PROVE CleanInv'
  BY <1>3, CleanStart
<1>4. ASSUME UNCHANGED vars PROVE CleanInv'
  BY <1>4 DEF vars, CleanInv, RefusedOnlyByRival, Open
<1> QED
  BY <1>1, <1>2, <1>3, <1>4 DEF Next, Done

\* An importer that has the database to itself gets through: the mapper and the
\* bootstrap insert no key they have not looked up, whatever feed or file they
\* import, whatever the imports and crashes before have left.  What an
\* IntegrityError or a deadlock takes is another run, open with this one, and
\* for the error one that has committed.
THEOREM LoneImportsPass ==
  ASSUME StartsFit, OneIdPerClub, OneIdPerFixture, SidesDiffer
  PROVE  Spec => []RefusedOnlyByRival
<1>1. Init => ImportsInv /\ CleanInv
  BY ImportsInit, CleanInit
<1>2. ImportsInv /\ CleanInv /\ [Next]_vars => (ImportsInv /\ CleanInv)'
  BY ImportsNext, CleanNext
<1>3. ImportsInv /\ CleanInv => RefusedOnlyByRival
  BY DEF CleanInv
<1> QED
  BY <1>1, <1>2, <1>3, PTL DEF Spec
=============================================================================
