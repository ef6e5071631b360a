------------------------- MODULE ConcurrentImports -------------------------
(***************************************************************************)
(* Imports on one PostgreSQL database, one after another and at the same   *)
(* time: the importers of FootballDataMapper and BootstrapHistorical as    *)
(* transactions under READ COMMITTED, which is what the engine of          *)
(* src/db.py and Session(engine) open.                                     *)
(*                                                                         *)
(* Every SELECT is a step with a snapshot of its own.  A run then works on *)
(* what it has read, in `session`, and sends the database what has changed *)
(* there since its last flush, `flushed`: the new rows, and of the others  *)
(* the changed columns only.  A statement waits for the transaction that   *)
(* has inserted the same unique key or updated the same row, and fails on  *)
(* a key that is committed.  What a run has sent nobody else sees before   *)
(* it commits.                                                             *)
(***************************************************************************)
EXTENDS CoreSchema, Naturals, Sequences

CONSTANTS Workers,   \* processes that run importers
          Jobs,      \* imports they may be started for, see below
          StartDBs,  \* databases the first run may find
          MaxRuns,   \* bound: runs in a behaviour
          IdsPerRun, \* ids set aside for each run
          Cleaned, Lowered   \* as in FootballDataMapper

\* A job is [kind |-> "mapper", year, rows], a feed of FootballDataMapper, or
\* [kind |-> "bootstrap", rows], with the rows BootstrapHistorical has parsed.

\* More ids than one turn of a loop takes.
IdsPerTurn == 20

ASSUME ImportsAssumption ==
  /\ MaxRuns \in Nat /\ IdsPerRun \in Nat
  /\ Cardinality(Workers) <= 2   \* see AbortDeadlock
  /\ \A d \in StartDBs : Sound(d) /\ \A id \in Ids(d) : id < IdsPerRun
  /\ \A job \in Jobs :
       /\ job.kind \in {"mapper", "bootstrap"}
       /\ job.rows # <<>> /\ job.rows \in Seq({job.rows[i] : i \in DOMAIN job.rows})
       /\ \A i \in DOMAIN job.rows : job.rows[i].at \in Int
       /\ IdsPerTurn * Len(job.rows) < IdsPerRun

VARIABLES db,        \* the committed rows
          run,       \* what each worker is doing
          fate,      \* history: what the runs started so far were, how they ended
          overlaps   \* history: the pairs of runs that were open together

vars == <<db, run, fate, overlaps>>

Mapper == INSTANCE FootballDataMapper
            WITH StartDBs <- {}, MaxRuns <- 0, Feeds <- {}, session <- None, pc <- None, row <- None,
                 feed <- None, runs <- None, last <- None
Bootstrap == INSTANCE BootstrapHistorical
            WITH StartDBs <- {}, MaxRuns <- 0, Files <- {}, Garbled <- {}, YearOf <- <<>>,
                 Bad <- None, rows <- None, session <- None, pc <- None, todo <- None,
                 runs <- None, last <- None

NoRun == [pc |-> "idle", queue |-> {}]
Open(w) == run[w].pc # "idle"

\* Ids come from sequences no two runs share.
FirstId(no) == IdsPerRun * no
RunOf(id) == id \div IdsPerRun

TablesOf(s) == [t \in Tables |-> s[t]]

-----------------------------------------------------------------------------
(* Statements *)

\* The columns of a known row that an UPDATE sets.
Changed(old, new) == [c \in {c \in DOMAIN new : new[c] # old[c]} |-> new[c]]

\* What takes the rows in `old` to those in `new`.
Statements(old, new) ==
  (UNION {{[table |-> t, insert |-> TRUE, id |-> r.id, columns |-> r] :
             r \in {r \in new[t] : r.id \notin IdsOf(old[t])}} : t \in Tables})
  \cup
  (UNION {{[table |-> t, insert |-> FALSE, id |-> r.id,
            columns |-> Changed(RowOf(old[t], r.id), r)] :
             r \in {r \in new[t] \ old[t] : r.id \in IdsOf(old[t])}} : t \in Tables})

\* The order of a flush: parents first, by table; of a table the updates and
\* then the inserts, each in the order of the ids.
FlushOrder == <<"seasons", "venues", "teams", "matches", "seasonTeams", "teamLinks",
                "stats", "matchLinks">>
Place(st) == CHOOSE i \in DOMAIN FlushOrder : FlushOrder[i] = st.table

Precedes(p, q) ==
  \/ Place(p) < Place(q)
  \/ p.table = q.table /\ ~p.insert /\ q.insert
  \/ p.table = q.table /\ (p.insert <=> q.insert) /\ p.id < q.id

\* A row of a table after the updates of it, each column as the last has set it.
Written(statements, t, r) ==
  LET Setting(c) == {i \in DOMAIN statements :
                       /\ ~statements[i].insert
                       /\ statements[i].table = t /\ statements[i].id = r.id
                       /\ c \in DOMAIN statements[i].columns}
  IN IF \A c \in DOMAIN r : Setting(c) = {} THEN r
     ELSE [c \in DOMAIN r |-> IF Setting(c) = {} THEN r[c]
                              ELSE statements[Highest(Setting(c))].columns[c]]

Inserted(statements, t) ==
  {statements[i].columns :
     i \in {i \in DOMAIN statements : statements[i].insert /\ statements[i].table = t}}

\* The rows after the statements, in their order.
Applied(d, statements) ==
  [t \in Tables |-> {Written(statements, t, r) : r \in d[t] \cup Inserted(statements, t)}]

\* The unique keys of a row.
Keys(t, r) ==
  CASE t = "seasons"     -> {<<r.year>>}
    [] t = "matches"     -> {NaturalKey(r)}
    [] t = "seasonTeams" -> {<<r.season, r.team>>}
    [] t = "teamLinks"   -> {<<"team", r.team, r.source>>, <<"source", r.ext, r.source>>}
    [] t = "matchLinks"  -> {<<"match", r.match, r.source>>, <<"source", r.ext, r.source>>}
    [] OTHER             -> {}

SameKey(st, table, r) ==
  st.insert /\ st.table = table /\ Keys(table, r) \cap Keys(table, st.columns) # {}

\* The statement of a flush that is sent next, and those that have been sent.
Due(w) == {st \in run[w].queue : \A q \in run[w].queue : ~Precedes(q, st)}
Sent(w) == {run[w].sent[i] : i \in DOMAIN run[w].sent}

\* A committed row, or one of the run's own, has a unique key of the new row; or
\* the CHECK on the sides of a match fails.
Violates(w, st) ==
  \/ \E r \in db[st.table] : SameKey(st, st.table, r)
  \/ \E own \in Sent(w) : own.insert /\ SameKey(st, own.table, own.columns)
  \/ st.insert /\ st.table = "matches" /\ st.columns.home = st.columns.away

\* Another open transaction has sent a row with the same key, or updated the same
\* row.  (A row that refers to another locks only its key, which nobody updates.)
Holds(v, w, st) ==
  /\ v # w /\ Open(v)
  /\ \E other \in Sent(v) :
       \/ other.insert /\ SameKey(st, other.table, other.columns)
       \/ ~other.insert /\ ~st.insert /\ other.table = st.table /\ other.id = st.id

WaitsFor(w, v) == \E st \in Due(w) : ~Violates(w, st) /\ Holds(v, w, st)

-----------------------------------------------------------------------------
(* Reading *)

\* The SELECTs of each importer, by table, in the order of the code.
Plan(kind) ==
  CASE kind = "mapper"    -> <<"season", "teamLinks", "teams", "venues", "matchLinks", "matches">>
    [] kind = "bootstrap" -> <<"seasons", "teams", "venues", "matches", "seasonTeams">>

SeasonsOf(year) == {s \in db.seasons : s.year = year}

\* A run that has something to import opens its session.
Start(w, job) ==
  /\ ~Open(w)
  /\ Len(fate) < MaxRuns
  /\ run' = [run EXCEPT ![w] =
               [pc |-> "reading", no |-> Len(fate) + 1, job |-> job, step |-> 1,
                row |-> 1, session |-> EmptyDB, flushed |-> EmptyDB,
                queue |-> {}, sent |-> <<>>]]
  /\ fate' = Append(fate, [kind |-> job.kind, how |-> "open"])
  /\ overlaps' = overlaps \cup {{run[v].no, Len(fate) + 1} : v \in {v \in Workers : Open(v)}}
  /\ UNCHANGED db

\* A row that is in the session already keeps the values it was loaded with.
Learn(rows, selected) == rows \cup {r \in selected : r.id \notin IdsOf(rows)}

\* The rows a SELECT adds to what the run knows.  A link loads its match with
\* it, which is one SELECT more in the code; a team it loads is never updated.
Selected(w, table) ==
  IF table = "matchLinks"
    THEN LET linked == {l.match : l \in Mapper!OfSource(db.matchLinks)}
         IN [EmptyDB EXCEPT !.matchLinks = db.matchLinks,
                            !.matches = {m \in db.matches : m.id \in linked}]
    ELSE [EmptyDB EXCEPT ![table] = db[table]]

\* The season is brought up to date as soon as it is read: the next SELECT
\* flushes it first.
Read(w) ==
  /\ run[w].pc = "reading" /\ run[w].queue = {}
  /\ LET r     == run[w]
         table == Plan(r.job.kind)[r.step]
         seen  == IF table = "season"
                    THEN [EmptyDB EXCEPT !.seasons = SeasonsOf(r.job.year)]
                    ELSE Selected(w, table)
         known == [t \in Tables |-> Learn(r.session[t], seen[t])]
         after == IF table = "season" /\ r.job.kind = "mapper"
                    THEN [known EXCEPT !.seasons = {Mapper!SeasonAfter(r.job, FirstId(r.no))}]
                    ELSE known
     IN run' = [run EXCEPT ![w].session = after, ![w].flushed = after,
                           ![w].queue = Statements(known, after),
                           ![w].step = IF r.step < Len(Plan(r.job.kind)) THEN r.step + 1 ELSE 1,
                           ![w].pc = IF r.step < Len(Plan(r.job.kind)) THEN @ ELSE "read"]
  /\ UNCHANGED <<db, fate, overlaps>>

\* The session a run enters its loop with: rows, dictionaries made of them.
Sessions(r) ==
  LET d == TablesOf(r.session)
      season == CHOOSE s \in d.seasons : s.year = r.job.year
  IN IF r.job.kind = "mapper"
       THEN {Joined([open |-> TRUE, nextId |-> FirstId(r.no) + 1, season |-> season.id],
                    Joined(dictionaries, d)) : dictionaries \in Mapper!Dictionaries(d)}
       ELSE {Joined([open |-> TRUE, nextId |-> FirstId(r.no)], Joined(lookups, d)) :
               lookups \in Bootstrap!Lookups(d)}

EnterLoop(w) ==
  /\ run[w].pc = "read"
  /\ \E s \in Sessions(run[w]) :
       run' = [run EXCEPT ![w].session = s, ![w].pc = "rows"]
  /\ UNCHANGED <<db, fate, overlaps>>

-----------------------------------------------------------------------------
(* The loop: between two flushes of a turn lies one lookup *)

Lookups(kind) == IF kind = "mapper" THEN 4 ELSE 5

\* The session after the i-th lookup of the turn over a row.
After(job, s, raw, i) ==
  CASE job.kind = "mapper" ->
         (CASE i = 1 -> Mapper!ResolveTeam(s, raw.home)
            [] i = 2 -> Mapper!ResolveTeam(s, raw.away)
            [] i = 3 -> Mapper!ResolveVenue(s, raw.venue)
            [] i = 4 -> Mapper!UpsertMatch(s, raw))
    [] job.kind = "bootstrap" ->
         (CASE i = 1 -> Bootstrap!WithSeason(s, job.rows, raw)
            [] i = 2 -> Bootstrap!WithTeam(s, raw.home)
            [] i = 3 -> Bootstrap!WithTeam(s, raw.away)
            [] i = 4 -> Bootstrap!WithVenue(s, raw.venue)
            \* the rest: the lookups before it find what they find again
            [] i = 5 -> Bootstrap!AfterRow(s, job.rows, raw))

\* The tables whose new rows are flushed at once.
FlushedAtOnce(kind) ==
  {"seasons", "teams", "venues"} \cup (IF kind = "mapper" THEN {"matches"} ELSE {})

InLoop(w) ==
  run[w].pc = "rows" /\ run[w].queue = {} /\ run[w].row <= Len(run[w].job.rows)

\* A mapper passes over a fixture without a matchday.
PassedOver(w) ==
  run[w].job.kind = "mapper" /\ run[w].job.rows[run[w].row].matchday = None

Skip(w) ==
  /\ InLoop(w) /\ PassedOver(w)
  /\ run' = [run EXCEPT ![w].row = @ + 1]
  /\ UNCHANGED <<db, fate, overlaps>>

\* One lookup.  If it has made a row that is flushed at once, the row and
\* whatever was pending go out; what the lookup adds to it stays pending.
Turn(w) ==
  /\ InLoop(w) /\ ~PassedOver(w)
  /\ LET r == run[w]
         last == r.step = Lookups(r.job.kind)
         after == After(r.job, r.session, r.job.rows[r.row], r.step)
         made == {t \in FlushedAtOnce(r.job.kind) :
                    IdsOf(after[t]) # IdsOf(r.session[t])}
         shown == [t \in Tables |-> IF t \in made THEN after[t] ELSE r.session[t]]
     IN run' = [run EXCEPT
                  ![w].session = after,
                  ![w].queue = IF made = {} THEN {} ELSE Statements(r.flushed, shown),
                  ![w].flushed = IF made = {} THEN @ ELSE shown,
                  ![w].step = IF last THEN 1 ELSE r.step + 1,
                  ![w].row = IF last THEN r.row + 1 ELSE r.row]
  /\ UNCHANGED <<db, fate, overlaps>>

\* The flush of the commit.
Close(w) ==
  /\ run[w].pc = "rows" /\ run[w].queue = {}
  /\ run[w].row > Len(run[w].job.rows)
  /\ run' = [run EXCEPT ![w].queue = Statements(run[w].flushed, TablesOf(run[w].session)),
                        ![w].flushed = TablesOf(run[w].session),
                        ![w].pc = "closing"]
  /\ UNCHANGED <<db, fate, overlaps>>

-----------------------------------------------------------------------------
(* The server *)

\* The next statement goes through.
Execute(w) ==
  \E st \in Due(w) :
    /\ ~Violates(w, st)
    /\ \A v \in Workers : ~Holds(v, w, st)
    /\ run' = [run EXCEPT ![w].queue = @ \ {st}, ![w].sent = Append(@, st)]
    /\ UNCHANGED <<db, fate, overlaps>>

End(w, how) ==
  /\ run' = [run EXCEPT ![w] = NoRun]
  /\ fate' = [fate EXCEPT ![run[w].no].how = how]
  /\ UNCHANGED overlaps

Commit(w) ==
  /\ run[w].pc = "closing" /\ run[w].queue = {}
  /\ db' = Applied(db, run[w].sent)
  /\ End(w, "committed")

\* IntegrityError: nobody catches it, the with block rolls back.
Raise(w) ==
  /\ \E st \in Due(w) : Violates(w, st)
  /\ End(w, "refused")
  /\ UNCHANGED db

\* Of two transactions that wait for one another the server aborts one.
AbortDeadlock(w) ==
  /\ \E v \in Workers : WaitsFor(w, v) /\ WaitsFor(v, w)
  /\ End(w, "deadlocked")
  /\ UNCHANGED db

\* The process or its connection dies.
Crash(w) ==
  /\ Open(w)
  /\ End(w, "crashed")
  /\ UNCHANGED db

-----------------------------------------------------------------------------
Init ==
  /\ db \in StartDBs
  /\ run = [w \in Workers |-> NoRun]
  /\ fate = <<>>
  /\ overlaps = {}

Step(w) ==
  \/ Read(w) \/ EnterLoop(w) \/ Skip(w) \/ Turn(w) \/ Close(w)
  \/ Execute(w) \/ Commit(w) \/ Raise(w) \/ AbortDeadlock(w)

Done == Len(fate) = MaxRuns /\ (\A w \in Workers : ~Open(w)) /\ UNCHANGED vars

Next ==
  \/ \E w \in Workers : Step(w) \/ Crash(w) \/ \E job \in Jobs : Start(w, job)
  \/ Done

Spec == Init /\ [][Next]_vars

-----------------------------------------------------------------------------
(* Properties *)

\* Shapes; whatever interleaves, the committed rows satisfy models.py, and no
\* row refers to one that its run did not commit.
TypeOK ==
  /\ DOMAIN db = Tables /\ SchemaHolds(db) /\ ReferencesHold(db)
  /\ \A w \in Workers : run[w].pc \in {"idle", "reading", "read", "rows", "closing"}
  /\ Len(fate) <= MaxRuns
  /\ {i \in DOMAIN fate : fate[i].how = "open"} = {run[w].no : w \in {w \in Workers : Open(w)}}
  /\ overlaps \subseteq {{i, j} : i, j \in DOMAIN fate}

\* No constraint guards teams.official_name, and two mappers may both find a
\* club missing and insert it.  The link to its external id, which they insert
\* next, is what only one of them gets through: if a club is stored twice, in
\* whatever spellings, a bootstrap has stored it once.
StoredBy(r) == IF RunOf(r.id) = 0 THEN "found" ELSE fate[RunOf(r.id)].kind

ClubsStayOne ==
  \A t, u \in db.teams :
    t # u /\ Lowered[t.name] = Lowered[u.name] => "bootstrap" \in {StoredBy(t), StoredBy(u)}

\* Two runs that both committed while the other was open.
Rivals(i, j) == {i, j} \in overlaps /\ fate[i].how = "committed" /\ fate[j].how = "committed"
SomeRivals == \E i, j \in DOMAIN fate : i # j /\ Rivals(i, j)

\* Two clubs, or two stadiums, of one spelling come from two runs at once, never
\* from importers that ran one after the other, whichever they were.
TwinsOverlapped ==
  \A rows \in {db.teams, db.venues} : \A r, s \in rows :
    r.name = s.name /\ r # s => Rivals(RunOf(r.id), RunOf(s.id))

\* An import that has the database to itself is never refused, whatever the
\* other importer and the crashes before it have left: if it is, a run that was
\* open with it has committed; and if it is aborted, one was open with it.
RefusedOnlyByRival ==
  \A i \in DOMAIN fate :
    /\ fate[i].how = "refused" =>
         \E j \in DOMAIN fate : {i, j} \in overlaps /\ fate[j].how = "committed"
    /\ fate[i].how = "deadlocked" => \E j \in DOMAIN fate \ {i} : {i, j} \in overlaps

\* The season's dates cover its fixtures through mapper and bootstrap runs in
\* any order; a bound is lost only between two runs at once, which both widen
\* the row they read.
CoversUnlessRivals == SomeRivals \/ DatesCoverMatches(db)

\* A stored fixture is as one run reported it (or as it was found), kick-off,
\* stadium, status and score together.  Only two runs at once may mix two
\* reports: each writes just the columns it sees changed.
Fixture(matchday, home, away) == <<matchday, Lowered[home], Lowered[away]>>
FactsIn(d) ==
  {<<Fixture(m.matchday, NameOf(d.teams, m.home), NameOf(d.teams, m.away)),
     m.at, NameOf(d.venues, m.venue), m.status, m.score>> : m \in d.matches}

FactsOf(job) ==
  IF job.kind = "mapper"
    THEN {<<Fixture(r.matchday, Cleaned[r.home.name], Cleaned[r.away.name]), r.at,
            IF Mapper!Venueless(r.venue) THEN None ELSE Cleaned[r.venue],
            Mapper!MapStatus(r.status), r.score>> : r \in Mapper!BatchRows(job)}
    ELSE {<<Fixture(r.matchday, r.home, r.away), r.at, r.venue, "finished", r.score>> :
            r \in Mapper!BatchRows(job)}

EveryFact == UNION ({FactsIn(d) : d \in StartDBs} \cup {FactsOf(job) : job \in Jobs})

FixturesWholeUnlessRivals == SomeRivals \/ FactsIn(db) \subseteq EveryFact
=============================================================================
