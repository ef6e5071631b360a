--------------------- MODULE UndisturbedImports_proofs ----------------------
(***************************************************************************)
(* Theorems of ConcurrentImports about the columns an import updates, for  *)
(* any jobs, any sound database and any number of runs: a run that no other*)
(* run disturbs stores exactly what it has worked out, so that the dates of*)
(* seasons and the facts of fixtures go wrong only where two runs overlap. *)
(***************************************************************************)
EXTENDS ConcurrentImports_proofs

-----------------------------------------------------------------------------
(* What a lone run's statements make of the database *)

Sets(st, t, id, c) == ~st.insert /\ st.table = t /\ st.id = id /\ c \in DOMAIN st.columns
InsertedBy(statements, t) == {st.columns : st \in {st \in statements : st.insert /\ st.table = t}}
InOrder(sent) == {sent[i] : i \in DOMAIN sent}

\* The rows as of the last flush are what the statements make of committed rows
\* and of those they insert, column by column: as it was sent last, unless it is
\* still to be sent.
Replays(d, flushed, queue, sent) ==
  /\ \A st \in queue \cup InOrder(sent) : ~st.insert => st.id \in IdsOf(flushed[st.table])
  /\ \A t \in {"seasons", "matches"} : \A y \in flushed[t] :
       \E x \in d[t] \cup InsertedBy(queue \cup InOrder(sent), t) :
         /\ Alike(t, x, y)
         /\ \A c \in Mutable(t) :
              /\ \A st \in queue : Sets(st, t, y.id, c) => st.columns[c] = y[c]
              /\ (\A st \in queue : ~Sets(st, t, y.id, c)) => Written(sent, t, x)[c] = y[c]

\* The database as the commit of a session will leave it.
World(d, s) == [t \in Tables |-> s[t] \cup {x \in d[t] : x.id \notin IdsOf(s[t])}]

Covers(q, at) == at \in Int /\ q.start <= UtcDate(at) /\ LocalDate(at) <= q.end
Covering(d) ==
  \A m \in d["matches"] : \A q \in d["seasons"] : q.id = m.season => Covers(q, m.at)

FactsWhole(d) == FactsIn(d) \subseteq EveryFact

\* What the feeds report under the id of a link is what is linked: the club, by
\* its folded name; the fixture, unless it has no matchday yet.
ClubTold(d, l) ==
  \E t \in d["teams"] :
    /\ t.id = l.team
    /\ \A side \in Clubs : side.id = l.ext => Lowered[Cleaned[side.name]] = Lowered[t.name]

ReportedOnlyAs(ext, year, matchday, home, away) ==
  \A job \in Jobs : job.kind = "mapper" =>
    \A i \in DOMAIN job.rows :
      LET raw == job.rows[i]
      IN raw.id = ext /\ raw.matchday # None =>
           job.year = year /\ raw.matchday = matchday /\ raw.home.id = home /\ raw.away.id = away

FixtureTold(d, l) ==
  \E m \in d["matches"], q \in d["seasons"], h, a \in d["teamLinks"] :
    /\ m.id = l.match /\ q.id = m.season
    /\ SideLink(h, m.home) /\ SideLink(a, m.away)
    /\ ReportedOnlyAs(l.ext, q.year, m.matchday, h.ext, a.ext)

LinksTell(d) ==
  /\ \A l \in d["teamLinks"] : l.source = FootballData => ClubTold(d, l)
  /\ \A l \in d["matchLinks"] : l.source = FootballData => FixtureTold(d, l)

\* A mapper's season covers its feed from the start.
FeedCovered(r) ==
  r.job.kind = "mapper" /\ ~(r.pc = "reading" /\ r.step = 1) =>
    \A q \in r.session["seasons"] : \A i \in DOMAIN r.job.rows : Covers(q, r.job.rows[i].at)

VenuesMirrored(s) ==
  \A n \in DOMAIN s.venueByName : \E v \in s["venues"] : v.id = s.venueByName[n] /\ v.name = n

ExactRun(d, how, pairs, r) ==
  /\ FeedCovered(r)
  /\ InLoopPhase(r) => VenuesMirrored(r.session) /\ LinksTell(Concat(d, r.session))
  /\ Undisturbed(how, pairs, r.no) =>
       /\ Replays(d, r.flushed, r.queue, r.sent)
       /\ Covering(d) => Covering(World(d, r.session))
       /\ FactsWhole(d) => FactsWhole(World(d, r.session))

\* What the links found at the start say is what the feeds report; and every
\* match found is within the dates of its season.
StartsTold == \A d \in StartDBs : LinksTell(d)
StartsCovered ==
  \A d \in StartDBs : DatesCoverMatches(d) /\ \A m \in d["matches"] : m.at \in Int

ExactInv ==
  /\ LinksTell(db)
  /\ StartsCovered => SomeRivals \/ Covering(db)
  /\ SomeRivals \/ FactsWhole(db)
  /\ \A w \in Workers : Open(w) => ExactRun(db, fate, overlaps, run[w])

\* An id is one club's, under one name, and one fixture's.
OneClubPerId ==
  \A a, b \in Clubs : a.id = b.id => Lowered[Cleaned[a.name]] = Lowered[Cleaned[b.name]]

OneFixturePerId ==
  \A j, k \in Jobs : j.kind = "mapper" /\ k.kind = "mapper" =>
    \A a \in DOMAIN j.rows, b \in DOMAIN k.rows :
      LET p == j.rows[a]
          q == k.rows[b]
      IN p.id = q.id /\ p.matchday # None /\ q.matchday # None =>
           /\ j.year = k.year /\ p.matchday = q.matchday
           /\ p.home.id = q.home.id /\ p.away.id = q.away.id

-----------------------------------------------------------------------------
(* The columns that statements write *)

Setters(sent, t, id, c) == {i \in DOMAIN sent : Sets(sent[i], t, id, c)}

\* A column as the last statement that sets it has set it.
LastOf(sent, t, x, c) ==
  LET setters == Setters(sent, t, x.id, c)
  IN IF setters = {} THEN x[c] ELSE sent[Highest(setters)].columns[c]

LEMMA WrittenColumn ==
  ASSUME NEW all, NEW t, NEW x, NEW c \in DOMAIN x
  PROVE  DOMAIN Written(all, t, x) = DOMAIN x /\ Written(all, t, x)[c] = LastOf(all, t, x, c)
<1> DEFINE Setting(k) == {i \in DOMAIN all :
                            /\ ~all[i].insert
                            /\ all[i].table = t /\ all[i].id = x.id
                            /\ k \in DOMAIN all[i].columns}
           Now(k) == IF Setting(k) = {} THEN x[k] ELSE all[Highest(Setting(k))].columns[k]
<1>1. Written(all, t, x) = IF \A k \in DOMAIN x : Setting(k) = {} THEN x
                            ELSE [k \in DOMAIN x |-> Now(k)]
  BY DEF Written
<1>2. Setting(c) = Setters(all, t, x.id, c)
  BY DEF Setters, Sets
<1> HIDE DEF Setting
<1>3. CASE \A k \in DOMAIN x : Setting(k) = {}
  BY <1>1, <1>2, <1>3 DEF LastOf
<1>4. CASE ~\A k \in DOMAIN x : Setting(k) = {}
  <2>1. Written(all, t, x) = [k \in DOMAIN x |-> Now(k)]
    BY <1>1, <1>4
  <2>2. Written(all, t, x)[c] = Now(c)
    BY <2>1
  <2> QED
    BY <1>2, <2>1, <2>2 DEF LastOf
<1> QED
  BY <1>3, <1>4

\* A column that no statement sets is as it was.
LEMMA WrittenUnset ==
  ASSUME NEW sent, NEW t, NEW x, NEW c \in DOMAIN x,
         \A st \in InOrder(sent) : ~Sets(st, t, x.id, c)
  PROVE  Written(sent, t, x)[c] = x[c]
<1>1. Setters(sent, t, x.id, c) = {}
  BY DEF Setters, InOrder
<1> QED
  BY <1>1, WrittenColumn DEF LastOf

\* One statement more is the last to set its columns.
LEMMA WrittenNext ==
  ASSUME NEW S, NEW sent \in Seq(S), NEW st, NEW t, NEW x, NEW c \in DOMAIN x
  PROVE  Written(Append(sent, st), t, x)[c] =
           IF Sets(st, t, x.id, c) THEN st.columns[c] ELSE Written(sent, t, x)[c]
<1> DEFINE more == Append(sent, st)
           n == Len(sent) + 1
           old == Setters(sent, t, x.id, c)
           new == Setters(more, t, x.id, c)
<1>1. /\ n \in Nat /\ n >= 1 /\ DOMAIN sent = 1..(n - 1) /\ DOMAIN more = 1..n
      /\ more[n] = st /\ \A i \in 1..(n - 1) : more[i] = sent[i]
  <2>1. sent \in Seq(S \cup {st}) /\ st \in S \cup {st}
    BY SeqDef
  <2>2. Len(sent) \in Nat /\ DOMAIN sent = 1..Len(sent)
    BY LenProperties
  <2>3. /\ Len(more) = Len(sent) + 1
        /\ \A i \in 1..Len(sent) : more[i] = sent[i]
        /\ more[Len(sent) + 1] = st
        /\ more \in Seq(S \cup {st})
    BY <2>1, AppendProperties
  <2>4. DOMAIN more = 1..Len(more)
    BY <2>3, LenProperties
  <2> QED
    BY <2>2, <2>3, <2>4
<1> HIDE DEF more, n
<1>2. new = old \cup (IF Sets(st, t, x.id, c) THEN {n} ELSE {})
  <2>1. \A i : i \in 1..n <=> i \in 1..(n - 1) \/ i = n
    BY <1>1
  <2> QED
    BY <1>1, <2>1 DEF Setters
<1>3. old \subseteq 1..(n - 1)
  BY <1>1 DEF Setters
<1>6. /\ Written(sent, t, x)[c] = IF old = {} THEN x[c] ELSE sent[Highest(old)].columns[c]
      /\ Written(more, t, x)[c] = IF new = {} THEN x[c] ELSE more[Highest(new)].columns[c]
  <2>1. Written(sent, t, x)[c] = LastOf(sent, t, x, c)
    BY WrittenColumn
  <2>2. Written(more, t, x)[c] = LastOf(more, t, x, c)
    BY WrittenColumn
  <2> QED
    BY <2>1, <2>2 DEF LastOf
<1> HIDE DEF old, new
<1>4. CASE Sets(st, t, x.id, c)
  <2>1. n \in new /\ \A i \in new : n >= i /\ i \in Int
    BY <1>1, <1>2, <1>3, <1>4
  <2>2. /\ Highest(new) \in new
        /\ \A i \in new : Highest(new) >= i
    BY <2>1 DEF Highest
  <2>3. Highest(new) = n
    <3>1. Highest(new) >= n /\ n >= Highest(new) /\ Highest(new) \in Int
      BY <2>1, <2>2
    <3> QED
      BY <1>1, <3>1
  <2>4. Written(more, t, x)[c] = more[Highest(new)].columns[c]
    <3>1. new # {}
      BY <2>1
    <3> QED
      BY <1>6, <3>1
  <2> QED
    BY <1>1, <1>4, <2>3, <2>4 DEF more
<1>5. CASE ~Sets(st, t, x.id, c)
  <2>1. new = old
    BY <1>2, <1>5
  <2>2. CASE old = {}
    BY <1>5, <1>6, <2>1, <2>2 DEF more
  <2>3. CASE old # {}
    <3>1. IsFiniteSet(old)
      <4>1. IsFiniteSet(1..(n - 1))
        BY <1>1, FS_Interval
      <4> QED
        BY <1>3, <4>1, FS_Subset
    <3>2. Highest(old) \in old
      BY <1>1, <1>3, <2>3, <3>1, HighestOfFinite
    <3>3. more[Highest(old)] = sent[Highest(old)]
      BY <1>1, <1>3, <3>2
    <3>4. /\ Written(more, t, x)[c] = more[Highest(new)].columns[c]
          /\ Written(sent, t, x)[c] = sent[Highest(old)].columns[c]
      BY <1>6, <2>1, <2>3
    <3> QED
      BY <1>5, <2>1, <3>3, <3>4 DEF more
  <2> QED
    BY <2>2, <2>3
<1> QED
  BY <1>4, <1>5

\* Two versions of a row with the same values in every column that may change.
LEMMA SameVersion ==
  ASSUME NEW t \in {"seasons", "matches"}, NEW x, NEW y, Shaped(t, x), Shaped(t, y)
  PROVE  /\ Mutable(t) \subseteq DOMAIN x
         /\ Alike(t, x, y) /\ (\A c \in Mutable(t) : x[c] = y[c]) => x = y
<1>1. CASE t = "seasons"
  <2>1. Mutable(t) = {"start", "end", "status"}
    BY <1>1 DEF Mutable
  <2>2. /\ x = [id |-> x.id, year |-> x.year, start |-> x.start, end |-> x.end,
                status |-> x.status]
        /\ y = [id |-> y.id, year |-> y.year, start |-> y.start, end |-> y.end,
                status |-> y.status]
    BY <1>1 DEF Shaped
  <2>3. DOMAIN x = {"id", "year", "start", "end", "status"}
    BY <2>2
  <2>4. ASSUME Alike(t, x, y), \A c \in Mutable(t) : x[c] = y[c]
        PROVE  x = y
    <3>1. x.id = y.id /\ x.year = y.year
      BY <1>1, <2>4 DEF Alike, Fixed
    <3>2. x.start = y.start /\ x.end = y.end /\ x.status = y.status
      BY <2>1, <2>4
    <3> QED
      BY <2>2, <3>1, <3>2
  <2> QED
    BY <2>1, <2>3, <2>4
<1>2. CASE t = "matches"
  <2>1. Mutable(t) = {"at", "venue", "status", "score"}
    BY <1>2 DEF Mutable
  <2>2. /\ x = [id |-> x.id, season |-> x.season, matchday |-> x.matchday,
                home |-> x.home, away |-> x.away, at |-> x.at,
                venue |-> x.venue, status |-> x.status, score |-> x.score]
        /\ y = [id |-> y.id, season |-> y.season, matchday |-> y.matchday,
                home |-> y.home, away |-> y.away, at |-> y.at,
                venue |-> y.venue, status |-> y.status, score |-> y.score]
    BY <1>2 DEF Shaped
  <2>3. DOMAIN x = {"id", "season", "matchday", "home", "away", "at", "venue", "status", "score"}
    BY <2>2
  <2>4. ASSUME Alike(t, x, y), \A c \in Mutable(t) : x[c] = y[c]
        PROVE  x = y
    <3>1. /\ x.id = y.id /\ x.season = y.season /\ x.matchday = y.matchday
          /\ x.home = y.home /\ x.away = y.away
      BY <1>2, <2>4 DEF Alike, Fixed, NaturalKey
    <3>2. x.at = y.at /\ x.venue = y.venue /\ x.status = y.status /\ x.score = y.score
      BY <2>1, <2>4
    <3> QED
      BY <2>2, <3>1, <3>2
  <2> QED
    BY <2>1, <2>3, <2>4
<1> QED
  BY <1>1, <1>2

-----------------------------------------------------------------------------
(* What was sent makes the rows of the last flush *)

\* A committed row that a run gets to know is one it has not updated.
LEMMA LearnReplays ==
  ASSUME NEW d, ColumnsHold(d), NEW old, NEW sent, Replays(d, old, {}, sent),
         NEW seen, \A t \in Tables : seen[t] \subseteq d[t],
         NEW new, \A t \in Tables : new[t] = Learn(old[t], seen[t]),
         \A st \in InOrder(sent) : st.table \in Tables
  PROVE  Replays(d, new, {}, sent)
<1>1. \A t \in Tables : /\ old[t] \subseteq new[t]
                        /\ IdsOf(old[t]) \subseteq IdsOf(new[t])
                        /\ \A y \in new[t] : y \in old[t] \/ (y \in d[t] /\ y.id \notin IdsOf(old[t]))
  BY DEF Learn, IdsOf
<1>2. \A st \in {} \cup InOrder(sent) : ~st.insert => st.id \in IdsOf(old[st.table])
  BY DEF Replays
<1>3. ASSUME NEW t \in {"seasons", "matches"}, NEW y \in new[t]
      PROVE  \E x \in d[t] \cup InsertedBy({} \cup InOrder(sent), t) :
               /\ Alike(t, x, y)
               /\ \A c \in Mutable(t) :
                    /\ \A st \in {} : Sets(st, t, y.id, c) => st.columns[c] = y[c]
                    /\ (\A st \in {} : ~Sets(st, t, y.id, c)) => Written(sent, t, x)[c] = y[c]
  <2>0. t \in Tables
    BY TableNames
  <2>1. CASE y \in old[t]
    BY <2>1 DEF Replays
  <2>2. CASE y \in d[t] /\ y.id \notin IdsOf(old[t])
    <3>1. Shaped(t, y)
      BY <2>0, <2>2, ColumnsByRow
    <3>2. Mutable(t) \subseteq DOMAIN y
      BY <3>1, SameVersion
    <3>3. ASSUME NEW c \in Mutable(t)
          PROVE  Written(sent, t, y)[c] = y[c]
      <4>1. \A st \in InOrder(sent) : ~Sets(st, t, y.id, c)
        BY <1>2, <2>2 DEF Sets
      <4> QED
        BY <3>2, <4>1, WrittenUnset
    <3>4. Alike(t, y, y)
      BY AlikeItself
    <3> QED
      BY <2>2, <3>3, <3>4
  <2> QED
    BY <1>1, <2>0, <2>1, <2>2
<1>4. \A st \in {} \cup InOrder(sent) : ~st.insert => st.id \in IdsOf(new[st.table])
  BY <1>1, <1>2
<1> QED
  BY <1>3, <1>4 DEF Replays

\* A statement that goes through is to be sent no more.
LEMMA ExecuteReplays ==
  ASSUME NEW d, ColumnsHold(d), NEW S, NEW sent \in Seq(S), NEW queue, NEW st \in queue,
         NEW rows, Replays(d, rows, queue, sent),
         \A t \in {"seasons", "matches"} :
           \A x \in InsertedBy(queue \cup InOrder(sent), t) : Shaped(t, x)
  PROVE  Replays(d, rows, queue \ {st}, Append(sent, st))
<1> DEFINE rest == queue \ {st}
           more == Append(sent, st)
<1>1. InOrder(more) = InOrder(sent) \cup {st}
  <2>1. sent \in Seq(S \cup {st}) /\ st \in S \cup {st}
    BY SeqDef
  <2>2. Len(sent) \in Nat /\ DOMAIN sent = 1..Len(sent)
    BY LenProperties
  <2>3. /\ Len(more) = Len(sent) + 1
        /\ \A i \in 1..Len(sent) : more[i] = sent[i]
        /\ more[Len(sent) + 1] = st
        /\ more \in Seq(S \cup {st})
    BY <2>1, AppendProperties
  <2>4. DOMAIN more = 1..(Len(sent) + 1)
    BY <2>3, LenProperties
  <2> HIDE DEF more
  <2>5. \A i : i \in 1..(Len(sent) + 1) <=> i \in 1..Len(sent) \/ i = Len(sent) + 1
    BY <2>2
  <2> QED
    BY <2>2, <2>3, <2>4, <2>5 DEF InOrder
<1>2. rest \cup InOrder(more) = queue \cup InOrder(sent)
  BY <1>1
<1>3. \A s \in rest \cup InOrder(more) : ~s.insert => s.id \in IdsOf(rows[s.table])
  BY <1>2 DEF Replays
<1>4. ASSUME NEW t \in {"seasons", "matches"}, NEW y \in rows[t]
      PROVE  \E x \in d[t] \cup InsertedBy(rest \cup InOrder(more), t) :
               /\ Alike(t, x, y)
               /\ \A c \in Mutable(t) :
                    /\ \A s \in rest : Sets(s, t, y.id, c) => s.columns[c] = y[c]
                    /\ (\A s \in rest : ~Sets(s, t, y.id, c)) => Written(more, t, x)[c] = y[c]
  <2>1. PICK x \in d[t] \cup InsertedBy(queue \cup InOrder(sent), t) :
               /\ Alike(t, x, y)
               /\ \A c \in Mutable(t) :
                    /\ \A s \in queue : Sets(s, t, y.id, c) => s.columns[c] = y[c]
                    /\ (\A s \in queue : ~Sets(s, t, y.id, c)) => Written(sent, t, x)[c] = y[c]
    BY DEF Replays
  <2>2. Mutable(t) \subseteq DOMAIN x
    <3>1. Shaped(t, x)
      BY <2>1, TableNames, ColumnsByRow
    <3> QED
      BY <3>1, SameVersion
  <2>3. x.id = y.id
    BY <2>1 DEF Alike
  <2>4. ASSUME NEW c \in Mutable(t), \A s \in rest : ~Sets(s, t, y.id, c)
        PROVE  Written(more, t, x)[c] = y[c]
    <3>1. Written(more, t, x)[c] = IF Sets(st, t, x.id, c) THEN st.columns[c]
                                   ELSE Written(sent, t, x)[c]
      BY <2>2, WrittenNext
    <3>2. CASE Sets(st, t, y.id, c)
      BY <2>1, <2>3, <3>1, <3>2
    <3>3. CASE ~Sets(st, t, y.id, c)
      <4>1. \A s \in queue : ~Sets(s, t, y.id, c)
        BY <2>4, <3>3
      <4> QED
        BY <2>1, <2>3, <3>1, <3>3, <4>1
    <3> QED
      BY <3>2, <3>3
  <2>5. \A c \in Mutable(t) : \A s \in rest : Sets(s, t, y.id, c) => s.columns[c] = y[c]
    BY <2>1
  <2> HIDE DEF rest, more
  <2> QED
    BY <1>2, <2>1, <2>4, <2>5
<1> HIDE DEF rest, more
<1>5. Replays(d, rows, rest, more)
  BY <1>3, <1>4 DEF Replays
<1> QED
  BY <1>5 DEF rest, more

\* The two kinds of statements of a flush.
NewRow(t, y) == [table |-> t, insert |-> TRUE, id |-> y.id, columns |-> y]
NewValues(old, t, y) ==
  [table |-> t, insert |-> FALSE, id |-> y.id, columns |-> Changed(RowOf(old[t], y.id), y)]

LEMMA StatementsAre ==
  ASSUME NEW old, NEW new
  PROVE  /\ \A st \in Statements(old, new) : \E t \in Tables : \E y \in new[t] :
              \/ y.id \notin IdsOf(old[t]) /\ st = NewRow(t, y)
              \/ y \notin old[t] /\ y.id \in IdsOf(old[t]) /\ st = NewValues(old, t, y)
         /\ \A t \in Tables : \A y \in new[t] :
              /\ y.id \notin IdsOf(old[t]) => NewRow(t, y) \in Statements(old, new)
              /\ y \notin old[t] /\ y.id \in IdsOf(old[t]) =>
                   NewValues(old, t, y) \in Statements(old, new)
<1> DEFINE Inserts(t) == {[table |-> t, insert |-> TRUE, id |-> y.id, columns |-> y] :
                            y \in {y \in new[t] : y.id \notin IdsOf(old[t])}}
           Updates(t) == {[table |-> t, insert |-> FALSE, id |-> y.id,
                           columns |-> Changed(RowOf(old[t], y.id), y)] :
                            y \in {y \in new[t] \ old[t] : y.id \in IdsOf(old[t])}}
<1>1. Statements(old, new) = (UNION {Inserts(t) : t \in Tables}) \cup (UNION {Updates(t) : t \in Tables})
  BY DEF Statements
<1>2. ASSUME NEW t
      PROVE  /\ \A st \in Inserts(t) : \E y \in new[t] : y.id \notin IdsOf(old[t]) /\ st = NewRow(t, y)
             /\ \A st \in Updates(t) : \E y \in new[t] :
                  y \notin old[t] /\ y.id \in IdsOf(old[t]) /\ st = NewValues(old, t, y)
             /\ \A y \in new[t] : y.id \notin IdsOf(old[t]) => NewRow(t, y) \in Inserts(t)
             /\ \A y \in new[t] : y \notin old[t] /\ y.id \in IdsOf(old[t]) =>
                  NewValues(old, t, y) \in Updates(t)
  BY DEF NewRow, NewValues
<1> HIDE DEF Inserts, Updates
<1>3. ASSUME NEW st \in Statements(old, new)
      PROVE  \E t \in Tables : \E y \in new[t] :
               \/ y.id \notin IdsOf(old[t]) /\ st = NewRow(t, y)
               \/ y \notin old[t] /\ y.id \in IdsOf(old[t]) /\ st = NewValues(old, t, y)
  <2>1. st \in (UNION {Inserts(t) : t \in Tables}) \/ st \in (UNION {Updates(t) : t \in Tables})
    BY <1>1, Zenon
  <2>2. (\E t \in Tables : st \in Inserts(t)) \/ (\E t \in Tables : st \in Updates(t))
    BY <2>1, Zenon
  <2>3. CASE \E t \in Tables : st \in Inserts(t)
    BY <1>2, <2>3
  <2>4. CASE \E t \in Tables : st \in Updates(t)
    BY <1>2, <2>4
  <2> QED
    BY <2>2, <2>3, <2>4
<1>4. ASSUME NEW t \in Tables, NEW y \in new[t]
      PROVE  /\ y.id \notin IdsOf(old[t]) => NewRow(t, y) \in Statements(old, new)
             /\ y \notin old[t] /\ y.id \in IdsOf(old[t]) =>
                  NewValues(old, t, y) \in Statements(old, new)
  <2>1. ASSUME y.id \notin IdsOf(old[t])
        PROVE  NewRow(t, y) \in Statements(old, new)
    <3>1. NewRow(t, y) \in Inserts(t)
      BY <1>2, <2>1
    <3> QED
      BY <1>1, <3>1
  <2>2. ASSUME y \notin old[t], y.id \in IdsOf(old[t])
        PROVE  NewValues(old, t, y) \in Statements(old, new)
    <3>1. NewValues(old, t, y) \in Updates(t)
      BY <1>2, <2>2
    <3> QED
      BY <1>1, <3>1
  <2> QED
    BY <2>1, <2>2
<1> QED
  BY <1>3, <1>4

\* A flush sends what has changed since the last one.
LEMMA FlushReplays ==
  ASSUME NEW d, NEW old, NEW new, NEW sent, Replays(d, old, {}, sent),
         \A st \in InOrder(sent) : st.table \in Tables,
         \A t \in Tables :
           /\ UniqueOn(old[t], LAMBDA x : x.id) /\ UniqueOn(new[t], LAMBDA x : x.id)
           /\ \A x \in old[t] : \E y \in new[t] : Alike(t, x, y)
           /\ \A y \in new[t] : Shaped(t, y)
  PROVE  Replays(d, new, Statements(old, new), sent)
<1> DEFINE queue == Statements(old, new)
<1>1. \A t \in Tables : /\ \A x, y \in old[t] : x.id = y.id => x = y
                        /\ \A x, y \in new[t] : x.id = y.id => x = y
  BY DEF UniqueOn
<1>2. \A t \in Tables : IdsOf(old[t]) \subseteq IdsOf(new[t])
  <2>1. \A t \in Tables : \A x \in old[t] : \E y \in new[t] : y.id = x.id
    BY DEF Alike
  <2> QED
    BY <2>1 DEF IdsOf
<1>3. \A st \in {} \cup InOrder(sent) : ~st.insert => st.id \in IdsOf(old[st.table])
  BY DEF Replays
<1>4. ASSUME NEW st \in queue \cup InOrder(sent), ~st.insert
      PROVE  st.id \in IdsOf(new[st.table])
  <2>1. CASE st \in InOrder(sent)
    BY <1>2, <1>3, <1>4, <2>1
  <2>2. CASE st \in queue
    <3>0. PICK t \in Tables : \E y \in new[t] :
            \/ y.id \notin IdsOf(old[t]) /\ st = NewRow(t, y)
            \/ y \notin old[t] /\ y.id \in IdsOf(old[t]) /\ st = NewValues(old, t, y)
      BY <2>2, StatementsAre
    <3>1. PICK y \in new[t] : st = NewRow(t, y) \/ st = NewValues(old, t, y)
      BY <3>0
    <3>2. st.table = t /\ st.id = y.id
      BY <3>1 DEF NewRow, NewValues
    <3> QED
      BY <3>2 DEF IdsOf
  <2> QED
    BY <2>1, <2>2
<1>5. ASSUME NEW t \in {"seasons", "matches"}, NEW y \in new[t]
      PROVE  \E x \in d[t] \cup InsertedBy(queue \cup InOrder(sent), t) :
               /\ Alike(t, x, y)
               /\ \A c \in Mutable(t) :
                    /\ \A st \in queue : Sets(st, t, y.id, c) => st.columns[c] = y[c]
                    /\ (\A st \in queue : ~Sets(st, t, y.id, c)) => Written(sent, t, x)[c] = y[c]
  <2>0. t \in Tables /\ Mutable(t) \subseteq DOMAIN y
    <3>1. t \in Tables
      BY TableNames
    <3>2. Shaped(t, y)
      BY <3>1
    <3> QED
      BY <3>1, <3>2, SameVersion
  \* an update of the row is the one of this flush
  <2>1. ASSUME NEW st \in queue, NEW c \in Mutable(t), Sets(st, t, y.id, c)
        PROVE  y \notin old[t] /\ y.id \in IdsOf(old[t]) /\ st = NewValues(old, t, y)
    <3>0. PICK u \in Tables : \E z \in new[u] :
            \/ z.id \notin IdsOf(old[u]) /\ st = NewRow(u, z)
            \/ z \notin old[u] /\ z.id \in IdsOf(old[u]) /\ st = NewValues(old, u, z)
      BY StatementsAre
    <3>1. PICK z \in new[u] :
            \/ z.id \notin IdsOf(old[u]) /\ st = NewRow(u, z)
            \/ z \notin old[u] /\ z.id \in IdsOf(old[u]) /\ st = NewValues(old, u, z)
      BY <3>0
    <3>2. ~st.insert /\ st.table = t /\ st.id = y.id
      BY <2>1 DEF Sets
    <3>3. st = NewValues(old, u, z) /\ z \notin old[u] /\ z.id \in IdsOf(old[u])
      BY <3>1, <3>2 DEF NewRow
    <3>4. u = t /\ z.id = y.id
      BY <3>2, <3>3 DEF NewValues
    <3>5. z = y
      BY <1>1, <2>0, <3>4
    <3> QED
      BY <3>3, <3>4, <3>5
  <2>2. CASE y.id \notin IdsOf(old[t])
    <3>1. NewRow(t, y) \in queue
      BY <2>0, <2>2, StatementsAre
    <3>2. y \in InsertedBy(queue \cup InOrder(sent), t)
      <4>1. NewRow(t, y).insert /\ NewRow(t, y).table = t /\ NewRow(t, y).columns = y
        BY DEF NewRow
      <4> HIDE DEF queue
      <4> QED
        BY <3>1, <4>1 DEF InsertedBy
    <3>3. \A c \in Mutable(t) : \A st \in queue : ~Sets(st, t, y.id, c)
      BY <2>1, <2>2
    <3>4. ASSUME NEW c \in Mutable(t)
          PROVE  Written(sent, t, y)[c] = y[c]
      <4>1. \A st \in InOrder(sent) : ~Sets(st, t, y.id, c)
        BY <1>3, <2>2 DEF Sets
      <4> QED
        BY <2>0, <4>1, WrittenUnset
    <3>5. Alike(t, y, y)
      BY AlikeItself
    <3> HIDE DEF queue
    <3> QED
      BY <3>2, <3>3, <3>4, <3>5
  <2>3. CASE y.id \in IdsOf(old[t])
    <3>1. PICK z \in old[t] : z.id = y.id
      BY <2>3 DEF IdsOf
    <3>2. Alike(t, z, y)
      <4>1. PICK p \in new[t] : Alike(t, z, p)
        BY <2>0
      <4>2. p = y
        BY <1>1, <2>0, <3>1, <4>1 DEF Alike
      <4> QED
        BY <4>1, <4>2
    <3>3. RowOf(old[t], y.id) = z
      BY <1>1, <2>0, <3>1 DEF RowOf
    <3>4. PICK x \in d[t] \cup InsertedBy({} \cup InOrder(sent), t) :
            Alike(t, x, z) /\ \A c \in Mutable(t) : Written(sent, t, x)[c] = z[c]
      BY DEF Replays
    <3>5. x \in d[t] \cup InsertedBy(queue \cup InOrder(sent), t)
      <4> HIDE DEF queue
      <4> QED
        BY <3>4 DEF InsertedBy
    <3>6. Alike(t, x, y)
      BY <3>2, <3>4, AlikeItself
    <3>7. ASSUME NEW c \in Mutable(t), NEW st \in queue, Sets(st, t, y.id, c)
          PROVE  st.columns[c] = y[c]
      <4>1. st = NewValues(old, t, y)
        BY <2>1, <3>7
      <4>2. st.columns = Changed(z, y)
        BY <3>3, <4>1 DEF NewValues
      <4>3. c \in DOMAIN Changed(z, y)
        BY <3>7, <4>2 DEF Sets
      <4> QED
        BY <4>2, <4>3 DEF Changed
    <3>8. ASSUME NEW c \in Mutable(t), \A st \in queue : ~Sets(st, t, y.id, c)
          PROVE  Written(sent, t, x)[c] = y[c]
      <4>1. CASE y \in old[t]
        <5>1. y = z
          BY <1>1, <2>0, <3>1, <4>1
        <5> QED
          BY <3>4, <5>1
      <4>2. CASE y \notin old[t]
        <5>1. NewValues(old, t, y) \in queue
          BY <2>0, <2>3, <4>2, StatementsAre
        <5>2. /\ NewValues(old, t, y).columns = Changed(z, y) /\ NewValues(old, t, y).table = t
              /\ NewValues(old, t, y).id = y.id /\ ~NewValues(old, t, y).insert
          BY <3>3 DEF NewValues
        <5>3. c \notin DOMAIN Changed(z, y)
          BY <3>8, <5>1, <5>2 DEF Sets
        <5>4. z[c] = y[c]
          BY <2>0, <5>3 DEF Changed
        <5> QED
          BY <3>4, <5>4
      <4> QED
        BY <4>1, <4>2
    <3> HIDE DEF queue
    <3> QED
      BY <3>5, <3>6, <3>7, <3>8
  <2> QED
    BY <2>2, <2>3
<1> HIDE DEF queue
<1>6. Replays(d, new, queue, sent)
  BY <1>4, <1>5 DEF Replays
<1> QED
  BY <1>6 DEF queue

\* What a run has sent is of the tables, and what it inserts has their columns.
LEMMA SentRows ==
  ASSUME NEW d, NEW r, StatementsRight(d, r)
  PROVE  /\ r.sent \in Seq(SentOf(r)) /\ InOrder(r.sent) = SentOf(r)
         /\ \A st \in r.queue \cup InOrder(r.sent) : st.table \in Tables
         /\ \A t : \A x \in InsertedBy(r.queue \cup InOrder(r.sent), t) :
              Shaped(t, x) /\ \E y \in r.flushed[t] : Alike(t, y, x)
<1>1. r.sent \in Seq(SentOf(r)) /\ InOrder(r.sent) = SentOf(r)
  BY DEF StatementsRight, InOrder, SentOf
<1>2. \A st \in r.queue \cup InOrder(r.sent) :
        st.table \in Tables /\ (st.insert => InsertRight(d, r, st))
  BY <1>1 DEF StatementsRight, AllOf
<1>3. ASSUME NEW t, NEW x \in InsertedBy(r.queue \cup InOrder(r.sent), t)
      PROVE  Shaped(t, x) /\ \E y \in r.flushed[t] : Alike(t, y, x)
  <2>1. PICK st \in r.queue \cup InOrder(r.sent) : st.insert /\ st.table = t /\ x = st.columns
    BY DEF InsertedBy
  <2> QED
    BY <1>2, <2>1 DEF InsertRight
<1> QED
  BY <1>1, <1>2, <1>3

\* A commit leaves of seasons and matches the versions of the session.
LEMMA CommitVersions ==
  ASSUME NEW d, NEW how, IsHistory(how), DbRight(d, how), NEW pairs,
         NEW r, RunRight(d, how, pairs, r), r.pc = "closing", r.queue = {},
         Replays(d, r.flushed, {}, r.sent), NEW t \in {"seasons", "matches"}
  PROVE  Applied(d, r.sent)[t] = World(d, r.session)[t]
<1> DEFINE e == Applied(d, r.sent)
           s == r.session[t]
           New == InsertedBy({} \cup InOrder(r.sent), t)
<1>1. t \in Tables /\ ColumnsHold(d) /\ StatementsRight(d, r) /\ r.flushed[t] = s
  BY TableNames DEF DbRight, RunRight, FlushRight
<1>2. \A x \in d[t] \cup New : Shaped(t, x)
  <2>1. \A x \in New : Shaped(t, x)
    BY <1>1, SentRows
  <2>2. \A x \in d[t] : Shaped(t, x)
    BY <1>1, ColumnsByRow
  <2> QED
    BY <2>1, <2>2
<1>3. \A x \in New : x.id \in IdsOf(s)
  <2>1. \A x \in New : \E y \in r.flushed[t] : Alike(t, y, x)
    BY <1>1, SentRows
  <2> QED
    BY <1>1, <2>1 DEF Alike, IdsOf
<1>4. e[t] = {Written(r.sent, t, x) : x \in d[t] \cup New}
  <2>1. Inserted(r.sent, t) = New
    BY DEF Inserted, InsertedBy, InOrder
  <2> QED
    BY <1>1, <2>1 DEF Applied
<1>5. \A y, z \in e[t] : y.id = z.id => y = z
  <2>1. DbRight(e, [how EXCEPT ![r.no].how = "committed"])
    BY CommitRight
  <2> HIDE DEF e
  <2> QED
    BY <1>1, <2>1 DEF DbRight, UniqueOn
<1>6. \A x \in d[t] \cup New : Alike(t, x, Written(r.sent, t, x)) /\ Shaped(t, Written(r.sent, t, x))
  <2> TAKE x \in d[t] \cup New
  <2>1. \A i \in DOMAIN r.sent :
          ~r.sent[i].insert /\ r.sent[i].table = t => Overwrites(r.sent[i], t)
    <3>1. \A i \in DOMAIN r.sent : r.sent[i] \in AllOf(r)
      BY DEF AllOf, SentOf
    <3> QED
      BY <1>1, <3>1 DEF StatementsRight, UpdateRight, Overwrites
  <2>2. r.sent \in Seq(SentOf(r)) /\ Shaped(t, x)
    BY <1>1, <1>2, SentRows
  <2> HIDE DEF New
  <2> QED
    BY <1>1, <2>1, <2>2, WrittenRow
<1>7. World(d, r.session)[t] = s \cup {x \in d[t] : x.id \notin IdsOf(s)}
  BY <1>1 DEF World
<1> HIDE DEF e, New, s
\* the rows of the session
<1>8. ASSUME NEW y \in s
      PROVE  y \in e[t]
  <2>1. PICK x \in d[t] \cup New :
          Alike(t, x, y) /\ \A c \in Mutable(t) : Written(r.sent, t, x)[c] = y[c]
    BY <1>1 DEF Replays, New
  <2> DEFINE z == Written(r.sent, t, x)
  <2>2. Alike(t, z, y) /\ Shaped(t, z)
    BY <1>6, <2>1, AlikeItself
  <2>3. Shaped(t, y)
    BY <1>1, ColumnsByRow DEF RunRight, FlushRight
  <2>4. z \in e[t] /\ \A c \in Mutable(t) : z[c] = y[c]
    BY <1>4, <2>1
  <2> HIDE DEF z
  <2>5. z = y
    BY <2>2, <2>3, <2>4, SameVersion
  <2> QED
    BY <2>4, <2>5
\* the rows it does not know
<1>9. ASSUME NEW x \in d[t], x.id \notin IdsOf(s)
      PROVE  Written(r.sent, t, x) = x
  <2>1. \A st \in InOrder(r.sent) : \A c : ~Sets(st, t, x.id, c)
    BY <1>1, <1>9 DEF Replays, Sets
  <2>2. Mutable(t) \subseteq DOMAIN x /\ Shaped(t, x)
    BY <1>2, SameVersion
  <2>3. \A c \in Mutable(t) : Written(r.sent, t, x)[c] = x[c]
    BY <2>1, <2>2, WrittenUnset
  <2> QED
    BY <1>6, <2>2, <2>3, SameVersion
<1>10. ASSUME NEW z \in e[t]
       PROVE  z \in World(d, r.session)[t]
  <2>1. PICK x \in d[t] \cup New : z = Written(r.sent, t, x)
    BY <1>4
  <2>2. CASE x.id \in IdsOf(s)
    <3>1. PICK y \in s : y.id = x.id
      BY <2>2 DEF IdsOf
    <3>2. z.id = y.id
      BY <1>6, <2>1, <3>1 DEF Alike
    <3> QED
      BY <1>5, <1>7, <1>8, <3>1, <3>2
  <2>3. CASE x.id \notin IdsOf(s)
    <3>1. x \in d[t]
      BY <1>3, <2>1, <2>3
    <3> QED
      BY <1>7, <1>9, <2>1, <2>3, <3>1
  <2> QED
    BY <2>2, <2>3
<1>11. ASSUME NEW z \in World(d, r.session)[t]
       PROVE  z \in e[t]
  BY <1>4, <1>7, <1>8, <1>9
<1> QED
  BY <1>10, <1>11 DEF e

LEMMA CommitStores ==
  ASSUME NEW d, NEW how, IsHistory(how), DbRight(d, how), NEW pairs,
         NEW r, RunRight(d, how, pairs, r), r.pc = "closing", r.queue = {},
         Replays(d, r.flushed, {}, r.sent)
  PROVE  \A t \in {"seasons", "teams", "venues", "matches"} :
           Applied(d, r.sent)[t] = World(d, r.session)[t]
<1> DEFINE e == Applied(d, r.sent)
<1>1. ASSUME NEW t \in {"teams", "venues"}
      PROVE  e[t] = World(d, r.session)[t]
  <2> DEFINE s == r.session[t]
  <2>1. /\ d[t] \subseteq e[t]
        /\ \A y \in e[t] : y \in d[t] \/ y \in s
        /\ \A x \in d[t] : x.id \in IdsOf(s) => x \in s
        /\ \A y \in s : y.id \in OwnIds(r) => y \in e[t]
    BY CommitAdds
  <2>2. \A y \in s : y.id \in OwnIds(r) \/ y \in d[t]
    <3>1. RowsRight(d, First(r), r.session.nextId, r.session)
          /\ OwnIds(r) = First(r)..(r.session.nextId - 1)
      BY DEF RunRight, Working, InLoopPhase, SessionRight, OwnIds, NextOf
    <3>2. t \in Tables
      BY TableNames
    <3>3. \A q, p : Alike(t, q, p) => q = p
      BY <3>2, AlikeRows
    <3>4. \A y \in s : y.id \in First(r)..(r.session.nextId - 1) \/ \E q \in d[t] : Alike(t, q, y)
      BY <3>1, <3>2 DEF RowsRight
    <3> QED
      BY <3>1, <3>3, <3>4
  <2>3. World(d, r.session)[t] = s \cup {x \in d[t] : x.id \notin IdsOf(s)}
    BY TableNames DEF World
  <2> HIDE DEF e, s
  <2> QED
    BY <2>1, <2>2, <2>3
<1>2. ASSUME NEW t \in {"seasons", "matches"}
      PROVE  e[t] = World(d, r.session)[t]
  BY CommitVersions
<1> HIDE DEF e
<1>3. \A t \in {"seasons", "teams", "venues", "matches"} : e[t] = World(d, r.session)[t]
  BY <1>1, <1>2
<1> QED
  BY <1>3 DEF e

-----------------------------------------------------------------------------
(* Links go on telling what they told *)

LEMMA GrowsTell ==
  ASSUME NEW d, NEW e, Grows(d, e), NEW l
  PROVE  /\ ClubTold(d, l) => ClubTold(e, l)
         /\ FixtureTold(d, l) => FixtureTold(e, l)
<1>1. /\ d["teams"] \subseteq e["teams"] /\ d["teamLinks"] \subseteq e["teamLinks"]
      /\ \A m \in d["matches"] : \E n \in e["matches"] :
           n.id = m.id /\ n.season = m.season /\ n.matchday = m.matchday
           /\ n.home = m.home /\ n.away = m.away
      /\ \A q \in d["seasons"] : \E p \in e["seasons"] : p.id = q.id /\ p.year = q.year
  BY GrowsRows
<1>2. ClubTold(d, l) => ClubTold(e, l)
  BY <1>1 DEF ClubTold
<1>3. ASSUME FixtureTold(d, l)
      PROVE  FixtureTold(e, l)
  <2>1. PICK m \in d["matches"], q \in d["seasons"], h \in d["teamLinks"], a \in d["teamLinks"] :
          /\ m.id = l.match /\ q.id = m.season
          /\ SideLink(h, m.home) /\ SideLink(a, m.away)
          /\ ReportedOnlyAs(l.ext, q.year, m.matchday, h.ext, a.ext)
    BY <1>3 DEF FixtureTold
  <2>2. PICK n \in e["matches"] : n.id = m.id /\ n.season = m.season /\ n.matchday = m.matchday
                                  /\ n.home = m.home /\ n.away = m.away
    BY <1>1
  <2>3. PICK p \in e["seasons"] : p.id = q.id /\ p.year = q.year
    BY <1>1
  <2>4. /\ h \in e["teamLinks"] /\ a \in e["teamLinks"]
        /\ n.id = l.match /\ p.id = n.season
        /\ SideLink(h, n.home) /\ SideLink(a, n.away)
        /\ ReportedOnlyAs(l.ext, p.year, n.matchday, h.ext, a.ext)
    BY <1>1, <2>1, <2>2, <2>3
  <2> QED
    BY <2>4 DEF FixtureTold
<1> QED
  BY <1>2, <1>3

\* The links of a larger database tell what they link if those do that it has
\* and neither of two smaller ones has.
LEMMA LinksTellOn ==
  ASSUME NEW d, NEW c, NEW e, Grows(d, e), Grows(c, e), LinksTell(d), LinksTell(c),
         \A l \in e["teamLinks"] :
           l.source = FootballData => ClubTold(e, l) \/ l \in d["teamLinks"] \/ l \in c["teamLinks"],
         \A l \in e["matchLinks"] :
           l.source = FootballData => FixtureTold(e, l) \/ l \in d["matchLinks"] \/ l \in c["matchLinks"]
  PROVE  LinksTell(e)
BY GrowsTell DEF LinksTell

LEMMA MovesKeepTold ==
  ASSUME NEW d, NEW s, NEW u, LinksTell(Concat(d, s)), RowsMoved(s, u),
         \A l \in u["teamLinks"] \ s["teamLinks"] :
           l.source = FootballData => ClubTold(Concat(d, u), l),
         \A l \in u["matchLinks"] \ s["matchLinks"] :
           l.source = FootballData => FixtureTold(Concat(d, u), l)
  PROVE  LinksTell(Concat(d, u))
<1>1. Grows(Concat(d, s), Concat(d, u))
  BY GrowsItself, ConcatGrows DEF RowsMoved, Grows
<1>2. /\ Concat(d, u)["teamLinks"] \ Concat(d, s)["teamLinks"] \subseteq u["teamLinks"] \ s["teamLinks"]
      /\ Concat(d, u)["matchLinks"] \ Concat(d, s)["matchLinks"] \subseteq u["matchLinks"] \ s["matchLinks"]
  BY ConcatRows
<1> QED
  BY <1>1, <1>2, LinksTellOn

\* A commit stores the session of its run, so its links tell the same.
LEMMA CommitTells ==
  ASSUME NEW d, NEW how, IsHistory(how), DbRight(d, how), LinksTell(d), NEW pairs,
         NEW r, RunRight(d, how, pairs, r), LinksTell(Concat(d, r.session)),
         r.pc = "closing", r.queue = {}
  PROVE  LinksTell(Applied(d, r.sent)) /\ Grows(d, Applied(d, r.sent))
<1> DEFINE e == Applied(d, r.sent)   c == Concat(d, r.session)
<1>1. /\ Grows(d, e) /\ Grows(c, e)
      /\ \A t \in {"teamLinks", "matchLinks"} : e[t] \subseteq d[t] \cup r.session[t]
  BY CommitMerges
<1>2. \A t \in {"teamLinks", "matchLinks"} : e[t] \subseteq c[t]
  <2>1. \A t \in {"teamLinks", "matchLinks"} : c[t] = d[t] \cup r.session[t]
    BY ConcatRows, TableNames
  <2> QED
    BY <1>1, <2>1
<1> HIDE DEF e, c
<1>3. LinksTell(e)
  BY <1>1, <1>2, LinksTellOn DEF c
<1> QED
  BY <1>1, <1>3 DEF e

\* The links of a session, over a database with more in it.
LEMMA TellsOverMore ==
  ASSUME NEW d, NEW e, Grows(d, e), LinksTell(e), NEW s, LinksTell(Concat(d, s))
  PROVE  LinksTell(Concat(e, s))
<1> DEFINE f == Concat(e, s)   c == Concat(d, s)
<1>1. Grows(c, f) /\ Grows(e, f)
  BY ConcatGrows, GrowsItself, ConcatRows, AlikeItself DEF Grows
<1>2. \A t \in {"teamLinks", "matchLinks"} : \A l \in f[t] : l \in e[t] \/ l \in c[t]
  BY ConcatRows, TableNames
<1> HIDE DEF f, c
<1>3. LinksTell(f)
  BY <1>1, <1>2, LinksTellOn DEF c
<1> QED
  BY <1>3 DEF f

-----------------------------------------------------------------------------
(* The database as a commit will leave it *)

\* The rows a session and the database come to: each has an id of its own, and
\* refers to one of them.
OneRowEach(rows) == \A x, y \in rows : x.id = y.id => x = y

LEMMA WorldRows ==
  ASSUME NEW d, \A t \in Tables : OneRowEach(d[t]), ReferencesHold(d),
         NEW first, NEW next, NEW s, RowsRight(d, first, next, s)
  PROVE  LET w == World(d, s) IN
         \A t \in Tables :
           /\ w[t] = s[t] \cup {x \in d[t] : x.id \notin IdsOf(s[t])}
           /\ s[t] \subseteq w[t] /\ w[t] \subseteq Concat(d, s)[t]
           /\ IdsOf(w[t]) = Known(d, s)[t]
           /\ \A x, y \in w[t] : x.id = y.id => x = y
           /\ \A x \in w[t] : RefersInto(t, x, Known(d, s))
<1> DEFINE w == World(d, s)
<1> SUFFICES ASSUME NEW t \in Tables
             PROVE  /\ w[t] = s[t] \cup {x \in d[t] : x.id \notin IdsOf(s[t])}
                    /\ s[t] \subseteq w[t] /\ w[t] \subseteq Concat(d, s)[t]
                    /\ IdsOf(w[t]) = Known(d, s)[t]
                    /\ \A x, y \in w[t] : x.id = y.id => x = y
                    /\ \A x \in w[t] : RefersInto(t, x, Known(d, s))
  OBVIOUS
<1>1. w[t] = s[t] \cup {x \in d[t] : x.id \notin IdsOf(s[t])}
  BY DEF World
<1> HIDE DEF w
<1>2. s[t] \subseteq w[t] /\ w[t] \subseteq Concat(d, s)[t]
  BY <1>1, ConcatRows
<1>3. IdsOf(w[t]) = Known(d, s)[t]
  BY <1>1 DEF Known, IdsOf
<1>4. \A x, y \in w[t] : x.id = y.id => x = y
  <2>1. \A x, y \in s[t] : x.id = y.id => x = y
    BY DEF RowsRight, UniqueOn
  <2>2. \A x, y \in d[t] : x.id = y.id => x = y
    BY DEF OneRowEach
  <2> QED
    BY <1>1, <2>1, <2>2 DEF IdsOf
<1>5. \A x \in w[t] : RefersInto(t, x, Known(d, s))
  <2>1. \A x \in s[t] : RefersInto(t, x, Known(d, s))
    BY DEF RowsRight
  <2>2. ASSUME NEW x \in d[t]
        PROVE  RefersInto(t, x, Known(d, s))
    <3>1. RefersInto(t, x, Known(d, d))
      BY ReferencesByRow
    <3>2. \A u \in Tables : Known(d, d)[u] \subseteq Known(d, s)[u]
      BY DEF Known
    <3> QED
      BY <3>1, <3>2, RefersFurther
  <2> QED
    BY <1>1, <2>1, <2>2
<1> QED
  BY <1>1, <1>2, <1>3, <1>4, <1>5

\* Rows under ids of their own, to which the matches refer.
Rooted(w) ==
  /\ \A t \in {"seasons", "teams", "venues"} : \A x, y \in w[t] : x.id = y.id => x = y
  /\ \A m \in w["matches"] :
       /\ m.season \in IdsOf(w["seasons"])
       /\ m.home \in IdsOf(w["teams"]) /\ m.away \in IdsOf(w["teams"])
       /\ m.venue \in IdsOf(w["venues"]) \cup {None}

LEMMA WorldRooted ==
  ASSUME NEW d, \A t \in Tables : OneRowEach(d[t]), ReferencesHold(d),
         NEW first, NEW next, NEW s, RowsRight(d, first, next, s)
  PROVE  Rooted(World(d, s))
<1> DEFINE w == World(d, s)
<1>1. \A t \in Tables :
        /\ IdsOf(w[t]) = Known(d, s)[t]
        /\ \A x, y \in w[t] : x.id = y.id => x = y
        /\ \A x \in w[t] : RefersInto(t, x, Known(d, s))
  BY WorldRows
<1> HIDE DEF w
<1>2. \A m \in w["matches"] :
        /\ m.season \in IdsOf(w["seasons"])
        /\ m.home \in IdsOf(w["teams"]) /\ m.away \in IdsOf(w["teams"])
        /\ m.venue \in IdsOf(w["venues"]) \cup {None}
  BY <1>1, TableNames DEF RefersInto
<1>3. \A t \in {"seasons", "teams", "venues"} : \A x, y \in w[t] : x.id = y.id => x = y
  BY <1>1, TableNames
<1> QED
  BY <1>2, <1>3 DEF Rooted, w

\* The name under an id, where there is one row of that id.
LEMMA NameOfRow ==
  ASSUME NEW rows, \A x, y \in rows : x.id = y.id => x = y, NEW r \in rows
  PROVE  NameOf(rows, r.id) = IF r.id = None THEN None ELSE r.name
<1>1. RowOf(rows, r.id) = r
  BY DEF RowOf
<1> QED
  BY <1>1 DEF NameOf

LEMMA NamesKept ==
  ASSUME NEW rows, NEW more, rows \subseteq more, \A x, y \in more : x.id = y.id => x = y,
         NEW id, id \in IdsOf(rows) \cup {None}
  PROVE  NameOf(more, id) = NameOf(rows, id)
<1>1. CASE id = None
  BY <1>1 DEF NameOf
<1>2. CASE id \in IdsOf(rows)
  <2>1. PICK r \in rows : r.id = id
    BY <1>2 DEF IdsOf
  <2>2. NameOf(more, r.id) = IF r.id = None THEN None ELSE r.name
    BY NameOfRow
  <2>3. NameOf(rows, r.id) = IF r.id = None THEN None ELSE r.name
    BY NameOfRow
  <2> QED
    BY <2>1, <2>2, <2>3
<1> QED
  BY <1>1, <1>2

-----------------------------------------------------------------------------
(* Facts and dates, from one database to the next *)

FactOf(w, m) ==
  <<Fixture(m.matchday, NameOf(w["teams"], m.home), NameOf(w["teams"], m.away)),
    m.at, NameOf(w["venues"], m.venue), m.status, m.score>>

LEMMA FactsAre ==
  ASSUME NEW w
  PROVE  FactsWhole(w) <=> \A m \in w["matches"] : FactOf(w, m) \in EveryFact
<1>1. FactsIn(w) = {FactOf(w, m) : m \in w["matches"]}
  BY DEF FactsIn, FactOf
<1> QED
  BY <1>1 DEF FactsWhole

\* Matches keep their facts when clubs and stadiums are added.
LEMMA FactsKept ==
  ASSUME NEW w, NEW v, Rooted(w), Rooted(v), FactsWhole(w),
         w["teams"] \subseteq v["teams"], w["venues"] \subseteq v["venues"],
         \A m \in v["matches"] : m \in w["matches"] \/ FactOf(v, m) \in EveryFact
  PROVE  FactsWhole(v)
<1>1. ASSUME NEW m \in w["matches"]
      PROVE  FactOf(v, m) = FactOf(w, m)
  <2>1. /\ NameOf(v["teams"], m.home) = NameOf(w["teams"], m.home)
        /\ NameOf(v["teams"], m.away) = NameOf(w["teams"], m.away)
    BY NamesKept DEF Rooted
  <2>2. NameOf(v["venues"], m.venue) = NameOf(w["venues"], m.venue)
    BY NamesKept DEF Rooted
  <2> QED
    BY <2>1, <2>2 DEF FactOf
<1> QED
  BY <1>1, FactsAre

\* Seasons go on covering their matches when they are widened.
Wider(p, q) == p.id = q.id /\ q.start <= p.start /\ p.end <= q.end
Dated(q) == q.start \in Int /\ q.end \in Int

LEMMA WiderCovers ==
  ASSUME NEW p, NEW q, Dated(p), Dated(q), Wider(p, q), NEW at, Covers(p, at)
  PROVE  Covers(q, at)
<1>1. UtcDate(at) \in Int /\ LocalDate(at) \in Int
  BY DEF UtcDate, LocalDate, Covers
<1> QED
  BY <1>1 DEF Dated, Wider, Covers

LEMMA CoversKept ==
  ASSUME NEW w, NEW v, Rooted(w), Covering(w),
         \A q \in w["seasons"] \cup v["seasons"] : Dated(q),
         \A q \in v["seasons"] : q.id \in IdsOf(w["seasons"]) => \E p \in w["seasons"] : Wider(p, q),
         \A m \in v["matches"] :
           \/ \E n \in w["matches"] : n.season = m.season /\ n.at = m.at
           \/ \A q \in v["seasons"] : q.id = m.season => Covers(q, m.at)
  PROVE  Covering(v)
<1> SUFFICES ASSUME NEW m \in v["matches"], NEW q \in v["seasons"], q.id = m.season
             PROVE  Covers(q, m.at)
  BY DEF Covering
<1>1. CASE \E n \in w["matches"] : n.season = m.season /\ n.at = m.at
  <2>1. PICK n \in w["matches"] : n.season = m.season /\ n.at = m.at
    BY <1>1
  <2>2. PICK p \in w["seasons"] : Wider(p, q)
    BY <2>1 DEF Rooted
  <2>3. Covers(p, n.at)
    BY <2>1, <2>2 DEF Covering, Wider
  <2> QED
    BY <2>1, <2>2, <2>3, WiderCovers
<1> QED
  BY <1>1

-----------------------------------------------------------------------------
(* What a lookup makes of that database *)

Based(d) ==
  /\ \A t \in Tables : OneRowEach(d[t]) /\ \A x \in d[t] : x.id \in Nat
  /\ ReferencesHold(d) /\ ColumnsHold(d)

LEMMA DbBased ==
  ASSUME NEW d, NEW how, DbRight(d, how)
  PROVE  Based(d)
BY DEF DbRight, Based, OneRowEach, UniqueOn

LEMMA PlacedRows ==
  ASSUME NEW d, NEW job, NEW first, NEW s, Placed(d, job, first, s)
  PROVE  /\ RowsRight(d, first, s.nextId, s) /\ s.nextId \in Nat
         /\ first \in Nat /\ IdsPerRun \in Nat /\ first <= s.nextId /\ job \in Jobs
         /\ \A t \in Tables : \A q \in d[t] : q.id \notin first..(first + IdsPerRun - 1)
BY DEF Placed, SessionRight, Reserved

\* A lookup takes no id of the database.
LEMMA NoIdTaken ==
  ASSUME NEW d, NEW job, NEW first, NEW s, Placed(d, job, first, s),
         NEW u, RowsMoved(s, u), u.nextId <= first + IdsPerRun,
         NEW t \in Tables, NEW x \in d[t]
  PROVE  x.id \in IdsOf(u[t]) <=> x.id \in IdsOf(s[t])
<1>1. /\ s.nextId \in Nat /\ u.nextId \in Nat /\ first \in Nat /\ IdsPerRun \in Nat
      /\ first <= s.nextId /\ x.id \notin first..(first + IdsPerRun - 1)
  BY PlacedRows DEF RowsMoved
<1>2. /\ \A r \in s[t] : \E q \in u[t] : r.id = q.id
      /\ \A q \in u[t] : (\E r \in s[t] : r.id = q.id) \/ q.id \in s.nextId..(u.nextId - 1)
  BY DEF RowsMoved, Alike
<1>3. x.id \notin s.nextId..(u.nextId - 1)
  BY <1>1
<1> QED
  BY <1>2, <1>3 DEF IdsOf

\* The rows of the session that a lookup replaces, and those it leaves alone.
LEMMA WorldMoves ==
  ASSUME NEW d, NEW job, NEW first, NEW s, Placed(d, job, first, s),
         NEW u, RowsMoved(s, u), u.nextId <= first + IdsPerRun, NEW t \in Tables
  PROVE  LET rest == {x \in d[t] : x.id \notin IdsOf(s[t])} IN
         /\ World(d, s)[t] = s[t] \cup rest /\ World(d, u)[t] = u[t] \cup rest
         /\ s[t] \subseteq u[t] => World(d, s)[t] \subseteq World(d, u)[t]
         /\ World(d, u)[t] \subseteq World(d, s)[t] \cup (u[t] \ s[t])
<1>1. \A x \in d[t] : x.id \in IdsOf(u[t]) <=> x.id \in IdsOf(s[t])
  BY NoIdTaken
<1>2. World(d, s)[t] = s[t] \cup {x \in d[t] : x.id \notin IdsOf(s[t])}
  BY DEF World
<1>3. World(d, u)[t] = u[t] \cup {x \in d[t] : x.id \notin IdsOf(s[t])}
  BY <1>1 DEF World
<1> QED
  BY <1>2, <1>3

\* Of rows that are never updated there is one version.
LEMMA WorldConcat ==
  ASSUME NEW d, NEW job, NEW first, NEW s, Placed(d, job, first, s),
         s.nextId <= first + IdsPerRun, NEW t \in Tables \ {"seasons", "matches"}
  PROVE  World(d, s)[t] = d[t] \cup s[t]
<1>1. \A x \in d[t], y \in s[t] : x.id = y.id => x = y
  <2> SUFFICES ASSUME NEW x \in d[t], NEW y \in s[t], x.id = y.id
               PROVE  x = y
    OBVIOUS
  <2>1. Alike(t, x, y)
    BY OneRowPerId
  <2> QED
    BY <2>1, AlikeRows
<1> QED
  BY <1>1 DEF World, IdsOf

\* Every row has its dates, and an id that is a number.
LEMMA WorldNumbers ==
  ASSUME NEW d, Based(d), NEW job, NEW first, NEW s, Placed(d, job, first, s)
  PROVE  /\ Rooted(World(d, s))
         /\ \A q \in World(d, s)["seasons"] : Dated(q)
         /\ \A t \in Tables : \A x \in d[t] \cup s[t] : x.id \in Nat /\ x.id # None
<1>1. RowsRight(d, first, s.nextId, s) /\ s.nextId \in Nat /\ first \in Nat
  BY PlacedRows
<1>2. Rooted(World(d, s))
  BY <1>1, WorldRooted DEF Based
<1>3. \A t \in Tables : \A x \in d[t] \cup s[t] : x.id \in Nat
  <2>1. \A t \in Tables : \A x \in s[t] : x.id \in first..(s.nextId - 1) \/ \E q \in d[t] : q.id = x.id
    BY <1>1 DEF RowsRight, Alike
  <2>2. \A id \in first..(s.nextId - 1) : id \in Nat
    BY <1>1
  <2> QED
    BY <2>1, <2>2 DEF Based
<1>4. \A q \in World(d, s)["seasons"] : Dated(q)
  <2>1. World(d, s)["seasons"] \subseteq d["seasons"] \cup s["seasons"]
    BY TableNames DEF World
  <2>2. ColumnsHold(d) /\ ColumnsHold(s)
    BY <1>1 DEF Based, RowsRight
  <2>3. \A q \in d["seasons"] \cup s["seasons"] : Dated(q)
    BY <2>2, ColumnsByRow, TableNames DEF Shaped, Dated
  <2> QED
    BY <2>1, <2>3
<1> QED
  BY <1>2, <1>3, <1>4, NoneIsNoId

\* What a step has to show of the matches and the seasons it has touched.
FactsCarried(d, s, u) ==
  FactsWhole(World(d, s)) => FactsWhole(World(d, u))
CoverCarried(d, s, u) ==
  Covering(World(d, s)) => Covering(World(d, u))

LEMMA LookupCarriesFacts ==
  ASSUME NEW d, Based(d), NEW job, NEW first, NEW s, Placed(d, job, first, s),
         NEW u, Placed(d, job, first, u), RowsMoved(s, u), u.nextId <= first + IdsPerRun,
         s["teams"] \subseteq u["teams"], s["venues"] \subseteq u["venues"],
         \A m \in u["matches"] \ s["matches"] : FactOf(World(d, u), m) \in EveryFact
  PROVE  FactsCarried(d, s, u)
<1>1. Rooted(World(d, s)) /\ Rooted(World(d, u))
  BY WorldNumbers
<1>2. /\ World(d, s)["teams"] \subseteq World(d, u)["teams"]
      /\ World(d, s)["venues"] \subseteq World(d, u)["venues"]
      /\ World(d, u)["matches"] \subseteq World(d, s)["matches"] \cup (u["matches"] \ s["matches"])
  BY WorldMoves, TableNames
<1>3. \A m \in World(d, u)["matches"] :
        m \in World(d, s)["matches"] \/ FactOf(World(d, u), m) \in EveryFact
  BY <1>2
<1> DEFINE w == World(d, s)
           v == World(d, u)
<1> HIDE DEF w, v
<1>4. FactsWhole(w) => FactsWhole(v)
  BY <1>1, <1>2, <1>3, FactsKept DEF w, v
<1> QED
  BY <1>4 DEF FactsCarried, w, v

LEMMA LookupCarriesCover ==
  ASSUME NEW d, Based(d), NEW job, NEW first, NEW s, Placed(d, job, first, s),
         NEW u, Placed(d, job, first, u), RowsMoved(s, u), u.nextId <= first + IdsPerRun,
         \A q \in u["seasons"] : q.id \in IdsOf(s["seasons"]) => \E p \in s["seasons"] : Wider(p, q),
         \A m \in u["matches"] \ s["matches"] :
           \A q \in World(d, u)["seasons"] : q.id = m.season => Covers(q, m.at)
  PROVE  CoverCarried(d, s, u)
<1> DEFINE w == World(d, s)
           v == World(d, u)
           rest == {x \in d["seasons"] : x.id \notin IdsOf(s["seasons"])}
<1>1. Rooted(w)
  BY WorldNumbers
<1>2. \A q \in w["seasons"] \cup v["seasons"] : Dated(q)
  BY WorldNumbers
<1>3. /\ w["seasons"] = s["seasons"] \cup rest /\ v["seasons"] = u["seasons"] \cup rest
      /\ v["matches"] \subseteq w["matches"] \cup (u["matches"] \ s["matches"])
  BY WorldMoves, TableNames
<1>4. \A x \in d["seasons"] : x.id \in IdsOf(u["seasons"]) <=> x.id \in IdsOf(s["seasons"])
  BY NoIdTaken, TableNames
<1>5. \A m \in u["matches"] \ s["matches"] :
        \A q \in v["seasons"] : q.id = m.season => Covers(q, m.at)
  OBVIOUS
<1> HIDE DEF w, v
<1>6. ASSUME NEW q \in v["seasons"], q.id \in IdsOf(w["seasons"])
      PROVE  \E p \in w["seasons"] : Wider(p, q)
  <2>1. CASE q \in rest
    BY <1>2, <1>3, <2>1 DEF Wider, Dated
  <2>2. CASE q \in u["seasons"]
    <3>1. q.id \in IdsOf(s["seasons"])
      BY <1>3, <1>4, <1>6, <2>2 DEF IdsOf
    <3> QED
      BY <1>3, <2>2, <3>1
  <2> QED
    BY <1>3, <2>1, <2>2
<1>7. \A m \in v["matches"] :
        \/ \E n \in w["matches"] : n.season = m.season /\ n.at = m.at
        \/ \A q \in v["seasons"] : q.id = m.season => Covers(q, m.at)
  BY <1>3, <1>5
<1>8. Covering(w) => Covering(v)
  BY <1>1, <1>2, <1>6, <1>7, CoversKept
<1> QED
  BY <1>8 DEF CoverCarried, w, v

SessionTold(d, s) == VenuesMirrored(s) /\ LinksTell(Concat(d, s))

Carried(d, s, u) == FactsCarried(d, s, u) /\ CoverCarried(d, s, u)

LEMMA SeasonsStay ==
  ASSUME NEW d, NEW job, NEW first, NEW s, Placed(d, job, first, s)
  PROVE  \A q \in s["seasons"] : Wider(q, q)
<1>1. ColumnsHold(s)
  BY PlacedRows DEF RowsRight
<1>2. \A q \in s["seasons"] : q.start \in Int /\ q.end \in Int
  BY <1>1, ColumnsByRow, TableNames DEF Shaped
<1> QED
  BY <1>2 DEF Wider

\* A lookup that leaves seasons and matches alone.
LEMMA OtherRowsCarry ==
  ASSUME NEW d, Based(d), NEW job, NEW first, NEW s, Placed(d, job, first, s),
         NEW u, NEW most \in Nat, Looked(d, job, first, s, u, most), u.nextId <= first + IdsPerRun,
         s["teams"] \subseteq u["teams"], s["venues"] \subseteq u["venues"],
         u["seasons"] = s["seasons"], u["matches"] = s["matches"]
  PROVE  Carried(d, s, u)
<1>1. Placed(d, job, first, u) /\ RowsMoved(s, u)
  BY PlacedFurther DEF Looked
<1>2. FactsCarried(d, s, u)
  BY <1>1, LookupCarriesFacts
<1>3. CoverCarried(d, s, u)
  BY <1>1, LookupCarriesCover, SeasonsStay
<1> QED
  BY <1>2, <1>3 DEF Carried

\* _resolve_team links a club under the name that came with the id.
LEMMA ResolveTeamTold ==
  ASSUME OneClubPerId, NEW d, Based(d), NEW first, NEW job, job.kind = "mapper",
         NEW s, Placed(d, job, first, s), SessionClean(d, job, s), SessionTold(d, s),
         s.nextId + 2 <= first + IdsPerRun, NEW api \in Sides(job)
  PROVE  LET u == Mapper!ResolveTeam(s, api) IN SessionTold(d, u) /\ Carried(d, s, u)
<1> DEFINE u == Mapper!ResolveTeam(s, api)
           name == Cleaned[api.name]
           key  == Lowered[name]
           known == key \in DOMAIN s.teamByName
           team == IF known THEN s.teamByName[key] ELSE s.nextId
           newTeam == [id |-> s.nextId, name |-> name]
           newLink == [id |-> s.nextId + 1, team |-> team, source |-> FootballData,
                       ext |-> api.id]
<1>0. /\ s.nextId \in Nat /\ DOMAIN s = MapperFields /\ u.nextId <= first + IdsPerRun
      /\ Looked(d, job, first, s, u, 2)
  <2>1. /\ s.nextId \in Nat /\ DOMAIN s = MapperFields /\ first \in Nat /\ IdsPerRun \in Nat
    BY DEF Placed, Reserved, SessionRight, Dicts, MapperDicts, MapperFields
  <2>2. Looked(d, job, first, s, u, 2)
    BY ResolveTeamRight DEF Placed
  <2>3. u.nextId \in Nat /\ u.nextId <= s.nextId + 2
    BY <2>2 DEF Looked, RowsMoved
  <2> QED
    BY <2>1, <2>2, <2>3
<1>1. CASE api.id \in DOMAIN s.teamByExt
  <2>1. u = s
    BY <1>1 DEF Mapper!ResolveTeam
  <2> QED
    BY <2>1 DEF Carried, FactsCarried, CoverCarried
<1>2. CASE api.id \notin DOMAIN s.teamByExt
  <2>1. /\ u.teams = IF known THEN s.teams ELSE s.teams \cup {newTeam}
        /\ u.teamLinks = s.teamLinks \cup {newLink}
        /\ \A f \in MapperFields \ {"teams", "nextId", "teamByName", "teamLinks", "teamByExt"} :
             u[f] = s[f]
    BY <1>0, <1>2, TableNames DEF Mapper!ResolveTeam, MapperFields, Mapper!Put, Put,
       FootballData, Mapper!FootballData
  <2> HIDE DEF u
  <2>2. /\ u.venueByName = s.venueByName
        /\ u.venues = s.venues /\ u.matches = s.matches /\ u.matchLinks = s.matchLinks
        /\ u.seasons = s.seasons
    BY <2>1, TableNames DEF MapperFields
  <2>3. /\ newTeam.id = s.nextId /\ newTeam.name = name
        /\ newLink.team = team /\ newLink.source = FootballData /\ newLink.ext = api.id
    OBVIOUS
  <2> HIDE DEF newTeam, newLink, name
  <2>4. MapperMirrors(s)
    BY DEF SessionClean, SessionSound
  <2>5. PICK t \in u.teams : t.id = team /\ Lowered[t.name] = key
    <3>1. CASE known
      BY <2>1, <2>4, <3>1 DEF MapperMirrors
    <3>2. CASE ~known
      BY <2>1, <2>3, <3>2 DEF key
    <3> QED
      BY <3>1, <3>2
  <2>6. ClubTold(Concat(d, u), newLink)
    <3>1. \A side \in Clubs : side.id = newLink.ext => Lowered[Cleaned[side.name]] = Lowered[t.name]
      <4>1. api \in Clubs
        BY DEF Clubs, Placed
      <4> QED
        BY <2>3, <2>5, <4>1 DEF OneClubPerId, key, name
    <3> QED
      BY <2>3, <2>5, <3>1, ConcatRows DEF ClubTold
  <2>7. LinksTell(Concat(d, u))
    <3>1. \A l \in u["teamLinks"] \ s["teamLinks"] : l = newLink
      BY <2>1
    <3>2. u["matchLinks"] \ s["matchLinks"] = {}
      BY <2>2
    <3>3. RowsMoved(s, u)
      BY <1>0 DEF Looked
    <3> QED
      BY <2>6, <3>1, <3>2, <3>3, MovesKeepTold DEF SessionTold
  <2>8. VenuesMirrored(u)
    BY <2>2 DEF SessionTold, VenuesMirrored
  <2>9. Carried(d, s, u)
    <3>1. s["teams"] \subseteq u["teams"] /\ s["venues"] \subseteq u["venues"]
      BY <2>1, <2>2
    <3> QED
      BY <1>0, <2>2, <3>1, OtherRowsCarry
  <2> QED
    BY <2>7, <2>8, <2>9 DEF SessionTold, u
<1> QED
  BY <1>1, <1>2

\* _resolve_venue: the new name is the new row's.
LEMMA ResolveVenueTold ==
  ASSUME NEW d, Based(d), NEW first, NEW job, job.kind = "mapper",
         NEW s, Placed(d, job, first, s), SessionTold(d, s),
         s.nextId + 2 <= first + IdsPerRun, NEW raw
  PROVE  LET u == Mapper!ResolveVenue(s, raw) IN SessionTold(d, u) /\ Carried(d, s, u)
<1> DEFINE u == Mapper!ResolveVenue(s, raw)
           newVenue == [id |-> s.nextId, name |-> Cleaned[raw]]
<1>0. /\ s.nextId \in Nat /\ DOMAIN s = MapperFields /\ u.nextId <= first + IdsPerRun
      /\ Looked(d, job, first, s, u, 2)
  <2>1. /\ s.nextId \in Nat /\ DOMAIN s = MapperFields /\ first \in Nat /\ IdsPerRun \in Nat
    BY DEF Placed, Reserved, SessionRight, Dicts, MapperDicts, MapperFields
  <2>2. Looked(d, job, first, s, u, 2)
    BY ResolveVenueRight DEF Placed
  <2>3. u.nextId \in Nat /\ u.nextId <= s.nextId + 2
    BY <2>2 DEF Looked, RowsMoved
  <2> QED
    BY <2>1, <2>2, <2>3
<1>1. CASE Mapper!Venueless(raw) \/ Cleaned[raw] \in DOMAIN s.venueByName
  <2>1. u = s
    BY <1>1 DEF Mapper!ResolveVenue
  <2> QED
    BY <2>1 DEF Carried, FactsCarried, CoverCarried
<1>2. CASE ~(Mapper!Venueless(raw) \/ Cleaned[raw] \in DOMAIN s.venueByName)
  <2>1. /\ u.venues = s.venues \cup {newVenue}
        /\ u.venueByName = Put(s.venueByName, Cleaned[raw], s.nextId)
        /\ \A f \in MapperFields \ {"venues", "nextId", "venueByName"} : u[f] = s[f]
    BY <1>0, <1>2, TableNames DEF Mapper!ResolveVenue, MapperFields, Mapper!Put, Put
  <2> HIDE DEF u
  <2>2. /\ u.teams = s.teams /\ u.teamLinks = s.teamLinks
        /\ u.matches = s.matches /\ u.matchLinks = s.matchLinks /\ u.seasons = s.seasons
    BY <2>1, TableNames DEF MapperFields
  <2>3. newVenue.id = s.nextId /\ newVenue.name = Cleaned[raw]
    OBVIOUS
  <2>4. LinksTell(Concat(d, u))
    <3>1. RowsMoved(s, u)
      BY <1>0 DEF Looked
    <3> QED
      BY <2>2, <3>1, MovesKeepTold DEF SessionTold
  <2>5. VenuesMirrored(u)
    <3>1. /\ DOMAIN u.venueByName = DOMAIN s.venueByName \cup {Cleaned[raw]}
          /\ u.venueByName[Cleaned[raw]] = s.nextId
          /\ \A n \in DOMAIN s.venueByName : n # Cleaned[raw] => u.venueByName[n] = s.venueByName[n]
      BY <2>1 DEF Put
    <3> HIDE DEF newVenue
    <3> QED
      BY <2>1, <2>3, <3>1 DEF SessionTold, VenuesMirrored
  <2>6. Carried(d, s, u)
    <3>1. s["teams"] \subseteq u["teams"] /\ s["venues"] \subseteq u["venues"]
      BY <2>1, <2>2
    <3> QED
      BY <1>0, <2>2, <3>1, OtherRowsCarry
  <2> QED
    BY <2>4, <2>5, <2>6 DEF SessionTold, u
<1> QED
  BY <1>1, <1>2

\* A match that by its season, its matchday and its linked sides is the one
\* reported; and one that holds what is reported of it.
IsFixture(d, s, job, raw, m) ==
  /\ m.matchday = raw.matchday
  /\ \E q \in d["seasons"] \cup s["seasons"],
        h \in d["teamLinks"] \cup s["teamLinks"], a \in d["teamLinks"] \cup s["teamLinks"] :
       /\ q.id = m.season /\ q.year = job.year
       /\ SideLink(h, m.home) /\ h.ext = raw.home.id
       /\ SideLink(a, m.away) /\ a.ext = raw.away.id

Reported(d, s, job, raw, m) ==
  /\ IsFixture(d, s, job, raw, m)
  /\ m.at = raw.at /\ m.venue = Mapper!VenueId(s, raw.venue)
  /\ m.status = Mapper!MapStatus(raw.status) /\ m.score = raw.score

LEMMA KeyedFixture ==
  ASSUME NEW d, NEW first, NEW job, job.kind = "mapper",
         NEW s, Placed(d, job, first, s), MapperMirrors(s), OneSeason(job, s["seasons"]),
         NEW raw, raw.home.id \in DOMAIN s.teamByExt, raw.away.id \in DOMAIN s.teamByExt,
         NEW m, NaturalKey(m) =
           <<s.season, raw.matchday, s.teamByExt[raw.home.id], s.teamByExt[raw.away.id]>>
  PROVE  IsFixture(d, s, job, raw, m)
<1>1. /\ m.season = s.season /\ m.matchday = raw.matchday
      /\ m.home = s.teamByExt[raw.home.id] /\ m.away = s.teamByExt[raw.away.id]
  BY DEF NaturalKey
<1>2. PICK h \in s.teamLinks : h.source = FootballData /\ h.ext = raw.home.id /\ h.team = m.home
  BY <1>1 DEF MapperMirrors, LinkMirror
<1>3. PICK a \in s.teamLinks : a.source = FootballData /\ a.ext = raw.away.id /\ a.team = m.away
  BY <1>1 DEF MapperMirrors, LinkMirror
<1>4. PICK q \in s["seasons"] : q.id = s.season /\ q.year = job.year
  BY DEF OneSeason, Placed, SessionRight, Dicts, MapperDicts, IdsOf
<1>5. SideLink(h, m.home) /\ SideLink(a, m.away)
  BY <1>2, <1>3 DEF SideLink
<1> QED
  BY <1>1, <1>2, <1>3, <1>4, <1>5 DEF IsFixture

\* The API tells of the linked fixture what it has told before.
LEMMA LinkedFixture ==
  ASSUME NEW d, NEW first, NEW job, job.kind = "mapper",
         NEW s, Placed(d, job, first, s), MapperMirrors(s), LinksTell(Concat(d, s)),
         s.nextId <= first + IdsPerRun,
         NEW i \in DOMAIN job.rows, job.rows[i].matchday # None,
         job.rows[i].id \in DOMAIN s.matchByExt,
         NEW m \in s["matches"], m.id = s.matchByExt[job.rows[i].id]
  PROVE  IsFixture(d, s, job, job.rows[i], m)
<1> DEFINE raw == job.rows[i]
<1>1. PICK l \in s.matchLinks : l.source = FootballData /\ l.ext = raw.id /\ l.match = m.id
  BY DEF MapperMirrors, LinkMirror
<1>2. FixtureTold(Concat(d, s), l)
  BY <1>1, ConcatRows DEF LinksTell
<1>3. PICK n \in d["matches"] \cup s["matches"], q \in d["seasons"] \cup s["seasons"],
           h \in d["teamLinks"] \cup s["teamLinks"], a \in d["teamLinks"] \cup s["teamLinks"] :
        /\ n.id = l.match /\ q.id = n.season
        /\ SideLink(h, n.home) /\ SideLink(a, n.away)
        /\ ReportedOnlyAs(l.ext, q.year, n.matchday, h.ext, a.ext)
  BY <1>2, ConcatRows DEF FixtureTold
<1>4. n.season = m.season /\ n.matchday = m.matchday /\ n.home = m.home /\ n.away = m.away
  <2>1. Alike("matches", n, m)
    BY <1>1, <1>3, OneRowPerId, TableNames
  <2> QED
    BY <2>1, AlikeRows, TableNames
<1>5. job.year = q.year /\ raw.matchday = n.matchday /\ raw.home.id = h.ext /\ raw.away.id = a.ext
  BY <1>1, <1>3 DEF ReportedOnlyAs, Placed
<1> QED
  BY <1>3, <1>4, <1>5 DEF IsFixture

\* The tail of the loop body: the matches it leaves, and what it links.
LEMMA UpsertMatchMakes ==
  ASSUME NEW d, NEW first, NEW job, job.kind = "mapper",
         NEW s, Placed(d, job, first, s), MapperMirrors(s), LinksTell(Concat(d, s)),
         OneSeason(job, s["seasons"]), s.nextId <= first + IdsPerRun,
         NEW i \in DOMAIN job.rows, job.rows[i].matchday # None,
         job.rows[i].home.id \in DOMAIN s.teamByExt, job.rows[i].away.id \in DOMAIN s.teamByExt
  PROVE  LET u == Mapper!UpsertMatch(s, job.rows[i]) IN
         /\ \A m \in u.matches : m \in s.matches \/ Reported(d, s, job, job.rows[i], m)
         /\ \A l \in u.matchLinks \ s.matchLinks :
              /\ l.source = FootballData => l.ext = job.rows[i].id
              /\ \E m \in u.matches : m.id = l.match /\ Reported(d, s, job, job.rows[i], m)
         /\ u.teams = s.teams /\ u.teamLinks = s.teamLinks /\ u.seasons = s.seasons
         /\ u.venues = s.venues /\ u.venueByName = s.venueByName
<1> DEFINE raw == job.rows[i]
           u == Mapper!UpsertMatch(s, raw)
           home == s.teamByExt[raw.home.id]
           away == s.teamByExt[raw.away.id]
           key  == <<s.season, raw.matchday, home, away>>
           linked == raw.id \in DOMAIN s.matchByExt
           found  == linked \/ key \in DOMAIN s.matchByKey
           match  == IF linked THEN s.matchByExt[raw.id]
                     ELSE IF found THEN s.matchByKey[key] ELSE s.nextId
           venue  == Mapper!VenueId(s, raw.venue)
           status == Mapper!MapStatus(raw.status)
           new == [id |-> match, season |-> s.season, matchday |-> raw.matchday,
                   home |-> home, away |-> away, at |-> raw.at, venue |-> venue,
                   status |-> status, score |-> raw.score]
           newLink == [id |-> s.nextId + 1, match |-> match, source |-> FootballData,
                       ext |-> raw.id]
           Now(m) == IF m.id = match
                       THEN [id |-> m.id, season |-> m.season, matchday |-> m.matchday,
                             home |-> m.home, away |-> m.away, at |-> raw.at,
                             venue |-> venue, status |-> status, score |-> raw.score]
                       ELSE m
<1>0. DOMAIN s = MapperFields
  BY DEF Placed, SessionRight, Dicts, MapperDicts, MapperFields
<1>1. /\ u.matches = IF found THEN {Now(m) : m \in s.matches} ELSE s.matches \cup {new}
      /\ u.matchLinks = IF linked THEN s.matchLinks ELSE s.matchLinks \cup {newLink}
      /\ \A f \in MapperFields \ {"matches", "nextId", "matchByKey", "matchLinks", "matchByExt"} :
           u[f] = s[f]
  BY <1>0, TableNames DEF Mapper!UpsertMatch, Mapper!Overwritten, MapperFields, Mapper!Put, Put,
     FootballData, Mapper!FootballData
<1> HIDE DEF u
<1>2. /\ u.teams = s.teams /\ u.teamLinks = s.teamLinks /\ u.seasons = s.seasons
      /\ u.venues = s.venues /\ u.venueByName = s.venueByName
  BY <1>1, TableNames DEF MapperFields
<1>3. /\ new.id = match /\ NaturalKey(new) = key
      /\ new.at = raw.at /\ new.venue = venue /\ new.status = status /\ new.score = raw.score
      /\ newLink.match = match /\ newLink.ext = raw.id
  BY DEF NaturalKey
<1>4. \A m \in s.matches : m.id = match =>
        /\ Now(m).id = m.id /\ Now(m).season = m.season /\ Now(m).matchday = m.matchday
        /\ Now(m).home = m.home /\ Now(m).away = m.away
        /\ Now(m).at = raw.at /\ Now(m).venue = venue /\ Now(m).status = status
        /\ Now(m).score = raw.score
  OBVIOUS
<1>5. \A m \in s.matches : m.id # match => Now(m) = m
  OBVIOUS
<1>6. ~linked /\ found => \E m \in s.matches : m.id = match /\ NaturalKey(m) = key
  BY DEF MapperMirrors
<1>7. (linked => found) /\ (linked => match = s.matchByExt[raw.id])
      /\ (linked <=> raw.id \in DOMAIN s.matchByExt)
  OBVIOUS
<1>8. \A m, n \in s.matches : m.id = n.id => m = n
  BY TableNames DEF Placed, SessionRight, RowsRight, UniqueOn
<1> HIDE DEF new, newLink, Now, match, venue, status, linked, found
<1>9. IsFixture(d, s, job, raw, new)
  BY <1>3, KeyedFixture
<1>10. ASSUME NEW m \in s.matches, m.id = match, found
       PROVE  IsFixture(d, s, job, raw, m)
  <2>1. CASE linked
    BY <1>7, <1>10, <2>1, LinkedFixture
  <2>2. CASE ~linked
    <3>1. NaturalKey(m) = key
      BY <1>6, <1>8, <1>10, <2>2
    <3> QED
      BY <3>1, KeyedFixture
  <2> QED
    BY <2>1, <2>2
<1>11. Reported(d, s, job, raw, new)
  BY <1>3, <1>9 DEF Reported, venue, status
<1>12. ASSUME NEW m \in s.matches, m.id = match, found
       PROVE  Reported(d, s, job, raw, Now(m))
  <2>1. IsFixture(d, s, job, raw, Now(m))
    BY <1>4, <1>10, <1>12 DEF IsFixture
  <2> QED
    BY <1>4, <1>12, <2>1 DEF Reported, venue, status
<1>13. \A m \in u.matches : m \in s.matches \/ Reported(d, s, job, raw, m)
  BY <1>1, <1>5, <1>11, <1>12
<1>14. ~linked => \E m \in u.matches : m.id = match /\ Reported(d, s, job, raw, m)
  <2>1. CASE found
    BY <1>1, <1>4, <1>6, <1>12, <2>1
  <2>2. CASE ~found
    BY <1>1, <1>3, <1>11, <2>2
  <2> QED
    BY <2>1, <2>2
<1>15. \A l \in u.matchLinks \ s.matchLinks : l = newLink /\ ~linked
  BY <1>1
<1> QED
  BY <1>2, <1>3, <1>13, <1>14, <1>15 DEF u

\* The season of a mapper is the one season of its year, and covers its feed.
Settled(d, job, s) ==
  job.kind = "mapper" => \A q \in d["seasons"] : q.year = job.year => q.id \in IdsOf(s["seasons"])
FeedWithin(job, s) ==
  job.kind = "mapper" =>
    \A q \in s["seasons"] : \A i \in DOMAIN job.rows : Covers(q, job.rows[i].at)

\* The club of a side has the name that the feed gives it.
LEMMA SideNamed ==
  ASSUME NEW d, Based(d), NEW first, NEW job, job.kind = "mapper",
         NEW s, Placed(d, job, first, s), LinksTell(Concat(d, s)), s.nextId <= first + IdsPerRun,
         NEW k \in d["teamLinks"] \cup s["teamLinks"], NEW team, SideLink(k, team),
         NEW side \in Sides(job), side.id = k.ext
  PROVE  Lowered[NameOf(World(d, s)["teams"], team)] = Lowered[Cleaned[side.name]]
<1>1. ClubTold(Concat(d, s), k)
  BY ConcatRows DEF LinksTell, SideLink
<1>2. PICK t \in d["teams"] \cup s["teams"] :
        /\ t.id = k.team
        /\ \A x \in Clubs : x.id = k.ext => Lowered[Cleaned[x.name]] = Lowered[t.name]
  BY <1>1, ConcatRows DEF ClubTold
<1>3. World(d, s)["teams"] = d["teams"] \cup s["teams"]
  BY WorldConcat, TableNames
<1>4. \A x, y \in World(d, s)["teams"] : x.id = y.id => x = y
  BY WorldNumbers DEF Rooted
<1>5. t.id # None
  BY WorldNumbers, TableNames
<1>6. NameOf(World(d, s)["teams"], t.id) = IF t.id = None THEN None ELSE t.name
  BY <1>3, <1>4, NameOfRow
<1>7. NameOf(World(d, s)["teams"], team) = t.name
  BY <1>2, <1>5, <1>6 DEF SideLink
<1>8. side \in Clubs
  BY DEF Clubs, Placed
<1> QED
  BY <1>2, <1>7, <1>8

\* A stadium of the session by the name under which it is looked up.
LEMMA VenueNamed ==
  ASSUME NEW d, Based(d), NEW first, NEW job, NEW s, Placed(d, job, first, s),
         VenuesMirrored(s), NEW n \in DOMAIN s.venueByName
  PROVE  NameOf(World(d, s)["venues"], s.venueByName[n]) = n
<1>1. PICK v \in s["venues"] : v.id = s.venueByName[n] /\ v.name = n
  BY DEF VenuesMirrored
<1>2. \A x, y \in World(d, s)["venues"] : x.id = y.id => x = y
  BY WorldNumbers DEF Rooted
<1>3. v.id # None
  BY WorldNumbers, TableNames
<1>4. v \in World(d, s)["venues"]
  BY TableNames DEF World
<1>5. NameOf(World(d, s)["venues"], v.id) = IF v.id = None THEN None ELSE v.name
  BY <1>2, <1>4, NameOfRow
<1> QED
  BY <1>1, <1>3, <1>5

\* What is reported is a fact of the feed.
LEMMA ReportedFact ==
  ASSUME NEW d, Based(d), NEW first, NEW job, job.kind = "mapper",
         NEW s, Placed(d, job, first, s), SessionTold(d, s), s.nextId <= first + IdsPerRun,
         NEW i \in DOMAIN job.rows,
         \/ Mapper!Venueless(job.rows[i].venue)
         \/ Cleaned[job.rows[i].venue] \in DOMAIN s.venueByName,
         NEW m, Reported(d, s, job, job.rows[i], m)
  PROVE  FactOf(World(d, s), m) \in EveryFact
<1> DEFINE raw == job.rows[i]
           fact == <<Fixture(raw.matchday, Cleaned[raw.home.name], Cleaned[raw.away.name]), raw.at,
                     IF Mapper!Venueless(raw.venue) THEN None ELSE Cleaned[raw.venue],
                     Mapper!MapStatus(raw.status), raw.score>>
<1>1. /\ m.matchday = raw.matchday /\ m.at = raw.at /\ m.venue = Mapper!VenueId(s, raw.venue)
      /\ m.status = Mapper!MapStatus(raw.status) /\ m.score = raw.score
  BY DEF Reported, IsFixture
<1>2. PICK h \in d["teamLinks"] \cup s["teamLinks"], a \in d["teamLinks"] \cup s["teamLinks"] :
        /\ SideLink(h, m.home) /\ h.ext = raw.home.id
        /\ SideLink(a, m.away) /\ a.ext = raw.away.id
  BY DEF Reported, IsFixture
<1>3. raw.home \in Sides(job) /\ raw.away \in Sides(job)
  BY DEF Sides
<1>4. /\ Lowered[NameOf(World(d, s)["teams"], m.home)] = Lowered[Cleaned[raw.home.name]]
      /\ Lowered[NameOf(World(d, s)["teams"], m.away)] = Lowered[Cleaned[raw.away.name]]
  <2> HIDE DEF raw
  <2> QED
    BY <1>2, <1>3, SideNamed DEF SessionTold
<1>5. NameOf(World(d, s)["venues"], m.venue) =
        IF Mapper!Venueless(raw.venue) THEN None ELSE Cleaned[raw.venue]
  <2>1. CASE Mapper!Venueless(raw.venue)
    BY <1>1, <2>1 DEF NameOf, Mapper!VenueId
  <2>2. CASE ~Mapper!Venueless(raw.venue)
    <3>1. NameOf(World(d, s)["venues"], s.venueByName[Cleaned[raw.venue]]) = Cleaned[raw.venue]
      BY <2>2, VenueNamed DEF SessionTold
    <3> QED
      BY <1>1, <2>2, <3>1 DEF Mapper!VenueId
  <2> QED
    BY <2>1, <2>2
<1>6. FactOf(World(d, s), m) = fact
  BY <1>1, <1>4, <1>5 DEF FactOf, Fixture
<1>7. fact \in FactsOf(job)
  BY DEF FactsOf, Mapper!BatchRows
<1> QED
  BY <1>6, <1>7 DEF EveryFact, Placed

\* _resolve_team and _resolve_venue have been through: the match is updated, or
\* linked, to what is reported.
LEMMA UpsertMatchTold ==
  ASSUME OneFixturePerId, NEW d, Based(d), NEW first, NEW job, job.kind = "mapper",
         NEW s, Placed(d, job, first, s), SessionClean(d, job, s), SessionTold(d, s),
         OneSeason(job, s["seasons"]), FeedWithin(job, s), s.nextId + 2 <= first + IdsPerRun,
         NEW i \in DOMAIN job.rows, job.rows[i].matchday # None,
         job.rows[i].home.id \in DOMAIN s.teamByExt, job.rows[i].away.id \in DOMAIN s.teamByExt,
         \/ Mapper!Venueless(job.rows[i].venue)
         \/ Cleaned[job.rows[i].venue] \in DOMAIN s.venueByName
  PROVE  LET u == Mapper!UpsertMatch(s, job.rows[i]) IN
         /\ SessionTold(d, u) /\ FactsCarried(d, s, u)
         /\ Settled(d, job, s) => CoverCarried(d, s, u)
<1> DEFINE raw == job.rows[i]
           u == Mapper!UpsertMatch(s, raw)
<1>1. /\ s.nextId <= first + IdsPerRun /\ u.nextId <= first + IdsPerRun
      /\ Looked(d, job, first, s, u, 2)
  <2>1. /\ s.nextId \in Nat /\ first \in Nat /\ IdsPerRun \in Nat
    BY PlacedRows
  <2>2. Looked(d, job, first, s, u, 2)
    BY UpsertMatchRight DEF Placed
  <2>3. u.nextId \in Nat /\ u.nextId <= s.nextId + 2
    BY <2>2 DEF Looked, RowsMoved
  <2> QED
    BY <2>1, <2>2, <2>3
<1>2. Placed(d, job, first, u) /\ RowsMoved(s, u)
  <2>1. 2 \in Nat
    OBVIOUS
  <2> QED
    BY <1>1, <2>1, PlacedFurther DEF Looked
<1>3. /\ \A m \in u.matches : m \in s.matches \/ Reported(d, s, job, raw, m)
      /\ \A l \in u.matchLinks \ s.matchLinks :
           /\ l.source = FootballData => l.ext = raw.id
           /\ \E m \in u.matches : m.id = l.match /\ Reported(d, s, job, raw, m)
      /\ u.teams = s.teams /\ u.teamLinks = s.teamLinks /\ u.seasons = s.seasons
      /\ u.venues = s.venues /\ u.venueByName = s.venueByName
  BY <1>1, UpsertMatchMakes DEF SessionClean, SessionSound, SessionTold
<1> HIDE DEF u
<1>4. ASSUME NEW m, Reported(d, s, job, raw, m)
      PROVE  /\ FactOf(World(d, u), m) \in EveryFact
             /\ Settled(d, job, s) =>
                  \A q \in World(d, u)["seasons"] : q.id = m.season => Covers(q, m.at)
  <2>1. FactOf(World(d, s), m) \in EveryFact
    BY <1>1, <1>4, ReportedFact
  <2>2. /\ World(d, u)["teams"] = World(d, s)["teams"]
        /\ World(d, u)["venues"] = World(d, s)["venues"]
        /\ World(d, u)["seasons"] = s["seasons"] \cup {x \in d["seasons"] : x.id \notin IdsOf(s["seasons"])}
    BY <1>3, TableNames DEF World
  <2>3. FactOf(World(d, u), m) \in EveryFact
    BY <2>1, <2>2 DEF FactOf
  <2>4. PICK p \in d["seasons"] \cup s["seasons"] : p.id = m.season /\ p.year = job.year
    BY <1>4 DEF Reported, IsFixture
  <2>5. ASSUME Settled(d, job, s), NEW q \in World(d, u)["seasons"], q.id = m.season
        PROVE  Covers(q, m.at)
    <3>1. q \in d["seasons"] \cup s["seasons"]
      BY <2>2, <2>5
    <3>2. q.year = job.year
      <4>1. Alike("seasons", p, q)
        BY <1>1, <2>4, <2>5, <3>1, OneRowPerId, TableNames
      <4> QED
        BY <2>4, <4>1, AlikeRows, TableNames
    <3>3. q \in s["seasons"]
      BY <2>2, <2>5, <3>2 DEF Settled
    <3>4. m.at = raw.at
      BY <1>4 DEF Reported
    <3> QED
      BY <3>3, <3>4 DEF FeedWithin
  <2> QED
    BY <2>3, <2>5
<1>5. FactsCarried(d, s, u)
  BY <1>1, <1>2, <1>3, <1>4, LookupCarriesFacts
<1>6. Settled(d, job, s) => CoverCarried(d, s, u)
  <2>1. \A q \in u["seasons"] : \E p \in s["seasons"] : Wider(p, q)
    BY <1>3, SeasonsStay
  <2> QED
    BY <1>1, <1>2, <1>3, <1>4, <2>1, LookupCarriesCover
<1>7. VenuesMirrored(u)
  BY <1>3 DEF SessionTold, VenuesMirrored
<1>8. LinksTell(Concat(d, u))
  <2>1. ASSUME NEW l \in u["matchLinks"] \ s["matchLinks"], l.source = FootballData
        PROVE  FixtureTold(Concat(d, u), l)
    <3>1. PICK m \in u.matches : m.id = l.match /\ Reported(d, s, job, raw, m)
      BY <1>3
    <3>2. PICK q \in d["seasons"] \cup s["seasons"],
               h \in d["teamLinks"] \cup s["teamLinks"], a \in d["teamLinks"] \cup s["teamLinks"] :
            /\ m.matchday = raw.matchday /\ q.id = m.season /\ q.year = job.year
            /\ SideLink(h, m.home) /\ h.ext = raw.home.id
            /\ SideLink(a, m.away) /\ a.ext = raw.away.id
      BY <3>1 DEF Reported, IsFixture
    <3>3. ReportedOnlyAs(raw.id, job.year, raw.matchday, raw.home.id, raw.away.id)
      BY DEF ReportedOnlyAs, OneFixturePerId, Placed
    <3>4. l.ext = raw.id
      BY <1>3, <2>1
    <3>5. ReportedOnlyAs(l.ext, q.year, m.matchday, h.ext, a.ext)
      BY <3>2, <3>3, <3>4
    <3>6. /\ q \in Concat(d, u)["seasons"] /\ m \in Concat(d, u)["matches"]
          /\ h \in Concat(d, u)["teamLinks"] /\ a \in Concat(d, u)["teamLinks"]
      BY <1>3, <3>1, ConcatRows
    <3> QED
      BY <3>1, <3>2, <3>5, <3>6 DEF FixtureTold
  <2>2. u["teamLinks"] \ s["teamLinks"] = {}
    BY <1>3
  <2> QED
    BY <1>2, <2>1, <2>2, MovesKeepTold DEF SessionTold
<1> QED
  BY <1>5, <1>6, <1>7, <1>8 DEF SessionTold, u

\* A lookup of a bootstrap links nothing.
LEMMA BootstrapTells ==
  ASSUME NEW d, NEW s, NEW u, RowsMoved(s, u), LinksTell(Concat(d, s)),
         u["teamLinks"] = s["teamLinks"], u["matchLinks"] = s["matchLinks"]
  PROVE  LinksTell(Concat(d, u))
BY MovesKeepTold

LEMMA BootstrapLooked ==
  ASSUME NEW d, NEW first, NEW job, NEW s, Placed(d, job, first, s),
         s.nextId + 1 <= first + IdsPerRun, NEW u, Looked(d, job, first, s, u, 1)
  PROVE  u.nextId <= first + IdsPerRun /\ Placed(d, job, first, u) /\ RowsMoved(s, u) /\ 1 \in Nat
<1>1. 1 \in Nat
  OBVIOUS
<1>2. /\ Placed(d, job, first, u) /\ s.nextId \in Nat /\ u.nextId \in Nat
      /\ first \in Nat /\ IdsPerRun \in Nat /\ u.nextId <= s.nextId + 1
  BY <1>1, PlacedFurther
<1> QED
  BY <1>2 DEF Looked

\* The season of a row: afterwards it covers the row.
LEMMA WithSeasonTold ==
  ASSUME NEW d, Based(d), NEW first, NEW job, job.kind = "bootstrap",
         NEW s, Placed(d, job, first, s), SessionTold(d, s),
         s.nextId + 1 <= first + IdsPerRun, NEW i \in DOMAIN job.rows
  PROVE  LET u == Bootstrap!WithSeason(s, job.rows, job.rows[i]) IN
         /\ SessionTold(d, u) /\ Carried(d, s, u)
         /\ \A q \in u["seasons"] :
              q.id = u.seasonByYear[job.rows[i].year] => Covers(q, job.rows[i].at)
<1> DEFINE r == job.rows[i]
           u == Bootstrap!WithSeason(s, job.rows, r)
           dates == Bootstrap!DatesOf(job.rows, r.year)
           start == Lowest(dates)
           end   == Highest(dates)
           known == r.year \in DOMAIN s.seasonByYear
           id == s.seasonByYear[r.year]
           Now(q) == IF q.id = id
                       THEN [id |-> q.id, year |-> q.year, start |-> Lowest({q.start, start}),
                             end |-> Highest({q.end, end}), status |-> q.status]
                       ELSE q
           new == [id |-> s.nextId, year |-> r.year, start |-> start, end |-> end,
                   status |-> "finished"]
<1>0. /\ DOMAIN s = BootstrapFields /\ s.nextId \in Nat /\ s.nextId < first + IdsPerRun
      /\ Looked(d, job, first, s, u, 1)
  BY BootstrapMoves, WithSeasonRight
<1>1. /\ start \in Int /\ end \in Int
      /\ \A x \in dates : start <= x /\ x <= end
  BY FileDates DEF Placed
<1>2. /\ Bootstrap!Lowest(dates) = start /\ Bootstrap!Highest(dates) = end
      /\ \A x, y : /\ Bootstrap!Lowest({x, y}) = Lowest({x, y})
                   /\ Bootstrap!Highest({x, y}) = Highest({x, y})
  BY DEF Lowest, Highest, Bootstrap!Lowest, Bootstrap!Highest
<1>3. LocalDate(r.at) \in dates /\ r.at \in Int
  BY JobsAre DEF Bootstrap!DatesOf, Bootstrap!LocalDate, LocalDate, Placed
<1> HIDE DEF start, end
<1>4. start <= UtcDate(r.at) /\ LocalDate(r.at) <= end
  <2>1. start <= LocalDate(r.at) /\ LocalDate(r.at) <= end
    BY <1>1, <1>3
  <2>2. LocalDate(r.at) <= UtcDate(r.at) /\ LocalDate(r.at) \in Int /\ UtcDate(r.at) \in Int
    BY <1>3 DEF LocalDate, UtcDate
  <2> QED
    BY <1>1, <2>1, <2>2
<1>5. /\ u.seasons = IF known THEN {Now(q) : q \in s.seasons} ELSE s.seasons \cup {new}
      /\ u.seasonByYear = IF known THEN s.seasonByYear ELSE Put(s.seasonByYear, r.year, s.nextId)
      /\ \A f \in BootstrapFields \ {"seasons", "nextId", "seasonByYear"} : u[f] = s[f]
  BY <1>0, <1>2, TableNames DEF Bootstrap!WithSeason, BootstrapFields, Bootstrap!Put, Put
<1>6. /\ u.teams = s.teams /\ u.venues = s.venues /\ u.matches = s.matches
      /\ u.teamLinks = s.teamLinks /\ u.matchLinks = s.matchLinks
      /\ u.venueByName = s.venueByName
  BY <1>5, TableNames DEF BootstrapFields
<1>7. \A q \in s.seasons : Shaped("seasons", q)
  <2>1. ColumnsHold(s)
    BY PlacedRows DEF RowsRight
  <2> QED
    BY <2>1, ColumnsByRow, TableNames
<1>8. ASSUME NEW q \in s.seasons
      PROVE  /\ Wider(q, Now(q)) /\ Now(q).id = q.id
             /\ q.id = id => Now(q).start <= start /\ end <= Now(q).end
                             /\ Now(q).start \in Int /\ Now(q).end \in Int
  <2>1. q.start \in Int /\ q.end \in Int
    BY <1>7 DEF Shaped
  <2> DEFINE low == Lowest({q.start, start})   high == Highest({q.end, end})
  <2>2. low \in Int /\ low <= q.start /\ low <= start
    BY <1>1, <2>1, BoundsOfTwo
  <2>3. high \in Int /\ q.end <= high /\ end <= high
    <3>1. high = IF q.end >= end THEN q.end ELSE end
      BY <1>1, <2>1, BoundsOfTwo
    <3> HIDE DEF high
    <3> QED
      BY <1>1, <2>1, <3>1
  <2> HIDE DEF low, high
  <2>4. CASE q.id = id
    <3>1. Now(q) = [id |-> q.id, year |-> q.year, start |-> low, end |-> high, status |-> q.status]
      BY <2>4 DEF low, high
    <3> QED
      BY <2>2, <2>3, <3>1 DEF Wider
  <2>5. CASE q.id # id
    BY <2>1, <2>5 DEF Wider
  <2> QED
    BY <2>4, <2>5
<1>9. new.id = s.nextId /\ new.start = start /\ new.end = end
  OBVIOUS
<1>10. \A q \in s.seasons : q.id # s.nextId
  BY <1>0, LinkedIdsAreOld, TableNames
<1> HIDE DEF u, Now, new, r
<1>11. u.nextId <= first + IdsPerRun /\ Placed(d, job, first, u) /\ RowsMoved(s, u) /\ 1 \in Nat
  BY <1>0, BootstrapLooked
<1>12. \A q \in u["seasons"] : q.id \in IdsOf(s["seasons"]) => \E p \in s["seasons"] : Wider(p, q)
  <2>1. CASE known
    BY <1>5, <1>8, <2>1
  <2>2. CASE ~known
    <3>1. \A q \in s.seasons : Wider(q, q)
      BY SeasonsStay
    <3> QED
      BY <1>5, <1>9, <1>10, <2>2, <3>1 DEF IdsOf
  <2> QED
    BY <2>1, <2>2
<1>13. Carried(d, s, u)
  <2>1. FactsCarried(d, s, u)
    BY <1>6, <1>11, LookupCarriesFacts
  <2>2. CoverCarried(d, s, u)
    BY <1>6, <1>11, <1>12, LookupCarriesCover
  <2> QED
    BY <2>1, <2>2 DEF Carried
<1>14. SessionTold(d, u)
  <2>1. LinksTell(Concat(d, u))
    BY <1>6, <1>11, BootstrapTells DEF SessionTold
  <2> QED
    BY <1>6, <2>1 DEF SessionTold, VenuesMirrored
<1>15. \A q \in u["seasons"] : q.id = u.seasonByYear[r.year] => Covers(q, r.at)
  <2> SUFFICES ASSUME NEW q \in u["seasons"], q.id = u.seasonByYear[r.year]
               PROVE  q.start <= start /\ end <= q.end /\ q.start \in Int /\ q.end \in Int
    <3>1. LocalDate(r.at) \in Int /\ UtcDate(r.at) \in Int
      BY <1>3 DEF LocalDate, UtcDate
    <3> QED
      BY <1>1, <1>3, <1>4, <3>1 DEF Covers
  <2>1. CASE known
    <3>1. PICK p \in s.seasons : q = Now(p)
      BY <1>5, <2>1
    <3>2. p.id = id
      BY <1>5, <1>8, <2>1, <3>1
    <3> QED
      BY <1>8, <3>1, <3>2
  <2>2. CASE ~known
    <3>1. u.seasonByYear[r.year] = s.nextId
      BY <1>5, <2>2 DEF Put
    <3>2. q = new
      BY <1>5, <1>10, <2>2, <3>1
    <3> QED
      BY <1>1, <1>9, <3>2
  <2> QED
    BY <2>1, <2>2
<1> QED
  BY <1>13, <1>14, <1>15 DEF u, r

LEMMA WithTeamTold ==
  ASSUME NEW d, Based(d), NEW first, NEW job, job.kind = "bootstrap",
         NEW s, Placed(d, job, first, s), SessionTold(d, s),
         s.nextId + 1 <= first + IdsPerRun, NEW name
  PROVE  LET u == Bootstrap!WithTeam(s, name) IN
         /\ SessionTold(d, u) /\ Carried(d, s, u)
         /\ u.seasons = s.seasons /\ u.seasonByYear = s.seasonByYear
<1> DEFINE u == Bootstrap!WithTeam(s, name)
           new == [id |-> s.nextId, name |-> name]
<1>0. /\ DOMAIN s = BootstrapFields /\ s.nextId \in Nat /\ Looked(d, job, first, s, u, 1)
  BY BootstrapMoves, WithTeamRight
<1>1. CASE name \in DOMAIN s.teamByName
  <2>1. u = s
    BY <1>1 DEF Bootstrap!WithTeam
  <2> QED
    BY <2>1 DEF Carried, FactsCarried, CoverCarried
<1>2. CASE name \notin DOMAIN s.teamByName
  <2>1. /\ u.teams = s.teams \cup {new}
        /\ \A f \in BootstrapFields \ {"teams", "nextId", "teamByName"} : u[f] = s[f]
    BY <1>0, <1>2, TableNames DEF Bootstrap!WithTeam, BootstrapFields, Bootstrap!Put, Put
  <2> HIDE DEF u
  <2>2. /\ u.seasonByYear = s.seasonByYear /\ u.seasons = s.seasons /\ u.matches = s.matches
        /\ u.venues = s.venues /\ u.venueByName = s.venueByName
        /\ u.teamLinks = s.teamLinks /\ u.matchLinks = s.matchLinks
    BY <2>1, TableNames DEF BootstrapFields
  <2>3. u.nextId <= first + IdsPerRun /\ Placed(d, job, first, u) /\ RowsMoved(s, u) /\ 1 \in Nat
    BY <1>0, BootstrapLooked
  <2>4. Carried(d, s, u)
    BY <1>0, <2>1, <2>2, <2>3, OtherRowsCarry
  <2>5. SessionTold(d, u)
    <3>1. LinksTell(Concat(d, u))
      BY <2>2, <2>3, BootstrapTells DEF SessionTold
    <3> QED
      BY <2>2, <3>1 DEF SessionTold, VenuesMirrored
  <2> QED
    BY <2>2, <2>4, <2>5 DEF u
<1> QED
  BY <1>1, <1>2

LEMMA WithVenueTold ==
  ASSUME NEW d, Based(d), NEW first, NEW job, job.kind = "bootstrap",
         NEW s, Placed(d, job, first, s), SessionTold(d, s),
         s.nextId + 1 <= first + IdsPerRun, NEW name
  PROVE  LET u == Bootstrap!WithVenue(s, name) IN
         /\ SessionTold(d, u) /\ Carried(d, s, u)
         /\ u.seasons = s.seasons /\ u.seasonByYear = s.seasonByYear
<1> DEFINE u == Bootstrap!WithVenue(s, name)
           new == [id |-> s.nextId, name |-> name]
<1>0. /\ DOMAIN s = BootstrapFields /\ s.nextId \in Nat /\ Looked(d, job, first, s, u, 1)
  BY BootstrapMoves, WithVenueRight
<1>1. CASE name \in DOMAIN s.venueByName
  <2>1. u = s
    BY <1>1 DEF Bootstrap!WithVenue
  <2> QED
    BY <2>1 DEF Carried, FactsCarried, CoverCarried
<1>2. CASE name \notin DOMAIN s.venueByName
  <2>1. /\ u.venues = s.venues \cup {new}
        /\ u.venueByName = Put(s.venueByName, name, s.nextId)
        /\ \A f \in BootstrapFields \ {"venues", "nextId", "venueByName"} : u[f] = s[f]
    BY <1>0, <1>2, TableNames DEF Bootstrap!WithVenue, BootstrapFields, Bootstrap!Put, Put
  <2> HIDE DEF u
  <2>2. /\ u.seasonByYear = s.seasonByYear /\ u.seasons = s.seasons /\ u.matches = s.matches
        /\ u.teams = s.teams
        /\ u.teamLinks = s.teamLinks /\ u.matchLinks = s.matchLinks
    BY <2>1, TableNames DEF BootstrapFields
  <2>3. u.nextId <= first + IdsPerRun /\ Placed(d, job, first, u) /\ RowsMoved(s, u) /\ 1 \in Nat
    BY <1>0, BootstrapLooked
  <2>4. Carried(d, s, u)
    BY <1>0, <2>1, <2>2, <2>3, OtherRowsCarry
  <2>5. SessionTold(d, u)
    <3>1. LinksTell(Concat(d, u))
      BY <2>2, <2>3, BootstrapTells DEF SessionTold
    <3>2. /\ DOMAIN u.venueByName = DOMAIN s.venueByName \cup {name}
          /\ u.venueByName[name] = s.nextId
          /\ \A n \in DOMAIN s.venueByName : n # name => u.venueByName[n] = s.venueByName[n]
      BY <2>1 DEF Put
    <3>3. new.id = s.nextId /\ new.name = name
      OBVIOUS
    <3> HIDE DEF new
    <3>4. VenuesMirrored(u)
      BY <2>1, <3>2, <3>3 DEF SessionTold, VenuesMirrored
    <3> QED
      BY <3>1, <3>4 DEF SessionTold
  <2> QED
    BY <2>2, <2>4, <2>5 DEF u
<1> QED
  BY <1>1, <1>2

LEMMA WithParticipantTold ==
  ASSUME NEW d, Based(d), NEW first, NEW job, job.kind = "bootstrap",
         NEW s, Placed(d, job, first, s), SessionTold(d, s),
         s.nextId + 1 <= first + IdsPerRun,
         NEW season \in IdsOf(s.seasons), NEW team \in IdsOf(s.teams)
  PROVE  LET u == Bootstrap!WithParticipant(s, season, team) IN
         /\ SessionTold(d, u) /\ Carried(d, s, u)
         /\ u.seasonByYear = s.seasonByYear /\ u.teamByName = s.teamByName
<1> DEFINE u == Bootstrap!WithParticipant(s, season, team)
<1>0. /\ DOMAIN s = BootstrapFields /\ s.nextId \in Nat /\ Looked(d, job, first, s, u, 1)
  BY BootstrapMoves, WithParticipantRight
<1>1. \A f \in BootstrapFields \ {"seasonTeams", "nextId", "seasonTeamKeys"} : u[f] = s[f]
  BY <1>0, TableNames DEF Bootstrap!WithParticipant, BootstrapFields
<1> HIDE DEF u
<1>2. /\ u.seasonByYear = s.seasonByYear /\ u.seasons = s.seasons /\ u.matches = s.matches
      /\ u.teams = s.teams /\ u.teamByName = s.teamByName
      /\ u.venues = s.venues /\ u.venueByName = s.venueByName
      /\ u.teamLinks = s.teamLinks /\ u.matchLinks = s.matchLinks
  BY <1>1, TableNames DEF BootstrapFields
<1>3. u.nextId <= first + IdsPerRun /\ Placed(d, job, first, u) /\ RowsMoved(s, u) /\ 1 \in Nat
  BY <1>0, BootstrapLooked
<1>4. Carried(d, s, u)
  BY <1>0, <1>2, <1>3, OtherRowsCarry
<1>5. SessionTold(d, u)
  <2>1. LinksTell(Concat(d, u))
    BY <1>2, <1>3, BootstrapTells DEF SessionTold
  <2> QED
    BY <1>2, <2>1 DEF SessionTold, VenuesMirrored
<1> QED
  BY <1>2, <1>4, <1>5 DEF u

\* The match of a row, under the names of the row and within its season.
LEMMA WithMatchTold ==
  ASSUME NEW d, Based(d), NEW first, NEW job, job.kind = "bootstrap",
         NEW s, Placed(d, job, first, s), SessionTold(d, s),
         s.nextId + 1 <= first + IdsPerRun,
         NEW i \in DOMAIN job.rows, job.rows[i].venue \in DOMAIN s.venueByName,
         NEW season \in IdsOf(s.seasons), NEW home \in IdsOf(s.teams), NEW away \in IdsOf(s.teams),
         \A q \in s["seasons"] : q.id = season => Covers(q, job.rows[i].at),
         \A t \in s["teams"] : /\ t.id = home => t.name = job.rows[i].home
                               /\ t.id = away => t.name = job.rows[i].away
  PROVE  LET u == Bootstrap!WithMatch(s, job.rows[i], season, home, away) IN
         SessionTold(d, u) /\ Carried(d, s, u)
<1> DEFINE r == job.rows[i]
           u == Bootstrap!WithMatch(s, r, season, home, away)
           key == <<season, r.matchday, home, away>>
           new == [id |-> s.nextId, season |-> season, matchday |-> r.matchday,
                   home |-> home, away |-> away, at |-> r.at, venue |-> s.venueByName[r.venue],
                   status |-> "finished", score |-> r.score]
<1>0. /\ DOMAIN s = BootstrapFields /\ s.nextId \in Nat /\ Looked(d, job, first, s, u, 1)
  BY BootstrapMoves, WithMatchRight
<1>1. CASE key \in s.matchKeys
  <2>1. u = s
    BY <1>1 DEF Bootstrap!WithMatch
  <2> QED
    BY <2>1 DEF Carried, FactsCarried, CoverCarried
<1>2. CASE key \notin s.matchKeys
  <2>1. /\ u.matches = s.matches \cup {new}
        /\ \A f \in BootstrapFields \ {"matches", "nextId", "matchKeys"} : u[f] = s[f]
    BY <1>0, <1>2, TableNames DEF Bootstrap!WithMatch, BootstrapFields
  <2>2. /\ new.season = season /\ new.matchday = r.matchday /\ new.home = home /\ new.away = away
        /\ new.at = r.at /\ new.venue = s.venueByName[r.venue] /\ new.status = "finished"
        /\ new.score = r.score
    OBVIOUS
  <2> HIDE DEF u, new, key
  <2>3. /\ u.seasons = s.seasons /\ u.teams = s.teams
        /\ u.venues = s.venues /\ u.venueByName = s.venueByName
        /\ u.teamLinks = s.teamLinks /\ u.matchLinks = s.matchLinks
    BY <2>1, TableNames DEF BootstrapFields
  <2>4. u.nextId <= first + IdsPerRun /\ Placed(d, job, first, u) /\ RowsMoved(s, u)
    BY <1>0, BootstrapLooked
  <2>5. Rooted(World(d, u))
    BY <2>4, WorldNumbers
  <2>6. /\ s["seasons"] \subseteq World(d, u)["seasons"]
        /\ s["teams"] \subseteq World(d, u)["teams"]
        /\ World(d, u)["venues"] = World(d, s)["venues"]
    BY <2>3, TableNames DEF World
  <2>7. \A q \in World(d, u)["seasons"] : q.id = season => Covers(q, r.at)
    <3>1. PICK p \in s["seasons"] : p.id = season
      BY DEF IdsOf
    <3>2. \A q \in World(d, u)["seasons"] : q.id = season => q = p
      BY <2>5, <2>6, <3>1 DEF Rooted
    <3> QED
      BY <3>1, <3>2
  <2>8. FactOf(World(d, u), new) \in EveryFact
    <3>1. ASSUME NEW id \in IdsOf(s["teams"])
          PROVE  \E t \in s["teams"] : t.id = id /\ NameOf(World(d, u)["teams"], id) = t.name
      <4>1. PICK t \in s["teams"] : t.id = id
        BY <3>1 DEF IdsOf
      <4>2. t.id # None
        BY WorldNumbers, TableNames
      <4>3. \A x, y \in World(d, u)["teams"] : x.id = y.id => x = y
        BY <2>5 DEF Rooted
      <4>4. NameOf(World(d, u)["teams"], t.id) = IF t.id = None THEN None ELSE t.name
        BY <2>6, <4>3, NameOfRow
      <4> QED
        BY <4>1, <4>2, <4>4
    <3>2. /\ NameOf(World(d, u)["teams"], home) = r.home
          /\ NameOf(World(d, u)["teams"], away) = r.away
      BY <3>1
    <3>3. NameOf(World(d, u)["venues"], s.venueByName[r.venue]) = r.venue
      BY <2>6, VenueNamed DEF SessionTold
    <3>4. FactOf(World(d, u), new) =
            <<Fixture(r.matchday, r.home, r.away), r.at, r.venue, "finished", r.score>>
      BY <2>2, <3>2, <3>3 DEF FactOf
    <3>5. FactOf(World(d, u), new) \in FactsOf(job)
      BY <3>4 DEF FactsOf, Mapper!BatchRows
    <3> QED
      BY <3>5 DEF EveryFact, Placed
  <2>9. FactsCarried(d, s, u)
    BY <2>1, <2>3, <2>4, <2>8, LookupCarriesFacts
  <2>10. CoverCarried(d, s, u)
    <3>1. \A q \in u["seasons"] : \E p \in s["seasons"] : Wider(p, q)
      BY <2>3, SeasonsStay
    <3> QED
      BY <2>1, <2>2, <2>4, <2>7, <3>1, LookupCarriesCover
  <2>11. SessionTold(d, u)
    <3>1. LinksTell(Concat(d, u))
      BY <2>3, <2>4, BootstrapTells DEF SessionTold
    <3> QED
      BY <2>3, <3>1 DEF SessionTold, VenuesMirrored
  <2> QED
    BY <2>9, <2>10, <2>11 DEF Carried, u, r
<1> QED
  BY <1>1, <1>2

LEMMA CarriedFurther ==
  ASSUME NEW d, NEW s, NEW u, NEW v, Carried(d, s, u), Carried(d, u, v)
  PROVE  Carried(d, s, v)
BY DEF Carried, FactsCarried, CoverCarried

\* _import_row, lookup by lookup.
LEMMA ImportRowTold ==
  ASSUME SidesDiffer, NEW d, Based(d), NEW first, NEW job, job.kind = "bootstrap",
         NEW s, Placed(d, job, first, s), SessionClean(d, job, s), SessionTold(d, s),
         s.nextId + 7 <= first + IdsPerRun, NEW i \in DOMAIN job.rows
  PROVE  LET u == Bootstrap!AfterRow(s, job.rows, job.rows[i]) IN
         SessionTold(d, u) /\ Carried(d, s, u)
<1> DEFINE r == job.rows[i]
           a == Bootstrap!WithSeason(s, job.rows, r)
           b == Bootstrap!WithTeam(a, r.home)
           c == Bootstrap!WithTeam(b, r.away)
           t == Bootstrap!WithVenue(c, r.venue)
           season == t.seasonByYear[r.year]
           home == t.teamByName[r.home]
           away == t.teamByName[r.away]
           e == Bootstrap!WithParticipant(t, season, home)
           g == Bootstrap!WithParticipant(e, season, away)
           h == Bootstrap!WithMatch(g, r, season, home, away)
<1>0. /\ first \in Nat /\ IdsPerRun \in Nat /\ s.nextId \in Nat /\ first <= s.nextId
      /\ job \in Jobs /\ Reserved(d, first) /\ SessionRight(d, job, first, s)
      /\ s.nextId + 1 <= first + IdsPerRun
  BY DEF Placed, Reserved, SessionRight
<1> DEFINE Near(x, most) == /\ Placed(d, job, first, x) /\ SessionRight(d, job, first, x)
                            /\ SessionClean(d, job, x)
                            /\ SessionTold(d, x) /\ Carried(d, s, x)
                            /\ x.nextId \in Nat /\ first <= x.nextId
                            /\ x.nextId <= s.nextId + most
<1>2. ASSUME NEW x, NEW m \in Nat, Near(x, m), NEW y, Looked(d, job, first, x, y, 1),
             SessionClean(d, job, y), SessionTold(d, y), Carried(d, x, y)
      PROVE  Near(y, m + 1)
  <2>1. /\ Placed(d, job, first, y) /\ x.nextId \in Nat /\ y.nextId \in Nat
        /\ y.nextId <= x.nextId + 1
    BY <1>2, PlacedFurther
  <2>2. y.nextId <= s.nextId + (m + 1)
    BY <1>0, <1>2, <2>1
  <2>3. Carried(d, s, y)
    BY <1>2, CarriedFurther
  <2> QED
    BY <1>2, <2>1, <2>2, <2>3 DEF Placed
<1>3. ASSUME NEW x, NEW m \in Nat, Near(x, m), m <= 6
      PROVE  x.nextId + 1 <= first + IdsPerRun
  BY <1>0, <1>3
<1>4. Looked(d, job, first, s, a, 1) /\ r.year \in DOMAIN a.seasonByYear
  BY <1>0, WithSeasonRight
<1>5. /\ SessionClean(d, job, a) /\ SessionTold(d, a) /\ Carried(d, s, a)
      /\ \A q \in a["seasons"] : q.id = a.seasonByYear[r.year] => Covers(q, r.at)
  BY <1>0, WithSeasonClean, WithSeasonTold
<1>6. Near(s, 0)
  BY <1>0 DEF Carried, FactsCarried, CoverCarried
<1>7. Near(a, 1)
  BY <1>2, <1>4, <1>5, <1>6
<1> HIDE DEF Near
<1>8. \A x, m : Near(x, m) => /\ Placed(d, job, first, x) /\ SessionRight(d, job, first, x)
                              /\ SessionClean(d, job, x) /\ first <= x.nextId
                              /\ SessionTold(d, x) /\ Carried(d, s, x)
  BY DEF Near
<1> HIDE DEF a, r
<1>9. /\ Near(b, 2) /\ LookupsGrow(a, b) /\ r.home \in DOMAIN b.teamByName
      /\ b.seasons = a.seasons /\ b.seasonByYear = a.seasonByYear
  <2>1. a.nextId + 1 <= first + IdsPerRun
    BY <1>3, <1>7
  <2>2. Looked(d, job, first, a, b, 1) /\ LookupsGrow(a, b) /\ r.home \in DOMAIN b.teamByName
    BY <1>0, <1>7, <1>8, <2>1, WithTeamRight
  <2>3. /\ SessionClean(d, job, b) /\ SessionTold(d, b) /\ Carried(d, a, b)
        /\ b.seasons = a.seasons /\ b.seasonByYear = a.seasonByYear
    BY <1>7, <1>8, <2>1, WithTeamClean, WithTeamTold
  <2>4. Near(b, 1 + 1)
    BY <1>2, <1>7, <2>2, <2>3
  <2> QED
    BY <2>2, <2>3, <2>4
<1> HIDE DEF b
<1>10. /\ Near(c, 3) /\ LookupsGrow(b, c) /\ r.away \in DOMAIN c.teamByName
       /\ c.seasons = a.seasons /\ c.seasonByYear = a.seasonByYear
  <2>1. b.nextId + 1 <= first + IdsPerRun
    BY <1>3, <1>9
  <2>2. Looked(d, job, first, b, c, 1) /\ LookupsGrow(b, c) /\ r.away \in DOMAIN c.teamByName
    BY <1>0, <1>8, <1>9, <2>1, WithTeamRight
  <2>3. /\ SessionClean(d, job, c) /\ SessionTold(d, c) /\ Carried(d, b, c)
        /\ c.seasons = b.seasons /\ c.seasonByYear = b.seasonByYear
    BY <1>8, <1>9, <2>1, WithTeamClean, WithTeamTold
  <2>4. Near(c, 2 + 1)
    BY <1>2, <1>9, <2>2, <2>3
  <2> QED
    BY <1>9, <2>2, <2>3, <2>4
<1> HIDE DEF c
<1>11. /\ Near(t, 4) /\ LookupsGrow(c, t) /\ r.venue \in DOMAIN t.venueByName
       /\ t.seasons = a.seasons /\ t.seasonByYear = a.seasonByYear
  <2>1. c.nextId + 1 <= first + IdsPerRun
    BY <1>3, <1>10
  <2>2. Looked(d, job, first, c, t, 1) /\ LookupsGrow(c, t) /\ r.venue \in DOMAIN t.venueByName
    BY <1>0, <1>8, <1>10, <2>1, WithVenueRight
  <2>3. /\ SessionClean(d, job, t) /\ SessionTold(d, t) /\ Carried(d, c, t)
        /\ t.seasons = c.seasons /\ t.seasonByYear = c.seasonByYear
    BY <1>8, <1>10, <2>1, WithVenueClean, WithVenueTold
  <2>4. Near(t, 3 + 1)
    BY <1>2, <1>10, <2>2, <2>3
  <2> QED
    BY <1>10, <2>2, <2>3, <2>4
<1> HIDE DEF t
<1>12. /\ r.year \in DOMAIN t.seasonByYear
       /\ r.home \in DOMAIN t.teamByName /\ r.away \in DOMAIN t.teamByName
  BY <1>4, <1>9, <1>10, <1>11 DEF LookupsGrow
<1>13. season \in IdsOf(t.seasons) /\ home \in IdsOf(t.teams) /\ away \in IdsOf(t.teams)
  <2>1. BootstrapDicts(t)
    BY <1>8, <1>11 DEF SessionRight, Dicts
  <2> QED
    BY <1>12, <2>1 DEF BootstrapDicts
<1>14. \A x \in t["teams"] : (x.id = home => x.name = r.home) /\ (x.id = away => x.name = r.away)
  <2>1. BootstrapMirrors(t)
    BY <1>8, <1>11 DEF SessionClean, SessionSound
  <2>2. PICK x \in t.teams : x.id = home /\ x.name = r.home
    BY <1>12, <2>1 DEF BootstrapMirrors
  <2>3. PICK y \in t.teams : y.id = away /\ y.name = r.away
    BY <1>12, <2>1 DEF BootstrapMirrors
  <2>4. UniqueOn(t["teams"], LAMBDA q : q.id)
    BY <1>8, <1>11, TableNames DEF SessionRight, RowsRight
  <2>5. \A p, q \in t["teams"] : p.id = q.id => p = q
    BY <2>4 DEF UniqueOn
  <2> QED
    BY <2>2, <2>3, <2>5
<1>15. home # away
  <2>1. r.home # r.away
    BY <1>0 DEF SidesDiffer, r
  <2> QED
    BY <1>13, <1>14, <2>1 DEF IdsOf
<1>16. \A q \in t["seasons"] : q.id = season => Covers(q, r.at)
  BY <1>5, <1>11
<1> HIDE DEF season, home, away
<1>17. /\ Near(e, 5) /\ e.seasons = t.seasons /\ e.teams = t.teams
       /\ e.venueByName = t.venueByName
  <2>1. t.nextId + 1 <= first + IdsPerRun
    BY <1>3, <1>11
  <2>2. /\ Looked(d, job, first, t, e, 1) /\ e.seasons = t.seasons /\ e.teams = t.teams
        /\ e.venueByName = t.venueByName
    BY <1>0, <1>8, <1>11, <1>13, <2>1, WithParticipantRight
  <2>3. SessionClean(d, job, e) /\ SessionTold(d, e) /\ Carried(d, t, e)
    BY <1>8, <1>11, <1>13, <2>1, WithParticipantClean, WithParticipantTold
  <2>4. Near(e, 4 + 1)
    BY <1>2, <1>11, <2>2, <2>3
  <2> QED
    BY <2>2, <2>4
<1> HIDE DEF e
<1>18. /\ Near(g, 6) /\ g.seasons = t.seasons /\ g.teams = t.teams
       /\ g.venueByName = t.venueByName
  <2>1. e.nextId + 1 <= first + IdsPerRun
    BY <1>3, <1>17
  <2>2. /\ Looked(d, job, first, e, g, 1) /\ g.seasons = e.seasons /\ g.teams = e.teams
        /\ g.venueByName = e.venueByName
    BY <1>0, <1>8, <1>13, <1>17, <2>1, WithParticipantRight
  <2>3. SessionClean(d, job, g) /\ SessionTold(d, g) /\ Carried(d, e, g)
    BY <1>8, <1>13, <1>17, <2>1, WithParticipantClean, WithParticipantTold
  <2>4. Near(g, 5 + 1)
    BY <1>2, <1>17, <2>2, <2>3
  <2> QED
    BY <1>17, <2>2, <2>4
<1> HIDE DEF g
<1>19. SessionTold(d, h) /\ Carried(d, g, h)
  <2>1. g.nextId + 1 <= first + IdsPerRun
    BY <1>3, <1>18
  <2>2. Placed(d, job, first, g) /\ SessionTold(d, g) /\ r.venue \in DOMAIN g.venueByName
    BY <1>8, <1>11, <1>18
  <2>3. /\ season \in IdsOf(g.seasons) /\ home \in IdsOf(g.teams) /\ away \in IdsOf(g.teams)
        /\ \A q \in g["seasons"] : q.id = season => Covers(q, r.at)
        /\ \A x \in g["teams"] : (x.id = home => x.name = r.home) /\ (x.id = away => x.name = r.away)
    BY <1>13, <1>14, <1>16, <1>18
  <2> QED
    BY <2>1, <2>2, <2>3, WithMatchTold DEF r
<1>20. h = Bootstrap!AfterRow(s, job.rows, r)
  BY DEF Bootstrap!AfterRow, a, b, c, t, e, g, season, home, away
<1> HIDE DEF h
<1>21. SessionTold(d, h) /\ Carried(d, s, h)
  BY <1>8, <1>18, <1>19, CarriedFurther
<1> QED
  BY <1>20, <1>21 DEF r

\* One turn of either importer.
LEMMA AfterTold ==
  ASSUME OneClubPerId, OneFixturePerId, SidesDiffer, NEW d, Based(d),
         NEW first, NEW job, NEW s, Placed(d, job, first, s), SessionClean(d, job, s),
         SessionTold(d, s), FeedWithin(job, s),
         job.kind = "mapper" => OneSeason(job, s["seasons"]),
         s.nextId + 10 <= first + IdsPerRun, NEW j \in DOMAIN job.rows,
         ~(job.kind = "mapper" /\ job.rows[j].matchday = None),
         NEW i \in 1..Lookups(job.kind), Found(job, s, job.rows[j], i)
  PROVE  LET u == After(job, s, job.rows[j], i) IN
         /\ SessionTold(d, u) /\ FactsCarried(d, s, u)
         /\ Settled(d, job, s) => CoverCarried(d, s, u)
<1> DEFINE raw == job.rows[j]
           u == After(job, s, raw, i)
<1>0. /\ first \in Nat /\ IdsPerRun \in Nat /\ s.nextId \in Nat /\ job \in Jobs
      /\ job.kind \in {"mapper", "bootstrap"}
  BY JobsAre DEF Placed, Reserved, SessionRight
<1>1. /\ s.nextId + 7 <= first + IdsPerRun /\ s.nextId + 2 <= first + IdsPerRun
      /\ s.nextId + 1 <= first + IdsPerRun
  BY <1>0
<1>2. Carried(d, s, u) => FactsCarried(d, s, u) /\ CoverCarried(d, s, u)
  BY DEF Carried
<1>4. CASE job.kind = "mapper"
  <2>0. raw.home \in Sides(job) /\ raw.away \in Sides(job)
    BY DEF Sides
  <2>1. CASE i = 1
    <3>1. u = Mapper!ResolveTeam(s, raw.home)
      BY <1>4, <2>1 DEF After
    <3> HIDE DEF u
    <3>2. SessionTold(d, u) /\ Carried(d, s, u)
      BY <1>1, <1>4, <2>0, <3>1, ResolveTeamTold
    <3> QED
      BY <1>2, <3>2 DEF u
  <2>2. CASE i = 2
    <3>1. u = Mapper!ResolveTeam(s, raw.away)
      BY <1>4, <2>2 DEF After
    <3> HIDE DEF u
    <3>2. SessionTold(d, u) /\ Carried(d, s, u)
      BY <1>1, <1>4, <2>0, <3>1, ResolveTeamTold
    <3> QED
      BY <1>2, <3>2 DEF u
  <2>3. CASE i = 3
    <3>1. u = Mapper!ResolveVenue(s, raw.venue)
      BY <1>4, <2>3 DEF After
    <3> HIDE DEF u
    <3>2. SessionTold(d, u) /\ Carried(d, s, u)
      BY <1>1, <1>4, <3>1, ResolveVenueTold
    <3> QED
      BY <1>2, <3>2 DEF u
  <2>4. CASE i = 4
    <3>1. u = Mapper!UpsertMatch(s, raw)
      BY <1>4, <2>4 DEF After
    <3> HIDE DEF u
    <3>2. OneSeason(job, s["seasons"]) /\ raw.matchday # None
      BY <1>4
    <3>3. /\ raw.home.id \in DOMAIN s.teamByExt /\ raw.away.id \in DOMAIN s.teamByExt
          /\ Mapper!Venueless(raw.venue) \/ Cleaned[raw.venue] \in DOMAIN s.venueByName
      BY <1>4, <2>4 DEF Found
    <3>4. /\ SessionTold(d, u) /\ FactsCarried(d, s, u)
          /\ Settled(d, job, s) => CoverCarried(d, s, u)
      BY <1>1, <1>4, <3>1, <3>2, <3>3, UpsertMatchTold
    <3> QED
      BY <3>4 DEF u
  <2> QED
    BY <1>4, <2>1, <2>2, <2>3, <2>4 DEF Lookups
<1>5. CASE job.kind = "bootstrap"
  <2>0. job.kind # "mapper" /\ Lookups(job.kind) = 5
    BY <1>5 DEF Lookups
  <2> SUFFICES SessionTold(d, u) /\ Carried(d, s, u)
    BY <1>2
  <2>1. CASE i = 1
    <3>1. u = Bootstrap!WithSeason(s, job.rows, raw)
      BY <1>5, <2>0, <2>1 DEF After
    <3> HIDE DEF u
    <3> QED
      BY <1>1, <1>5, <3>1, WithSeasonTold
  <2>2. CASE i = 2
    <3>1. u = Bootstrap!WithTeam(s, raw.home)
      BY <1>5, <2>0, <2>2 DEF After
    <3> HIDE DEF u
    <3> QED
      BY <1>1, <1>5, <3>1, WithTeamTold
  <2>3. CASE i = 3
    <3>1. u = Bootstrap!WithTeam(s, raw.away)
      BY <1>5, <2>0, <2>3 DEF After
    <3> HIDE DEF u
    <3> QED
      BY <1>1, <1>5, <3>1, WithTeamTold
  <2>4. CASE i = 4
    <3>1. u = Bootstrap!WithVenue(s, raw.venue)
      BY <1>5, <2>0, <2>4 DEF After
    <3> HIDE DEF u
    <3> QED
      BY <1>1, <1>5, <3>1, WithVenueTold
  <2>5. CASE i = 5
    <3>1. u = Bootstrap!AfterRow(s, job.rows, raw)
      BY <1>5, <2>5 DEF After
    <3> HIDE DEF u
    <3> QED
      BY <1>1, <1>5, <3>1, ImportRowTold
  <2> QED
    BY <2>0, <2>1, <2>2, <2>3, <2>4, <2>5
<1> QED
  BY <1>0, <1>4, <1>5

-----------------------------------------------------------------------------
(* The session that is opened *)

\* The dates of a feed lie within their bounds.
LEMMA FeedSpan ==
  ASSUME NEW job \in Jobs
  PROVE  LET dates == Mapper!BatchDates(job) IN
         \A i \in DOMAIN job.rows :
           Lowest(dates) <= UtcDate(job.rows[i].at) /\ UtcDate(job.rows[i].at) <= Highest(dates)
<1> DEFINE R == job.rows
           lines == DOMAIN R
           dates == Mapper!BatchDates(job)
           f == [j \in lines |-> UtcDate(R[j].at)]
<1>1. IsFiniteSet(lines) /\ 1 \in lines
  <2>1. Len(R) \in Nat /\ DOMAIN R = 1..Len(R) /\ Len(R) >= 1
    BY JobsAre
  <2> HIDE DEF R
  <2>2. IsFiniteSet(1..Len(R))
    BY <2>1, FS_Interval
  <2> QED
    BY <2>1, <2>2
<1>2. f \in Surjection(lines, dates)
  BY DEF Surjection, Mapper!BatchDates, Mapper!BatchRows, Mapper!UtcDate, UtcDate
<1>3. IsFiniteSet(dates) /\ dates # {}
  <2>1. f[1] \in dates
    BY <1>1, <1>2 DEF Surjection
  <2> HIDE DEF f, dates, lines
  <2> QED
    BY <1>1, <1>2, <2>1, FS_Surjection
<1>4. dates \subseteq Int
  <2>1. \A j \in lines : f[j] \in Int
    BY JobsAre DEF UtcDate
  <2> QED
    BY <1>2, <2>1 DEF Surjection
<1>5. \A j \in lines : UtcDate(R[j].at) \in dates
  BY <1>2 DEF Surjection
<1> HIDE DEF dates
<1>6. \A x \in dates : Lowest(dates) <= x
  BY <1>3, <1>4, LowestOfFinite
<1>7. \A x \in dates : Highest(dates) >= x /\ Highest(dates) \in Int
  BY <1>3, <1>4, HighestOfFinite
<1>8. \A x \in dates : x <= Highest(dates)
  BY <1>4, <1>7
<1> QED
  BY <1>5, <1>6, <1>8 DEF dates

\* get_or_create_season: the season covers the feed, and what it covered.
LEMMA SeasonSpans ==
  ASSUME NEW how, DbRight(db, how), NEW job \in Jobs, NEW id
  PROVE  LET n == Mapper!SeasonAfter(job, id) IN
         /\ \A i \in DOMAIN job.rows : Covers(n, job.rows[i].at)
         /\ \/ \E s \in SeasonsOf(job.year) : Wider(s, n)
            \/ SeasonsOf(job.year) = {} /\ n.id = id
<1> DEFINE n == Mapper!SeasonAfter(job, id)
           start == Lowest(Mapper!BatchDates(job))
           end == Highest(Mapper!BatchDates(job))
           status == Mapper!BatchStatus(job)
           known == SeasonsOf(job.year)
           s == CHOOSE s \in known : TRUE
           new == [id |-> id, year |-> job.year, status |-> status, start |-> start, end |-> end]
           wide == [id |-> s.id, year |-> s.year, status |-> status,
                    start |-> Lowest({s.start, start}), end |-> Highest({s.end, end})]
<1>1. start \in Int /\ end \in Int
  BY FeedDates
<1>2. n = IF known = {} THEN new ELSE wide
  BY DEF Mapper!SeasonAfter, SeasonsOf, Mapper!Lowest, Mapper!Highest, Lowest, Highest
<1>3. \A i \in DOMAIN job.rows :
        /\ job.rows[i].at \in Int
        /\ start <= UtcDate(job.rows[i].at) /\ UtcDate(job.rows[i].at) <= end
  BY FeedSpan, JobsAre
<1> HIDE DEF n, start, end, status
<1>4. ASSUME NEW q, q.start \in Int, q.end \in Int, q.start <= start, end <= q.end
      PROVE  \A i \in DOMAIN job.rows : Covers(q, job.rows[i].at)
  <2> TAKE i \in DOMAIN job.rows
  <2> DEFINE at == job.rows[i].at
  <2>1. at \in Int /\ start <= UtcDate(at) /\ UtcDate(at) <= end
    BY <1>3
  <2> HIDE DEF at
  <2>2. LocalDate(at) <= UtcDate(at) /\ LocalDate(at) \in Int /\ UtcDate(at) \in Int
    BY <2>1 DEF LocalDate, UtcDate
  <2>3. q.start <= UtcDate(at) /\ LocalDate(at) <= q.end
    BY <1>1, <1>4, <2>1, <2>2
  <2> QED
    BY <2>1, <2>3 DEF Covers, at
<1>5. CASE known = {}
  <2>1. n = new
    BY <1>2, <1>5
  <2>2. n.start = start /\ n.end = end /\ n.id = id
    BY <2>1
  <2> QED
    BY <1>1, <1>4, <1>5, <2>2 DEF n
<1>6. CASE known # {}
  <2>1. s \in known /\ n = wide
    BY <1>2, <1>6
  <2>2. s \in db.seasons
    BY <2>1 DEF SeasonsOf
  <2>3. s.start \in Int /\ s.end \in Int
    BY <2>2 DEF DbRight, ColumnsHold
  <2> HIDE DEF s
  <2> DEFINE low == Lowest({s.start, start})   high == Highest({s.end, end})
  <2>4. low \in Int /\ low <= s.start /\ low <= start
    BY <1>1, <2>3, BoundsOfTwo
  <2>5. high \in Int /\ s.end <= high /\ end <= high
    <3>1. high = IF s.end >= end THEN s.end ELSE end
      BY <1>1, <2>3, BoundsOfTwo
    <3> HIDE DEF high
    <3> QED
      BY <1>1, <2>3, <3>1
  <2>6. n.id = s.id /\ n.start = low /\ n.end = high
    BY <2>1
  <2> HIDE DEF low, high
  <2>7. Wider(s, n)
    BY <2>4, <2>5, <2>6 DEF Wider
  <2> QED
    BY <1>4, <2>1, <2>4, <2>5, <2>6, <2>7 DEF n
<1> QED
  BY <1>5, <1>6

\* The names of stadiums lead to stadiums of that name.
LEMMA OpensMirrored ==
  ASSUME NEW r, r.job \in Jobs, NEW s \in Sessions(r),
         \A t \in Tables : s[t] = r.session[t]
  PROVE  VenuesMirrored(s)
<1> DEFINE e == TablesOf(r.session)
<1>1. DOMAIN e = Tables /\ \A t \in Tables : e[t] = r.session[t]
  BY DEF TablesOf
<1>2. ASSUME NEW top, NEW f, s = Joined(top, Joined(f, e)), "venueByName" \in DOMAIN f,
             "venueByName" \notin DOMAIN top
      PROVE  s.venueByName = f.venueByName
  <2>1. DOMAIN Joined(f, e) = DOMAIN f \cup Tables /\ Joined(f, e)["venueByName"] = f["venueByName"]
    BY <1>1, <1>2 DEF Joined
  <2> HIDE DEF e
  <2> DEFINE g == Joined(f, e)
  <2> HIDE DEF g
  <2>2. Joined(top, g)["venueByName"] = g["venueByName"]
    BY <1>2, <2>1 DEF Joined, g
  <2> QED
    BY <1>2, <2>1, <2>2 DEF g
<1>3. \A n \in DOMAIN s.venueByName : \E v \in e["venues"] : v.name = n /\ v.id = s.venueByName[n]
  <2>1. CASE r.job.kind = "mapper"
    <3> DEFINE top == [open |-> TRUE, nextId |-> FirstId(r.no) + 1,
                       season |-> (CHOOSE x \in e.seasons : x.year = r.job.year).id]
    <3>1. DOMAIN top = {"open", "nextId", "season"}
      OBVIOUS
    <3>2. PICK f \in Mapper!Dictionaries(e) : s = Joined(top, Joined(f, e))
      BY <2>1 DEF Sessions
    <3> HIDE DEF top, e
    <3>3. PICK teamByExt \in Mapper!LinkedTeams(Mapper!OfSource(e.teamLinks)),
               teamByName \in Mapper!FoldedTeams(e.teams),
               venueByName \in Mapper!NamedVenues(e.venues),
               matchByExt \in Mapper!LinkedMatches(Mapper!OfSource(e.matchLinks)),
               matchByKey \in Mapper!KeyedMatches(e.matches) :
            f = [teamByExt |-> teamByExt, teamByName |-> teamByName, venueByName |-> venueByName,
                 matchByExt |-> matchByExt, matchByKey |-> matchByKey]
      BY <3>2 DEF Mapper!Dictionaries
    <3>4. s.venueByName = venueByName
      BY <1>2, <3>1, <3>2, <3>3
    <3>5. \A n \in DOMAIN venueByName : \E v \in e.venues : v.name = n /\ v.id = venueByName[n]
      BY DEF Mapper!NamedVenues, Mapper!DictOf
    <3> QED
      BY <3>4, <3>5
  <2>2. CASE r.job.kind = "bootstrap"
    <3> DEFINE top == [open |-> TRUE, nextId |-> FirstId(r.no)]
    <3>1. DOMAIN top = {"open", "nextId"}
      OBVIOUS
    <3>2. PICK f \in Bootstrap!Lookups(e) : s = Joined(top, Joined(f, e))
      BY <2>2 DEF Sessions
    <3> HIDE DEF top, e
    <3>3. PICK seasons \in Bootstrap!SeasonIds(e.seasons), teams \in Bootstrap!NameIds(e.teams),
               named \in Bootstrap!NameIds(e.venues) :
            f = [seasonByYear |-> seasons, teamByName |-> teams, venueByName |-> named,
                 matchKeys |-> {Bootstrap!NaturalKey(m) : m \in e.matches},
                 seasonTeamKeys |-> {<<p.season, p.team>> : p \in e.seasonTeams}]
      BY <3>2 DEF Bootstrap!Lookups
    <3>4. s.venueByName = named
      BY <1>2, <3>1, <3>2, <3>3
    <3>5. \A n \in DOMAIN named : \E v \in e.venues : v.name = n /\ v.id = named[n]
      BY DEF Bootstrap!NameIds, Bootstrap!DictOf
    <3> QED
      BY <3>4, <3>5
  <2> QED
    BY <2>1, <2>2, JobsAre
<1>4. e["venues"] = s["venues"]
  BY <1>1, TableNames
<1> QED
  BY <1>3, <1>4 DEF VenuesMirrored

\* What is linked when a session opens is linked in the database.
LEMMA OpensTold ==
  ASSUME NEW d, LinksTell(d), NEW s,
         s["teamLinks"] \subseteq d["teamLinks"], s["matchLinks"] \subseteq d["matchLinks"]
  PROVE  LinksTell(Concat(d, s))
<1>1. Grows(d, Concat(d, s))
  BY ConcatRows, AlikeItself DEF Grows
<1>2. /\ Concat(d, s)["teamLinks"] = d["teamLinks"] \cup s["teamLinks"]
      /\ Concat(d, s)["matchLinks"] = d["matchLinks"] \cup s["matchLinks"]
  BY ConcatRows, TableNames
<1>3. /\ Concat(d, s)["teamLinks"] \subseteq d["teamLinks"]
      /\ Concat(d, s)["matchLinks"] \subseteq d["matchLinks"]
  BY <1>2
<1> QED
  BY <1>1, <1>3, LinksTellOn

\* What a SELECT brings, and what is made of the season at once.
OpensSeason(r) == r.job.kind = "mapper" /\ r.step = 1
ReadMade(r, q, seen, known) ==
  /\ \A t \in Tables : seen[t] \subseteq db[t] /\ known[t] = Learn(r.session[t], seen[t])
  /\ q.flushed = q.session /\ q.queue = Statements(known, q.session) /\ q.sent = r.sent
  /\ q.no = r.no /\ q.job = r.job /\ ~InLoopPhase(q)
  /\ OpensSeason(r) =>
       \A t \in Tables :
         /\ known[t] = IF t = "seasons" THEN SeasonsOf(r.job.year) ELSE {}
         /\ q.session[t] = IF t = "seasons" THEN {Mapper!SeasonAfter(r.job, FirstId(r.no))} ELSE {}
         /\ r.session[t] = {}
  /\ ~OpensSeason(r) =>
       /\ \A t \in Tables : q.session[t] = known[t]
       /\ r.job.kind = "mapper" => q.session["seasons"] = r.session["seasons"]

LEMMA ReadMakes ==
  ASSUME DOMAIN run = Workers, NEW w \in Workers,
         RunRight(db, fate, overlaps, run[w]), Read(w)
  PROVE  \E seen, known : ReadMade(run[w], run'[w], seen, known)
<1> DEFINE r     == run[w]
           table == Plan(r.job.kind)[r.step]
           seen  == IF table = "season"
                      THEN [EmptyDB EXCEPT !.seasons = SeasonsOf(r.job.year)]
                      ELSE Selected(w, table)
           known == [t \in Tables |-> Learn(r.session[t], seen[t])]
           first == table = "season" /\ r.job.kind = "mapper"
           n     == Mapper!SeasonAfter(r.job, FirstId(r.no))
           after == IF first THEN [known EXCEPT !.seasons = {n}] ELSE known
           more  == r.step < Len(Plan(r.job.kind))
           q     == run'[w]
<1>1. /\ r.pc = "reading" /\ r.job \in Jobs /\ r.job.kind \in {"mapper", "bootstrap"}
      /\ r.step \in Nat /\ 1 <= r.step /\ r.step <= Len(Plan(r.job.kind))
      /\ DOMAIN r = {"pc", "no", "job", "step", "row", "session", "flushed", "queue", "sent"}
  BY JobsAre DEF Read, RunRight, Standing
<1>2. /\ q.session = after /\ q.flushed = after /\ q.queue = Statements(known, after)
      /\ q.pc = (IF more THEN "reading" ELSE "read")
      /\ q.no = r.no /\ q.job = r.job /\ q.sent = r.sent
  BY <1>1 DEF Read
<1>3. ReadSoFar(db, r)
  BY <1>1 DEF RunRight, Working, InLoopPhase
<1>4. first <=> OpensSeason(r)
  BY <1>1, Plans DEF OpensSeason
<1>5. /\ r.job.kind = "mapper" => table \in {"season", "teamLinks", "teams", "venues", "matchLinks",
                                             "matches"}
      /\ r.job.kind = "bootstrap" => table \in {"seasons", "teams", "venues", "matches",
                                                "seasonTeams"}
  <2>3. r.step \in Nat /\ 1 <= r.step /\ r.step <= Len(Plan(r.job.kind))
    BY <1>1
  <2>1. CASE r.job.kind = "mapper"
    <3>2. Len(Plan(r.job.kind)) = 6
      BY <2>1, Plans
    <3> HIDE DEF r
    <3>1. r.step \in 1..6
      BY <2>3, <3>2
    <3> QED
      BY <2>1, <3>1, Plans
  <2>2. CASE r.job.kind = "bootstrap"
    <3>2. Len(Plan(r.job.kind)) = 5
      BY <2>2, Plans
    <3> HIDE DEF r
    <3>1. r.step \in 1..5
      BY <2>3, <3>2
    <3> QED
      BY <2>2, <3>1, Plans
  <2> QED
    BY <1>1, <2>1, <2>2
<1>6. /\ \A t \in Tables : seen[t] \subseteq db[t]
      /\ first => \A t \in Tables : seen[t] = IF t = "seasons" THEN SeasonsOf(r.job.year) ELSE {}
      /\ r.job.kind = "mapper" /\ ~first => seen["seasons"] = {}
  <2>1. CASE table = "season"
    <3>1. seen = [EmptyDB EXCEPT !.seasons = SeasonsOf(r.job.year)]
      BY <2>1
    <3>2. \A t \in Tables : seen[t] = IF t = "seasons" THEN SeasonsOf(r.job.year) ELSE {}
      BY <3>1, TableNames DEF EmptyDB
    <3> HIDE DEF seen
    <3>3. SeasonsOf(r.job.year) \subseteq db["seasons"]
      BY DEF SeasonsOf
    <3> QED
      BY <2>1, <3>2, <3>3, TableNames
  <2>2. CASE table = "matchLinks"
    <3>1. PICK found : found \subseteq db["matches"]
                       /\ seen = [EmptyDB EXCEPT !.matchLinks = db.matchLinks, !.matches = found]
      BY <2>2 DEF Selected
    <3>2. \A t \in Tables : seen[t] = CASE t = "matchLinks" -> db[t] [] t = "matches" -> found [] OTHER -> {}
      BY <3>1, TableNames DEF EmptyDB
    <3> HIDE DEF seen
    <3> QED
      BY <2>2, <3>1, <3>2, TableNames
  <2>3. CASE table \notin {"season", "matchLinks"}
    <3>1. table \in Tables
      BY <1>1, <1>5, <2>3, TableNames
    <3>2. seen = [EmptyDB EXCEPT ![table] = db[table]]
      BY <2>3 DEF Selected
    <3>3. \A t \in Tables : seen[t] = IF t = table THEN db[t] ELSE {}
      BY <3>1, <3>2, TableNames DEF EmptyDB
    <3> HIDE DEF seen
    <3> QED
      BY <1>1, <1>5, <2>3, <3>3, TableNames
  <2> QED
    BY <2>1, <2>2, <2>3
<1> HIDE DEF seen
<1>7. DOMAIN known = Tables /\ \A t \in Tables : known[t] = Learn(r.session[t], seen[t])
  OBVIOUS
<1> HIDE DEF known
<1>8. \A t \in Tables : after[t] = IF first /\ t = "seasons" THEN {n} ELSE known[t]
  BY <1>7, TableNames
<1> HIDE DEF n, after
<1>9. ASSUME first
      PROVE  \A t \in Tables :
               /\ known[t] = IF t = "seasons" THEN SeasonsOf(r.job.year) ELSE {}
               /\ after[t] = IF t = "seasons" THEN {n} ELSE {}
               /\ r.session[t] = {}
  <2>1. \A t \in Tables : r.session[t] = {}
    BY <1>1, <1>3, <1>4, <1>9, TableNames DEF ReadSoFar, EmptyDB, OpensSeason
  <2>2. \A t \in Tables : known[t] = seen[t]
    BY <1>7, <2>1 DEF Learn, IdsOf
  <2> QED
    BY <1>6, <1>8, <1>9, <2>1, <2>2
<1>10. ASSUME ~first
       PROVE  /\ \A t \in Tables : after[t] = known[t]
              /\ r.job.kind = "mapper" => after["seasons"] = r.session["seasons"]
  BY <1>6, <1>7, <1>8, <1>10, TableNames DEF Learn
<1>11. ~InLoopPhase(q)
  BY <1>2 DEF InLoopPhase
<1>12. ReadMade(r, q, seen, known)
  BY <1>2, <1>4, <1>6, <1>7, <1>9, <1>10, <1>11 DEF ReadMade, n
<1> QED
  BY <1>12

\* A run that gets to know rows leaves the database that a commit would make of
\* its session as it is.
LEMMA LearnedWorld ==
  ASSUME NEW d, \A t \in Tables : OneRowEach(d[t]), NEW s, NEW u, NEW seen,
         \A t \in Tables : seen[t] \subseteq d[t] /\ u[t] = Learn(s[t], seen[t])
  PROVE  World(d, u) = World(d, s)
<1>1. ASSUME NEW t \in Tables
      PROVE  World(d, u)[t] = World(d, s)[t]
  <2>1. /\ World(d, u)[t] = u[t] \cup {x \in d[t] : x.id \notin IdsOf(u[t])}
        /\ World(d, s)[t] = s[t] \cup {x \in d[t] : x.id \notin IdsOf(s[t])}
    BY DEF World
  <2>2. u[t] = s[t] \cup {x \in seen[t] : x.id \notin IdsOf(s[t])} /\ seen[t] \subseteq d[t]
    BY DEF Learn
  <2>3. ASSUME NEW x \in World(d, u)[t] PROVE x \in World(d, s)[t]
    BY <2>1, <2>2, <2>3 DEF IdsOf
  <2>4. ASSUME NEW x \in d[t], x.id \notin IdsOf(s[t])
        PROVE  x \in World(d, u)[t]
    <3>1. CASE x.id \notin IdsOf(u[t])
      BY <2>1, <3>1
    <3>2. CASE x.id \in IdsOf(u[t])
      <4>1. PICK y \in u[t] : y.id = x.id
        BY <3>2 DEF IdsOf
      <4>2. y \in d[t]
        BY <2>2, <2>4, <4>1 DEF IdsOf
      <4>3. y = x
        BY <2>4, <4>1, <4>2 DEF OneRowEach
      <4> QED
        BY <2>1, <4>1, <4>3
    <3> QED
      BY <3>1, <3>2
  <2> QED
    BY <2>1, <2>2, <2>3, <2>4
<1> QED
  BY <1>1 DEF World

LEMMA ReadReplays ==
  ASSUME IsHistory(fate), DbRight(db, fate), NEW r, NEW q, NEW seen, NEW known,
         ReadMade(r, q, seen, known), r.job \in Jobs,
         RunRight(db, fate, overlaps, r), r.pc = "reading", r.queue = {},
         RunRight(db, fate, overlaps, q), Replays(db, r.flushed, r.queue, r.sent)
  PROVE  Replays(db, q.flushed, q.queue, q.sent)
<1>1. /\ \A t \in Tables : seen[t] \subseteq db[t] /\ known[t] = Learn(r.session[t], seen[t])
      /\ q.flushed = q.session /\ q.queue = Statements(known, q.session) /\ q.sent = r.sent
  BY DEF ReadMade
<1>2. /\ StatementsRight(db, r) /\ ReadSoFar(db, r) /\ \A t \in Tables : r.flushed[t] = r.session[t]
      /\ ColumnsHold(db) /\ FlushRight(q)
  BY DEF RunRight, Working, InLoopPhase, FlushRight, DbRight
<1>3. \A st \in InOrder(r.sent) : st.table \in Tables
  BY <1>2, SentRows
<1>4. Replays(db, known, {}, r.sent)
  <2>1. \A t \in Tables : known[t] = Learn(r.flushed[t], seen[t])
    BY <1>1, <1>2
  <2>2. Replays(db, r.flushed, {}, r.sent) /\ \A t \in Tables : seen[t] \subseteq db[t]
    BY <1>1
  <2> QED
    BY <1>2, <1>3, <2>1, <2>2, LearnReplays
<1>5. \A t \in Tables : UniqueOn(known[t], LAMBDA x : x.id)
  <2>1. RowsRight(db, First(r), Base(r), r.session)
    BY <1>2 DEF ReadSoFar
  <2>2. RowsRight(db, First(r), Base(r), known)
    BY <1>1, <2>1, LearnedRows
  <2> QED
    BY <2>2 DEF RowsRight
<1>6. \A t \in Tables : UniqueOn(q.session[t], LAMBDA x : x.id) /\ \A y \in q.session[t] : Shaped(t, y)
  <2>1. \A t \in Tables : UniqueOn(q.flushed[t], LAMBDA x : x.id)
    BY <1>2 DEF FlushRight
  <2>2. ColumnsHold(q.flushed)
    BY <1>2 DEF FlushRight
  <2> QED
    BY <1>1, <2>1, <2>2, ColumnsByRow
<1>7. \A t \in Tables : \A x \in known[t] : \E y \in q.session[t] : Alike(t, x, y)
  <2>1. CASE OpensSeason(r)
    <3> DEFINE n == Mapper!SeasonAfter(r.job, FirstId(r.no))
    <3>1. \A t \in Tables : /\ known[t] = IF t = "seasons" THEN SeasonsOf(r.job.year) ELSE {}
                            /\ q.session[t] = IF t = "seasons" THEN {n} ELSE {}
      BY <2>1 DEF ReadMade
    <3>2. \/ \E s \in SeasonsOf(r.job.year) : Alike("seasons", s, n)
          \/ SeasonsOf(r.job.year) = {}
      BY SeasonRight
    <3>3. \A s, x \in SeasonsOf(r.job.year) : s = x
      BY DEF SeasonsOf, DbRight, SchemaHolds, SeasonsUnique, UniqueOn
    <3> HIDE DEF n
    <3> QED
      BY <3>1, <3>2, <3>3
  <2>2. CASE ~OpensSeason(r)
    BY <2>2, AlikeItself DEF ReadMade
  <2> QED
    BY <2>1, <2>2
<1>8. Replays(db, q.session, Statements(known, q.session), r.sent)
  BY <1>3, <1>4, <1>5, <1>6, <1>7, FlushReplays
<1> QED
  BY <1>1, <1>8

\* The season that is opened covers what the one in the database covered.
LEMMA ReadCarries ==
  ASSUME IsHistory(fate), DbRight(db, fate), NEW r, NEW q, NEW seen, NEW known,
         ReadMade(r, q, seen, known), r.job \in Jobs, Standing(r, fate), WithinIds(r),
         ReadSoFar(db, r), ReadSoFar(db, q)
  PROVE  FactsCarried(db, r.session, q.session) /\ CoverCarried(db, r.session, q.session)
<1>0. Based(db)
  BY DbBased
<1>1. CASE ~OpensSeason(r)
  <2>1. \A t \in Tables : seen[t] \subseteq db[t] /\ q.session[t] = Learn(r.session[t], seen[t])
    BY <1>1 DEF ReadMade
  <2>2. \A t \in Tables : OneRowEach(db[t])
    BY <1>0 DEF Based
  <2>3. World(db, q.session) = World(db, r.session)
    BY <2>1, <2>2, LearnedWorld
  <2> QED
    BY <2>3 DEF FactsCarried, CoverCarried
<1>2. CASE OpensSeason(r)
  <2> DEFINE n == Mapper!SeasonAfter(r.job, FirstId(r.no))
             w == World(db, r.session)   v == World(db, q.session)
  <2>1. \A t \in Tables : /\ q.session[t] = IF t = "seasons" THEN {n} ELSE {}
                          /\ r.session[t] = {}
    BY <1>2 DEF ReadMade
  <2>2. n.year = r.job.year /\ Shaped("seasons", n)
    BY SeasonRight
  <2>3. \/ \E s \in SeasonsOf(r.job.year) : Wider(s, n)
        \/ SeasonsOf(r.job.year) = {} /\ n.id = FirstId(r.no)
    BY SeasonSpans
  <2> HIDE DEF n
  <2>4. /\ \A t \in Tables : w[t] = db[t]
        /\ \A t \in Tables : t # "seasons" => v[t] = db[t]
        /\ v["seasons"] = {n} \cup {x \in db["seasons"] : x.id # n.id}
    <3>1. \A t \in Tables : /\ w[t] = r.session[t] \cup {x \in db[t] : x.id \notin IdsOf(r.session[t])}
                            /\ v[t] = q.session[t] \cup {x \in db[t] : x.id \notin IdsOf(q.session[t])}
      BY DEF World
    <3> HIDE DEF w, v
    <3>2. IdsOf({}) = {} /\ IdsOf({n}) = {n.id}
      BY DEF IdsOf
    <3>3. \A t \in Tables : w[t] = db[t]
      BY <2>1, <3>1, <3>2
    <3>4. \A t \in Tables : t # "seasons" => v[t] = db[t]
      BY <2>1, <3>1, <3>2
    <3>5. v["seasons"] = {n} \cup {x \in db["seasons"] : x.id \notin {n.id}}
      BY <2>1, <3>1, <3>2, TableNames
    <3> QED
      BY <3>3, <3>4, <3>5
  <2>5. Rooted(w) /\ Rooted(v)
    <3>1. ReferencesHold(db) /\ \A t \in Tables : OneRowEach(db[t])
      BY <1>0 DEF Based
    <3> QED
      BY <3>1, WorldRooted DEF ReadSoFar
  <2> HIDE DEF w, v
  <2>6. \A q1 \in db["seasons"] : Dated(q1)
    BY DEF DbRight, ColumnsHold, Dated
  <2>7. Dated(n)
    BY <2>2 DEF Shaped, Dated
  <2>8. n.id \in IdsOf(db["seasons"]) => \E p \in db["seasons"] : Wider(p, n)
    <3>1. CASE \E s \in SeasonsOf(r.job.year) : Wider(s, n)
      BY <3>1 DEF SeasonsOf
    <3>2. CASE n.id = FirstId(r.no)
      <4>1. Reserved(db, First(r))
        BY ReservedIds
      <4>2. First(r) \in Nat /\ IdsPerRun \in Nat /\ First(r) = FirstId(r.no)
        BY <4>1 DEF Reserved, First
      <4>3. Len(r.job.rows) \in Nat /\ Len(r.job.rows) >= 1 /\ 20 * Len(r.job.rows) < IdsPerRun
        BY JobsAre DEF IdsPerTurn
      <4>4. IdsPerRun >= 1
        BY <4>2, <4>3
      <4>5. First(r) \in First(r)..(First(r) + IdsPerRun - 1)
        BY <4>2, <4>4
      <4>6. \A x \in db["seasons"] : x.id # First(r)
        BY <4>1, <4>5, TableNames DEF Reserved
      <4> QED
        BY <3>2, <4>2, <4>6 DEF IdsOf
    <3> QED
      BY <2>3, <3>1, <3>2
  <2>9. FactsCarried(db, r.session, q.session)
    <3>1. /\ w["teams"] \subseteq v["teams"] /\ w["venues"] \subseteq v["venues"]
          /\ \A m \in v["matches"] : m \in w["matches"]
      BY <2>4, TableNames
    <3>2. FactsWhole(w) => FactsWhole(v)
      BY <2>5, <3>1, FactsKept
    <3> QED
      BY <3>2 DEF FactsCarried, w, v
  <2>10. CoverCarried(db, r.session, q.session)
    <3>1. /\ \A x \in w["seasons"] \cup v["seasons"] : Dated(x)
          /\ \A m \in v["matches"] : m \in w["matches"]
      BY <2>4, <2>6, <2>7, TableNames
    <3>2. ASSUME NEW x \in v["seasons"], x.id \in IdsOf(w["seasons"])
          PROVE  \E p \in w["seasons"] : Wider(p, x)
      <4>1. CASE x = n
        BY <2>4, <2>8, <3>2, <4>1, TableNames
      <4>2. CASE x \in db["seasons"]
        <5>1. x.start \in Int /\ x.end \in Int
          BY <2>6, <4>2 DEF Dated
        <5>2. Wider(x, x)
          BY <5>1 DEF Wider
        <5> QED
          BY <2>4, <4>2, <5>2, TableNames
      <4> QED
        BY <2>4, <3>2, <4>1, <4>2
    <3>3. Covering(w) => Covering(v)
      BY <2>5, <3>1, <3>2, CoversKept
    <3> QED
      BY <3>3 DEF CoverCarried, w, v
  <2> QED
    BY <2>9, <2>10
<1> QED
  BY <1>1, <1>2

-----------------------------------------------------------------------------
(* The steps of a run *)

LEMMA ReadExact ==
  ASSUME IsHistory(fate), DbRight(db, fate), DOMAIN run = Workers, NEW w \in Workers,
         RunRight(db, fate, overlaps, run[w]), ExactRun(db, fate, overlaps, run[w]), Read(w)
  PROVE  ExactRun(db, fate, overlaps, run'[w])
<1> DEFINE r == run[w]   q == run'[w]
<1>1. r.pc = "reading" /\ r.queue = {} /\ r.job \in Jobs /\ Standing(r, fate) /\ WithinIds(r)
  BY DEF Read, RunRight, Standing
<1>2. PICK seen, known : ReadMade(r, q, seen, known)
  BY ReadMakes
<1>3. RunRight(db, fate, overlaps, r) /\ RunRight(db, fate, overlaps, q)
      /\ ExactRun(db, fate, overlaps, r)
  BY ReadRight
<1> HIDE DEF r, q
<1>4. q.no = r.no /\ q.job = r.job /\ ~InLoopPhase(q)
  BY <1>2 DEF ReadMade
<1>5. ReadSoFar(db, r) /\ ReadSoFar(db, q)
  BY <1>1, <1>3, <1>4 DEF RunRight, Working, InLoopPhase
<1>6. FeedCovered(q)
  <2>1. CASE OpensSeason(r)
    <3> DEFINE n == Mapper!SeasonAfter(r.job, FirstId(r.no))
    <3>1. q.session["seasons"] = {n}
      BY <1>2, <2>1, TableNames DEF ReadMade
    <3>2. \A i \in DOMAIN r.job.rows : Covers(n, r.job.rows[i].at)
      BY <1>1, <1>3, SeasonSpans
    <3> QED
      BY <1>4, <3>1, <3>2 DEF FeedCovered
  <2>2. CASE ~OpensSeason(r)
    <3>1. r.job.kind = "mapper" => q.session["seasons"] = r.session["seasons"] /\ r.step # 1
      BY <1>2, <2>2 DEF ReadMade, OpensSeason
    <3>2. FeedCovered(r)
      BY <1>3 DEF ExactRun
    <3> QED
      BY <1>4, <3>1, <3>2 DEF FeedCovered
  <2> QED
    BY <2>1, <2>2
<1>7. ASSUME Undisturbed(fate, overlaps, q.no)
      PROVE  /\ Replays(db, q.flushed, q.queue, q.sent)
             /\ Covering(db) => Covering(World(db, q.session))
             /\ FactsWhole(db) => FactsWhole(World(db, q.session))
  <2>1. /\ Replays(db, r.flushed, r.queue, r.sent)
        /\ Covering(db) => Covering(World(db, r.session))
        /\ FactsWhole(db) => FactsWhole(World(db, r.session))
    BY <1>3, <1>4, <1>7 DEF ExactRun
  <2>2. Replays(db, q.flushed, q.queue, q.sent)
    BY <1>1, <1>2, <1>3, <2>1, ReadReplays
  <2>3. FactsCarried(db, r.session, q.session) /\ CoverCarried(db, r.session, q.session)
    BY <1>1, <1>2, <1>5, ReadCarries
  <2> QED
    BY <2>1, <2>2, <2>3 DEF FactsCarried, CoverCarried
<1> QED
  BY <1>4, <1>6, <1>7 DEF ExactRun, q

\* Facts and dates are of the rows alone.
LEMMA SameRows ==
  ASSUME NEW d, NEW e, \A t \in Tables : d[t] = e[t]
  PROVE  (Covering(d) <=> Covering(e)) /\ (FactsWhole(d) <=> FactsWhole(e))
<1>1. /\ d["matches"] = e["matches"] /\ d["seasons"] = e["seasons"]
      /\ d["teams"] = e["teams"] /\ d["venues"] = e["venues"]
  BY TableNames
<1>2. FactsWhole(d) <=> FactsWhole(e)
  <2>1. \A m : FactOf(d, m) = FactOf(e, m)
    BY <1>1 DEF FactOf
  <2> QED
    BY <1>1, <2>1, FactsAre
<1> QED
  BY <1>1, <1>2 DEF Covering

LEMMA SameSession ==
  ASSUME NEW d, NEW s, NEW u, \A t \in Tables : s[t] = u[t]
  PROVE  World(d, s) = World(d, u) /\ Concat(d, s) = Concat(d, u)
BY DEF World, Concat

LEMMA StartExact ==
  ASSUME DOMAIN run = Workers, NEW w \in Workers, NEW job \in Jobs, Start(w, job)
  PROVE  ExactRun(db, fate', overlaps', run'[w])
<1> DEFINE q == run'[w]
<1>1. /\ q.pc = "reading" /\ q.step = 1 /\ q.session = EmptyDB /\ q.flushed = EmptyDB
      /\ q.queue = {} /\ q.sent = <<>>
  BY DEF Start
<1> HIDE DEF q
<1>2. \A t \in Tables : q.session[t] = {} /\ q.flushed[t] = {}
  BY <1>1, TableNames DEF EmptyDB
<1>3. Replays(db, q.flushed, q.queue, q.sent)
  <2>1. q.queue \cup InOrder(q.sent) = {}
    BY <1>1 DEF InOrder
  <2>2. q.flushed["seasons"] = {} /\ q.flushed["matches"] = {}
    BY <1>2, TableNames
  <2> QED
    BY <2>1, <2>2 DEF Replays
<1>4. \A t \in Tables : World(db, q.session)[t] = db[t]
  BY <1>2 DEF World, IdsOf
<1>5. /\ Covering(db) <=> Covering(World(db, q.session))
      /\ FactsWhole(db) <=> FactsWhole(World(db, q.session))
  BY <1>4, SameRows
<1>6. FeedCovered(q) /\ ~InLoopPhase(q)
  BY <1>1 DEF FeedCovered, InLoopPhase
<1> QED
  BY <1>3, <1>5, <1>6 DEF ExactRun, q

LEMMA EnterLoopExact ==
  ASSUME NEW how, IsHistory(how), DbRight(db, how), LinksTell(db), NEW pairs, DOMAIN run = Workers,
         NEW w \in Workers, RunRight(db, how, pairs, run[w]), ExactRun(db, how, pairs, run[w]),
         EnterLoop(w)
  PROVE  ExactRun(db, how, pairs, run'[w])
<1> DEFINE r == run[w]   q == run'[w]
<1>1. /\ r.pc = "read" /\ r.job \in Jobs
      /\ DOMAIN r = {"pc", "no", "job", "step", "row", "session", "flushed", "queue", "sent"}
  BY DEF EnterLoop, RunRight, Standing
<1>2. PICK s \in Sessions(r) :
        run' = [run EXCEPT ![w].session = s, ![w].pc = "rows"]
  BY DEF EnterLoop
<1>3. /\ q.session = s /\ q.queue = r.queue /\ q.pc = "rows" /\ q.job = r.job /\ q.sent = r.sent
      /\ q.no = r.no /\ q.flushed = r.flushed
  BY <1>1, <1>2
<1>4. Standing(r, how) /\ WithinIds(r) /\ ReadSoFar(db, r) /\ ExactRun(db, how, pairs, r)
  BY <1>1 DEF RunRight, Working, InLoopPhase
<1>5. First(r) \in Nat /\ Base(r) \in Nat
  <2>1. First(r) \in Nat
    BY <1>4, OwnIdsAreOwn
  <2> QED
    BY <2>1 DEF Base
<1> HIDE DEF r, q
<1>6. \A t \in Tables : s[t] = r.session[t]
  BY <1>1, <1>4, <1>5, SessionsRight
<1>7. VenuesMirrored(s)
  BY <1>1, <1>6, OpensMirrored
<1>8. s["teamLinks"] \subseteq db["teamLinks"] /\ s["matchLinks"] \subseteq db["matchLinks"]
  <2>1. ASSUME NEW t \in {"teamLinks", "matchLinks"}, NEW x \in s[t]
        PROVE  x \in db[t]
    <3>1. t \in Tables /\ t \notin {"seasons", "matches"}
      BY TableNames
    <3>2. x \in r.session[t] /\ x.id \notin OwnIds(r)
      BY <1>4, <1>6, <2>1, <3>1 DEF ReadSoFar
    <3>3. OwnIds(r) = First(r)..(Base(r) - 1)
      BY <1>1 DEF OwnIds, NextOf, InLoopPhase
    <3>4. \E c \in db[t] : Alike(t, c, x)
      BY <1>4, <3>1, <3>2, <3>3 DEF ReadSoFar, RowsRight
    <3> QED
      BY <3>1, <3>4, AlikeRows
  <2> QED
    BY <2>1
<1>9. LinksTell(Concat(db, s))
  BY <1>8, OpensTold
<1>10. World(db, s) = World(db, r.session)
  BY <1>6, SameSession
<1>11. FeedCovered(q)
  BY <1>1, <1>3, <1>4, <1>6, TableNames DEF ExactRun, FeedCovered
<1> QED
  BY <1>3, <1>4, <1>7, <1>9, <1>10, <1>11 DEF ExactRun, q

LEMMA SkipExact ==
  ASSUME NEW how, NEW pairs, DOMAIN run = Workers, NEW w \in Workers,
         RunRight(db, how, pairs, run[w]), ExactRun(db, how, pairs, run[w]), Skip(w)
  PROVE  ExactRun(db, how, pairs, run'[w])
<1> DEFINE r == run[w]   q == run'[w]
<1>1. /\ r.pc = "rows"
      /\ DOMAIN r = {"pc", "no", "job", "step", "row", "session", "flushed", "queue", "sent"}
      /\ run' = [run EXCEPT ![w].row = @ + 1]
  BY DEF Skip, InLoop, RunRight, Standing
<1>2. /\ q.session = r.session /\ q.queue = r.queue /\ q.step = r.step /\ q.pc = r.pc
      /\ q.no = r.no /\ q.job = r.job /\ q.sent = r.sent /\ q.flushed = r.flushed
  BY <1>1
<1>3. ExactRun(db, how, pairs, r)
  OBVIOUS
<1> HIDE DEF r, q
<1> QED
  BY <1>2, <1>3 DEF ExactRun, FeedCovered, InLoopPhase, q

LEMMA CloseExact ==
  ASSUME NEW how, NEW pairs, DOMAIN run = Workers, NEW w \in Workers,
         RunRight(db, how, pairs, run[w]), ExactRun(db, how, pairs, run[w]), Close(w)
  PROVE  ExactRun(db, how, pairs, run'[w])
<1> DEFINE r == run[w]   q == run'[w]   now == TablesOf(r.session)
<1>1. /\ r.pc = "rows" /\ r.queue = {} /\ StatementsRight(db, r) /\ ExactRun(db, how, pairs, r)
      /\ FlushRight(r) /\ SessionRight(db, r.job, First(r), r.session)
      /\ DOMAIN r = {"pc", "no", "job", "step", "row", "session", "flushed", "queue", "sent"}
  BY DEF Close, RunRight, Standing, Working, InLoopPhase
<1>2. /\ q.session = r.session /\ q.queue = Statements(r.flushed, now) /\ q.flushed = now
      /\ q.pc = "closing" /\ q.no = r.no /\ q.job = r.job /\ q.sent = r.sent
  BY <1>1 DEF Close
<1>3. \A t \in Tables : now[t] = r.session[t]
  BY DEF TablesOf
<1> HIDE DEF r, q, now
<1>4. ASSUME Undisturbed(how, pairs, q.no)
      PROVE  Replays(db, q.flushed, q.queue, q.sent)
  <2>1. Replays(db, r.flushed, {}, r.sent)
    BY <1>1, <1>2, <1>4 DEF ExactRun
  <2>2. \A st \in InOrder(r.sent) : st.table \in Tables
    BY <1>1, SentRows
  <2>3. RowsRight(db, First(r), r.session.nextId, r.session)
    BY <1>1 DEF SessionRight
  <2>4. \A t \in Tables : UniqueOn(now[t], LAMBDA x : x.id)
    BY <1>3, <2>3 DEF RowsRight
  <2>5. \A t \in Tables : \A y \in now[t] : Shaped(t, y)
    BY <1>3, <2>3, ColumnsByRow DEF RowsRight
  <2>6. \A t \in Tables : /\ UniqueOn(r.flushed[t], LAMBDA x : x.id)
                          /\ \A x \in r.flushed[t] : \E y \in now[t] : Alike(t, x, y)
    BY <1>1, <1>3 DEF FlushRight
  <2>7. Replays(db, now, Statements(r.flushed, now), r.sent)
    BY <2>1, <2>2, <2>4, <2>5, <2>6, FlushReplays
  <2> QED
    BY <1>2, <2>7
<1>5. FeedCovered(q) /\ InLoopPhase(r) /\ InLoopPhase(q)
  BY <1>1, <1>2 DEF ExactRun, FeedCovered, InLoopPhase
<1> QED
  BY <1>1, <1>2, <1>4, <1>5 DEF ExactRun, q

LEMMA ExecuteExact ==
  ASSUME NEW how, DbRight(db, how), NEW pairs, DOMAIN run = Workers, NEW w \in Workers,
         RunRight(db, how, pairs, run[w]), ExactRun(db, how, pairs, run[w]), Execute(w)
  PROVE  ExactRun(db, how, pairs, run'[w])
<1> DEFINE r == run[w]   q == run'[w]
<1>1. PICK st \in Due(w) : run' = [run EXCEPT ![w].queue = @ \ {st}, ![w].sent = Append(@, st)]
  BY DEF Execute
<1>2. /\ DOMAIN r = {"pc", "no", "job", "step", "row", "session", "flushed", "queue", "sent"}
      /\ ExactRun(db, how, pairs, r) /\ StatementsRight(db, r) /\ st \in r.queue
  BY DEF RunRight, Standing, Due
<1>3. /\ q.session = r.session /\ q.queue = r.queue \ {st} /\ q.step = r.step /\ q.pc = r.pc
      /\ q.no = r.no /\ q.job = r.job /\ q.sent = Append(r.sent, st) /\ q.flushed = r.flushed
  BY <1>1, <1>2
<1> HIDE DEF r, q
<1>4. ASSUME Undisturbed(how, pairs, q.no)
      PROVE  Replays(db, q.flushed, q.queue, q.sent)
  <2>1. Replays(db, r.flushed, r.queue, r.sent)
    BY <1>2, <1>3, <1>4 DEF ExactRun
  <2>2. r.sent \in Seq(SentOf(r)) /\ ColumnsHold(db)
    BY <1>2 DEF StatementsRight, DbRight
  <2>3. \A t \in {"seasons", "matches"} :
          \A x \in InsertedBy(r.queue \cup InOrder(r.sent), t) : Shaped(t, x)
    BY <1>2, SentRows
  <2>4. Replays(db, r.flushed, r.queue \ {st}, Append(r.sent, st))
    BY <1>2, <2>1, <2>2, <2>3, ExecuteReplays
  <2> QED
    BY <1>3, <2>4
<1> QED
  BY <1>2, <1>3, <1>4 DEF ExactRun, FeedCovered, InLoopPhase, q

\* One turn of a loop: what it flushes is what it has made.
LEMMA TurnReplays ==
  ASSUME NEW d, NEW r, FlushRight(r), StatementsRight(d, r), Replays(d, r.flushed, {}, r.sent),
         NEW s, s = r.session, NEW first, NEW next, RowsRight(d, first, next, s),
         NEW u, NEW more, RowsRight(d, first, more, u), RowsMoved(s, u),
         NEW shown, \A t \in Tables : shown[t] \in {s[t], u[t]}
  PROVE  Replays(d, shown, Statements(r.flushed, shown), r.sent)
<1>1. \A st \in InOrder(r.sent) : st.table \in Tables
  BY SentRows
<1>2. ASSUME NEW t \in Tables
      PROVE  /\ UniqueOn(r.flushed[t], LAMBDA x : x.id) /\ UniqueOn(shown[t], LAMBDA x : x.id)
             /\ \A x \in r.flushed[t] : \E y \in shown[t] : Alike(t, x, y)
             /\ \A y \in shown[t] : Shaped(t, y)
  <2>1. UniqueOn(s[t], LAMBDA x : x.id) /\ UniqueOn(u[t], LAMBDA x : x.id)
    BY DEF RowsRight
  <2>2. (\A y \in s[t] : Shaped(t, y)) /\ (\A y \in u[t] : Shaped(t, y))
    BY ColumnsByRow DEF RowsRight
  <2>3. \A x \in s[t] : \E y \in shown[t] : Alike(t, x, y)
    BY AlikeItself DEF RowsMoved
  <2>4. /\ UniqueOn(r.flushed[t], LAMBDA x : x.id)
        /\ \A x \in r.flushed[t] : \E y \in s[t] : Alike(t, x, y)
    BY DEF FlushRight
  <2>5. \A x \in r.flushed[t] : \E y \in shown[t] : Alike(t, x, y)
    BY <2>3, <2>4, AlikeItself
  <2>6. UniqueOn(shown[t], LAMBDA x : x.id) /\ \A y \in shown[t] : Shaped(t, y)
    <3>1. CASE shown[t] = s[t]
      BY <2>1, <2>2, <3>1
    <3>2. CASE shown[t] = u[t]
      BY <2>1, <2>2, <3>2
    <3> QED
      BY <3>1, <3>2
  <2> QED
    BY <2>4, <2>5, <2>6
<1> QED
  BY <1>1, <1>2, FlushReplays

LEMMA TurnExact ==
  ASSUME SidesDiffer, OneClubPerId, OneFixturePerId,
         NEW how, IsHistory(how), DbRight(db, how), NEW pairs, DOMAIN run = Workers,
         NEW w \in Workers, RunRight(db, how, pairs, run[w]), CleanRun(db, how, pairs, run[w]),
         ExactRun(db, how, pairs, run[w]), Turn(w)
  PROVE  ExactRun(db, how, pairs, run'[w])
<1> DEFINE r == run[w]   q == run'[w]   s == r.session   raw == r.job.rows[r.row]
           after == After(r.job, s, raw, r.step)
           made == {t \in FlushedAtOnce(r.job.kind) : IdsOf(after[t]) # IdsOf(s[t])}
           shown == [t \in Tables |-> IF t \in made THEN after[t] ELSE s[t]]
<1>1. /\ r.pc = "rows" /\ r.queue = {} /\ r.job \in Jobs /\ StatementsRight(db, r)
      /\ InLoopPhase(r) /\ FlushRight(r)
      /\ DOMAIN r = {"pc", "no", "job", "step", "row", "session", "flushed", "queue", "sent"}
  BY DEF Turn, InLoop, RunRight, Standing, InLoopPhase
<1>2. /\ q.session = after
      /\ q.queue = (IF made = {} THEN {} ELSE Statements(r.flushed, shown))
      /\ q.flushed = (IF made = {} THEN r.flushed ELSE shown)
      /\ q.pc = "rows" /\ q.no = r.no /\ q.job = r.job /\ q.sent = r.sent
  BY <1>1 DEF Turn
<1>3. /\ InLoop(w) /\ ~PassedOver(w) /\ CleanRun(db, how, pairs, r) /\ ExactRun(db, how, pairs, r)
      /\ ~(r.job.kind = "mapper" /\ raw.matchday = None)
  BY DEF Turn, PassedOver
<1>4. /\ Placed(db, r.job, First(r), s)
      /\ s.nextId + 10 <= First(r) + IdsPerRun
      /\ r.row \in DOMAIN r.job.rows /\ r.step \in 1..Lookups(r.job.kind)
      /\ Found(r.job, s, raw, r.step)
  BY <1>3, TurnPlaced
<1>5. \A t \in Tables : shown[t] \in {s[t], after[t]}
  OBVIOUS
<1>6. /\ RowsClean(r) /\ SessionClean(db, r.job, s)
      /\ Undisturbed(how, pairs, r.no) => Complete(db, r)
  BY <1>1, <1>3 DEF CleanRun
<1>7. FeedCovered(r) /\ SessionTold(db, s)
  BY <1>1, <1>3 DEF ExactRun, SessionTold
<1> HIDE DEF r, q, shown, made
<1>8. r.job.kind = "mapper" => OneSeason(r.job, s["seasons"])
  BY <1>1, <1>6 DEF RowsClean
<1>9. FeedWithin(r.job, s)
  BY <1>1, <1>7 DEF FeedCovered, FeedWithin
<1>10. Undisturbed(how, pairs, r.no) => Settled(db, r.job, s)
  BY <1>1, <1>6, TableNames DEF Complete, Settled, Alike, IdsOf
<1>11. Based(db)
  BY DbBased
<1>12. /\ SessionTold(db, after) /\ FactsCarried(db, s, after)
       /\ Settled(db, r.job, s) => CoverCarried(db, s, after)
  BY <1>3, <1>4, <1>6, <1>7, <1>8, <1>9, <1>11, AfterTold
<1>13. SessionRight(db, r.job, First(r), after) /\ RowsMoved(s, after)
  BY <1>1, <1>4, AfterRight DEF Placed, Looked
<1>14. LeavesAlone(r.job, s, after)
  BY <1>1, <1>4, TurnSpares DEF Placed, SessionRight
<1> HIDE DEF after
<1>15. ASSUME Undisturbed(how, pairs, q.no)
       PROVE  /\ Replays(db, q.flushed, q.queue, q.sent)
              /\ Covering(db) => Covering(World(db, after))
              /\ FactsWhole(db) => FactsWhole(World(db, after))
  <2>1. /\ Replays(db, r.flushed, {}, r.sent)
        /\ Covering(db) => Covering(World(db, s))
        /\ FactsWhole(db) => FactsWhole(World(db, s))
    BY <1>1, <1>2, <1>3, <1>15 DEF ExactRun
  <2>2. /\ RowsRight(db, First(r), s.nextId, s)
        /\ RowsRight(db, First(r), after.nextId, after)
    BY <1>4, <1>13 DEF Placed, SessionRight
  <2>3. Replays(db, shown, Statements(r.flushed, shown), r.sent)
    BY <1>1, <1>5, <1>13, <2>1, <2>2, TurnReplays
  <2>4. Replays(db, q.flushed, q.queue, q.sent)
    BY <1>2, <2>1, <2>3
  <2>5. FactsCarried(db, s, after) /\ CoverCarried(db, s, after)
    BY <1>2, <1>10, <1>12, <1>15
  <2> QED
    BY <2>1, <2>4, <2>5 DEF FactsCarried, CoverCarried
<1>16. FeedCovered(q)
  BY <1>1, <1>2, <1>7, <1>14 DEF FeedCovered, LeavesAlone
<1> QED
  BY <1>2, <1>12, <1>15, <1>16 DEF ExactRun, SessionTold, q

-----------------------------------------------------------------------------
(* Rivals apart, nothing is lost *)

LEMMA ExactInit ==
  ASSUME StartsTold, Init
  PROVE  ExactInv
<1>1. LinksTell(db) /\ db \in StartDBs
  BY DEF Init, StartsTold
<1>2. \A w \in Workers : ~Open(w)
  BY DEF Init, Open, NoRun
<1>3. FactsWhole(db)
  BY <1>1 DEF FactsWhole, EveryFact
<1>4. ASSUME StartsCovered
      PROVE  Covering(db)
  <2>1. DatesCoverMatches(db) /\ \A m \in db.matches : m.at \in Int
    BY <1>1, <1>4 DEF StartsCovered
  <2>2. \A x, y \in db.seasons : x.id = y.id => x = y
    BY <1>1, ImportsAssumption, TableNames DEF Sound, KeysHold, UniqueOn
  <2>3. ASSUME NEW m \in db.matches, NEW q \in db.seasons, q.id = m.season
        PROVE  Covers(q, m.at)
    <3>1. RowOf(db.seasons, m.season) = q
      BY <2>2, <2>3 DEF RowOf
    <3> QED
      BY <2>1, <3>1 DEF DatesCoverMatches, Covers
  <2> QED
    BY <2>3 DEF Covering
<1> QED
  BY <1>1, <1>2, <1>3, <1>4 DEF ExactInv

\* What a run knows of links it knows over a database with more in it.
LEMMA OthersStayExact ==
  ASSUME NEW d, NEW e, Grows(d, e), LinksTell(e), NEW how, NEW now, NEW pairs, NEW more,
         NEW r, ExactRun(d, how, pairs, r),
         Undisturbed(now, more, r.no) => Undisturbed(how, pairs, r.no) /\ d = e
  PROVE  ExactRun(e, now, more, r)
<1>1. FeedCovered(r)
  BY DEF ExactRun
<1>2. ASSUME InLoopPhase(r)
      PROVE  VenuesMirrored(r.session) /\ LinksTell(Concat(e, r.session))
  BY <1>2, TellsOverMore DEF ExactRun
<1>3. ASSUME Undisturbed(now, more, r.no)
      PROVE  /\ Replays(e, r.flushed, r.queue, r.sent)
             /\ Covering(e) => Covering(World(e, r.session))
             /\ FactsWhole(e) => FactsWhole(World(e, r.session))
  BY <1>3 DEF ExactRun
<1> QED
  BY <1>1, <1>2, <1>3 DEF ExactRun

\* A step of one run that leaves the database to the others.
LEMMA ExactAlone ==
  ASSUME DOMAIN run = Workers, ExactInv, NEW w \in Workers,
         UNCHANGED <<db, fate, overlaps>>, run' = [run EXCEPT ![w] = run'[w]],
         ExactRun(db, fate, overlaps, run'[w])
  PROVE  ExactInv'
<1>1. \A v \in Workers : v # w => run'[v] = run[v]
  OBVIOUS
<1>2. ASSUME NEW v \in Workers, run'[v].pc # "idle"
      PROVE  ExactRun(db', fate', overlaps', run'[v])
  BY <1>1, <1>2 DEF ExactInv, Open
<1>3. SomeRivals' <=> SomeRivals
  BY DEF SomeRivals, Rivals
<1>4. LinksTell(db') /\ (StartsCovered => SomeRivals' \/ Covering(db')) /\ (SomeRivals' \/ FactsWhole(db'))
  BY <1>3 DEF ExactInv
<1> QED
  BY <1>2, <1>4 DEF ExactInv, Open

\* The end of a run: the others have either seen no change, or are disturbed by
\* the commit.
LEMMA ExactEnd ==
  ASSUME ImportsInv, ExactInv, NEW w \in Workers, Open(w),
         NEW how \in {"committed", "refused", "deadlocked", "crashed"}, End(w, how),
         Grows(db, db'), LinksTell(db'), how = "committed" \/ db' = db,
         Undisturbed(fate, overlaps, run[w].no) =>
           (Covering(db) => Covering(db')) /\ (FactsWhole(db) => FactsWhole(db'))
  PROVE  ExactInv'
<1> DEFINE i == run[w].no
<1>1. /\ DOMAIN fate' = DOMAIN fate /\ i \in DOMAIN fate /\ fate'[i].how = how
      /\ \A j \in DOMAIN fate : j # i => fate'[j] = fate[j]
      /\ overlaps' = overlaps
  BY EndOf
<1>2. \A v \in Workers : run'[v].pc # "idle" => v # w /\ Open(v) /\ run'[v] = run[v]
  BY EndOf
<1>3. fate[i].how = "open"
  <2>1. RunRight(db, fate, overlaps, run[w])
    BY InvOfRun
  <2>2. fate[run[w].no] = [kind |-> run[w].job.kind, how |-> "open"]
    BY <2>1 DEF RunRight, Standing
  <2> QED
    BY <2>2
<1>4. \A j \in DOMAIN fate : fate[j].how = "committed" => j # i /\ fate'[j].how = "committed"
  BY <1>1, <1>3
<1>5. ASSUME NEW v \in Workers, run'[v].pc # "idle"
      PROVE  ExactRun(db', fate', overlaps', run'[v])
  <2>1. v # w /\ Open(v) /\ run'[v] = run[v] /\ ExactRun(db, fate, overlaps, run[v])
    BY <1>2, <1>5 DEF ExactInv
  <2>2. {run[v].no, i} \in overlaps
    BY <2>1 DEF ImportsInv, FateRight, OpenTogether
  <2>3. Undisturbed(fate', overlaps', run[v].no) =>
          Undisturbed(fate, overlaps, run[v].no) /\ db = db'
    BY <1>1, <1>4, <2>2 DEF Undisturbed
  <2> QED
    BY <2>1, <2>3, OthersStayExact
<1>6. SomeRivals => SomeRivals'
  BY <1>1, <1>4 DEF SomeRivals, Rivals
<1>7. CASE Undisturbed(fate, overlaps, i) \/ db' = db
  <2>1. (Covering(db) => Covering(db')) /\ (FactsWhole(db) => FactsWhole(db'))
    BY <1>7
  <2>2. (StartsCovered => SomeRivals \/ Covering(db)) /\ (SomeRivals \/ FactsWhole(db))
    BY DEF ExactInv
  <2>3. (StartsCovered => SomeRivals' \/ Covering(db')) /\ (SomeRivals' \/ FactsWhole(db'))
    BY <1>6, <2>1, <2>2
  <2> QED
    BY <1>5, <2>3 DEF ExactInv, Open
<1>8. CASE ~Undisturbed(fate, overlaps, i) /\ how = "committed"
  <2>1. PICK j \in DOMAIN fate : {i, j} \in overlaps /\ fate[j].how = "committed"
    BY <1>8 DEF Undisturbed
  <2>2. SomeRivals'
    BY <1>1, <1>4, <1>8, <2>1 DEF SomeRivals, Rivals
  <2> QED
    BY <1>5, <2>2 DEF ExactInv, Open
<1> QED
  BY <1>7, <1>8

LEMMA ExactStart ==
  ASSUME ImportsInv, ExactInv, NEW w \in Workers, NEW job \in Jobs, Start(w, job)
  PROVE  ExactInv'
<1> DEFINE n == Len(fate)   new == [kind |-> job.kind, how |-> "open"]
<1>1. /\ fate' = Append(fate, new) /\ db' = db /\ overlaps \subseteq overlaps' /\ new.how = "open"
      /\ run' = [run EXCEPT ![w] = run'[w]]
  BY InvOfRun DEF Start
<1>2. DOMAIN run = Workers /\ IsHistory(fate)
  BY InvOfRun
<1> HIDE DEF new
<1>3. n \in Nat /\ DOMAIN fate = 1..n
  BY <1>2 DEF IsHistory
<1>4. /\ DOMAIN fate' = 1..(n + 1) /\ fate'[n + 1] = new
      /\ \A i \in 1..n : fate'[i] = fate[i] /\ i \in DOMAIN fate'
  BY <1>1, <1>2 DEF IsHistory
<1>5. \A v \in Workers : v # w => run'[v] = run[v]
  BY <1>1, <1>2
<1>6. ASSUME NEW v \in Workers, run'[v].pc # "idle"
      PROVE  ExactRun(db', fate', overlaps', run'[v])
  <2>1. CASE v = w
    <3>1. ExactRun(db, fate', overlaps', run'[w])
      BY <1>2, StartExact
    <3> QED
      BY <1>1, <2>1, <3>1
  <2>2. CASE v # w
    <3>1. run'[v] = run[v] /\ ExactRun(db, fate, overlaps, run[v]) /\ LinksTell(db)
      BY <1>5, <1>6, <2>2 DEF ExactInv, Open
    <3>2. Undisturbed(fate', overlaps', run[v].no) => Undisturbed(fate, overlaps, run[v].no)
      BY <1>1, <1>3, <1>4 DEF Undisturbed
    <3> QED
      BY <1>1, <3>1, <3>2, GrowsItself, OthersStayExact
  <2> QED
    BY <2>1, <2>2
<1>7. SomeRivals => SomeRivals'
  BY <1>1, <1>3, <1>4 DEF SomeRivals, Rivals
<1> QED
  BY <1>1, <1>6, <1>7 DEF ExactInv, Open

\* A run that works on what it knows.
LEMMA ExactQuiet ==
  ASSUME SidesDiffer, OneClubPerId, OneFixturePerId, ImportsInv, CleanInv, ExactInv,
         NEW w \in Workers,
         Read(w) \/ EnterLoop(w) \/ Skip(w) \/ Turn(w) \/ Close(w) \/ Execute(w)
  PROVE  ExactInv'
<1>1. UNCHANGED <<db, fate, overlaps>>
  BY DEF Read, EnterLoop, Skip, Turn, Close, Execute
<1>2. Open(w)
  BY InvOfRun DEF Read, EnterLoop, Skip, Turn, Close, Execute, InLoop, Open
<1>3. IsHistory(fate) /\ DbRight(db, fate) /\ DOMAIN run = Workers
      /\ RunRight(db, fate, overlaps, run[w])
  BY <1>2, InvOfRun
<1>4. /\ ExactRun(db, fate, overlaps, run[w]) /\ LinksTell(db)
      /\ CleanRun(db, fate, overlaps, run[w])
  BY <1>2 DEF ExactInv, CleanInv
<1>5. run' = [run EXCEPT ![w] = run'[w]] /\ ExactRun(db, fate, overlaps, run'[w])
  <2>1. CASE Read(w)
    BY <1>3, <1>4, <2>1, ReadRight, ReadExact
  <2>2. CASE EnterLoop(w)
    BY <1>3, <1>4, <2>2, EnterLoopRight, EnterLoopExact
  <2>3. CASE Skip(w)
    BY <1>3, <1>4, <2>3, SkipRight, SkipExact
  <2>4. CASE Turn(w)
    BY <1>3, <1>4, <2>4, TurnRight, TurnExact
  <2>5. CASE Close(w)
    BY <1>3, <1>4, <2>5, CloseRight, CloseExact
  <2>6. CASE Execute(w)
    BY <1>3, <1>4, <2>6, ExecuteRight, ExecuteExact
  <2> QED
    BY <2>1, <2>2, <2>3, <2>4, <2>5, <2>6
<1> QED
  BY <1>1, <1>3, <1>5, ExactAlone

\* A run that nobody has disturbed commits what it has made of the database it
\* has read; one that was disturbed has a rival.
LEMMA ExactCommit ==
  ASSUME ImportsInv, ExactInv, NEW w \in Workers, Commit(w)
  PROVE  ExactInv'
<1> DEFINE r == run[w]   e == Applied(db, r.sent)
<1>1. /\ r.pc = "closing" /\ r.queue = {} /\ Open(w) /\ db' = e /\ End(w, "committed")
  BY DEF Commit, Open
<1>2. IsHistory(fate) /\ DbRight(db, fate) /\ RunRight(db, fate, overlaps, r)
  BY <1>1, InvOfRun
<1>3. LinksTell(db) /\ ExactRun(db, fate, overlaps, r) /\ InLoopPhase(r)
  BY <1>1 DEF ExactInv, InLoopPhase
<1> HIDE DEF r
<1>4. LinksTell(e) /\ Grows(db, e)
  <2>1. LinksTell(Concat(db, r.session))
    BY <1>3 DEF ExactRun
  <2> QED
    BY <1>1, <1>2, <1>3, <2>1, CommitTells
<1>5. ASSUME Undisturbed(fate, overlaps, r.no)
      PROVE  (Covering(db) => Covering(e)) /\ (FactsWhole(db) => FactsWhole(e))
  <2>1. /\ Replays(db, r.flushed, {}, r.sent)
        /\ Covering(db) => Covering(World(db, r.session))
        /\ FactsWhole(db) => FactsWhole(World(db, r.session))
    BY <1>1, <1>3, <1>5 DEF ExactRun
  <2>2. \A t \in {"seasons", "teams", "venues", "matches"} : e[t] = World(db, r.session)[t]
    BY <1>1, <1>2, <2>1, CommitStores
  <2> HIDE DEF e
  <2> DEFINE v == World(db, r.session)
  <2> HIDE DEF v
  <2>3. /\ e["seasons"] = v["seasons"] /\ e["teams"] = v["teams"]
        /\ e["venues"] = v["venues"] /\ e["matches"] = v["matches"]
    BY <2>2 DEF v
  <2>4. FactsWhole(v) => FactsWhole(e)
    <3>1. \A m : FactOf(e, m) = FactOf(v, m)
      BY <2>3 DEF FactOf
    <3> QED
      BY <2>3, <3>1, FactsAre
  <2>5. Covering(v) => Covering(e)
    BY <2>3 DEF Covering
  <2> QED
    BY <2>1, <2>4, <2>5 DEF v
<1> HIDE DEF e
<1> QED
  BY <1>1, <1>4, <1>5, ExactEnd DEF r

LEMMA ExactFails ==
  ASSUME ImportsInv, ExactInv, NEW w \in Workers, Raise(w) \/ AbortDeadlock(w) \/ Crash(w)
  PROVE  ExactInv'
<1>1. db' = db /\ \E how \in {"refused", "deadlocked", "crashed"} : End(w, how)
  BY DEF Raise, AbortDeadlock, Crash
<1>2. Open(w)
  <2>1. CASE Due(w) # {}
    BY <2>1, InvOfRun
  <2>2. CASE Open(w)
    BY <2>2
  <2> QED
    BY <2>1, <2>2 DEF Raise, AbortDeadlock, Crash, WaitsFor
<1>3. Grows(db, db') /\ LinksTell(db')
  BY <1>1, GrowsItself DEF ExactInv
<1>4. PICK how \in {"refused", "deadlocked", "crashed"} : End(w, how)
  BY <1>1
<1> QED
  BY <1>1, <1>2, <1>3, <1>4, ExactEnd

LEMMA ExactNext ==
  ASSUME SidesDiffer, OneClubPerId, OneFixturePerId, ImportsInv, CleanInv, ExactInv, [Next]_vars
  PROVE  ExactInv'
<1>1. ASSUME NEW w \in Workers, Step(w) PROVE ExactInv'
  BY <1>1, ExactQuiet, ExactCommit, ExactFails DEF Step
<1>2. ASSUME NEW w \in Workers, Crash(w) PROVE ExactInv'
  BY <1>2, ExactFails
<1>3. ASSUME NEW w \in Workers, NEW job \in Jobs, Start(w, job) PROVE ExactInv'
  BY <1>3, ExactStart
<1>4. ASSUME UNCHANGED vars PROVE ExactInv'
  BY <1>4 DEF vars, ExactInv, SomeRivals, Rivals, Open
<1> QED
  BY <1>1, <1>2, <1>3, <1>4 DEF Next, Done

LEMMA CoveringDates ==
  ASSUME NEW d, NEW how, DbRight(d, how), Covering(d)
  PROVE  DatesCoverMatches(d)
<1>1. ASSUME NEW m \in d.matches
      PROVE  LET s == RowOf(d.seasons, m.season)
             IN s.start <= UtcDate(m.at) /\ LocalDate(m.at) <= s.end
  <2>1. m.season \in IdsOf(d.seasons)
    BY DEF DbRight, ReferencesHold
  <2> DEFINE s == RowOf(d.seasons, m.season)
  <2>2. s \in d.seasons /\ s.id = m.season
    BY <2>1 DEF IdsOf, RowOf
  <2>3. Covers(s, m.at)
    BY <2>2 DEF Covering
  <2> QED
    BY <2>3 DEF Covers
<1> QED
  BY <1>1 DEF DatesCoverMatches

\* An importer that has the database to itself leaves the dates of every season
\* around its fixtures: the mapper, which widens the season it has read by its
\* whole feed, and the bootstrap, which widens it row by row, in any order and
\* through any crashes.  A bound is lost only where two runs that were open
\* together have both committed.
THEOREM DatesCoverUnlessRivals ==
  ASSUME StartsFit, StartsTold, StartsCovered,
         OneIdPerClub, OneIdPerFixture, OneClubPerId, OneFixturePerId, SidesDiffer
  PROVE  Spec => []CoversUnlessRivals
<1>1. Init => ImportsInv /\ CleanInv /\ ExactInv
  BY ImportsInit, CleanInit, ExactInit
<1>2. ImportsInv /\ CleanInv /\ ExactInv /\ [Next]_vars => (ImportsInv /\ CleanInv /\ ExactInv)'
  BY ImportsNext, CleanNext, ExactNext
<1>3. ImportsInv /\ CleanInv /\ ExactInv => CoversUnlessRivals
  BY CoveringDates DEF ImportsInv, ExactInv, CoversUnlessRivals
<1> QED
  BY <1>1, <1>2, <1>3, PTL DEF Spec

\* Likewise a stored fixture is as one run has reported it, or as it was found:
\* kick-off, stadium, status and score are never those of two reports, unless
\* two runs that were open together have both committed.
THEOREM FactsWholeUnlessRivals ==
  ASSUME StartsFit, StartsTold,
         OneIdPerClub, OneIdPerFixture, OneClubPerId, OneFixturePerId, SidesDiffer
  PROVE  Spec => []FixturesWholeUnlessRivals
<1>1. Init => ImportsInv /\ CleanInv /\ ExactInv
  BY ImportsInit, CleanInit, ExactInit
<1>2. ImportsInv /\ CleanInv /\ ExactInv /\ [Next]_vars => (ImportsInv /\ CleanInv /\ ExactInv)'
  BY ImportsNext, CleanNext, ExactNext
<1>3. ImportsInv /\ CleanInv /\ ExactInv => FixturesWholeUnlessRivals
  BY DEF ExactInv, FixturesWholeUnlessRivals, FactsWhole
<1> QED
  BY <1>1, <1>2, <1>3, PTL DEF Spec
=============================================================================
