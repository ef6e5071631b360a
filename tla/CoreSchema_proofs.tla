------------------------- MODULE CoreSchema_proofs -------------------------
(***************************************************************************)
(* Lemmas about the operators of CoreSchema that the proofs of the         *)
(* importers rest on: bounds of finite sets, free ids, dictionaries.       *)
(***************************************************************************)
EXTENDS CoreSchema, TLAPS, FiniteSetTheorems

\* A finite set of numbers that is not empty has a highest member: of the sets
\* without one none is smallest.
LEMMA HighestOfFinite ==
  ASSUME NEW S \in SUBSET Int, IsFiniteSet(S), S # {}
  PROVE  Highest(S) \in S /\ \A y \in S : Highest(S) >= y
<1> DEFINE HasHighest(A) == \E x \in A : \A y \in A : x >= y
           Bad == {A \in FiniteSubsetsOf(S) : A # {} /\ ~HasHighest(A)}
<1>1. ASSUME Bad # {}
      PROVE  FALSE
  <2>1. IsWellFoundedOn(StrictSubsetOrdering(S), FiniteSubsetsOf(S))
    BY FS_StrictSubsetOrderingWellFounded
  <2>2. PICK A \in Bad : \A B \in Bad : <<B, A>> \notin StrictSubsetOrdering(S)
    BY <1>1, <2>1, WFMin
  <2>3. PICK a \in A : TRUE
    OBVIOUS
  <2> DEFINE B == A \ {a}
  <2>4. B \in FiniteSubsetsOf(S) /\ <<B, A>> \in StrictSubsetOrdering(S)
    BY <2>3, FS_Subset DEF FiniteSubsetsOf, StrictSubsetOrdering
  <2>5. B = {} \/ HasHighest(B)
    BY <2>2, <2>4
  <2>6. A \subseteq Int
    BY DEF FiniteSubsetsOf
  <2>7. CASE B = {}
    BY <2>3, <2>6, <2>7
  <2>8. CASE HasHighest(B)
    <3>1. PICK b \in B : \A y \in B : b >= y
      BY <2>8
    <3>2. CASE a >= b
      BY <2>3, <2>6, <3>1, <3>2
    <3>3. CASE b >= a
      BY <2>3, <2>6, <3>1, <3>3
    <3> QED
      BY <2>3, <2>6, <3>1, <3>2, <3>3
  <2> QED
    BY <2>5, <2>7, <2>8
<1>2. HasHighest(S)
  BY <1>1 DEF FiniteSubsetsOf
<1> QED
  BY <1>2 DEF Highest

\* And a lowest one.
LEMMA LowestOfFinite ==
  ASSUME NEW S \in SUBSET Int, IsFiniteSet(S), S # {}
  PROVE  Lowest(S) \in S /\ \A y \in S : Lowest(S) <= y
<1> DEFINE N == {-x : x \in S}
<1>1. IsFiniteSet(N) /\ N # {} /\ N \subseteq Int
  <2> DEFINE f == [x \in S |-> -x]
  <2>1. f \in Surjection(S, N)
    BY DEF Surjection
  <2>2. N \subseteq Int
    OBVIOUS
  <2>4. N # {}
    <3>1. PICK x \in S : TRUE
      OBVIOUS
    <3>2. -x \in N
      BY <3>1
    <3> QED
      BY <3>2
  <2> HIDE DEF N, f
  <2>3. IsFiniteSet(N)
    BY <2>1, FS_Surjection
  <2> QED
    BY <2>2, <2>3, <2>4
<1>2. PICK h \in N : \A y \in N : h >= y
  BY <1>1, HighestOfFinite
<1>3. PICK x \in S : h = -x
  OBVIOUS
<1>4. \A y \in S : x <= y
  BY <1>2, <1>3
<1> QED
  BY <1>4 DEF Lowest

\* The bounds of two numbers.
LEMMA BoundsOfTwo ==
  ASSUME NEW x \in Int, NEW y \in Int
  PROVE  /\ Lowest({x, y}) = IF x <= y THEN x ELSE y
         /\ Highest({x, y}) = IF x >= y THEN x ELSE y
BY DEF Lowest, Highest

\* The next id is no row's.
LEMMA FirstFreeIdIsFree ==
  ASSUME NEW d, Ids(d) \subseteq Nat, IsFiniteSet(Ids(d))
  PROVE  FirstFreeId(d) \in Nat /\ \A id \in Ids(d) : id < FirstFreeId(d)
<1>1. CASE Ids(d) = {}
  BY <1>1 DEF FirstFreeId
<1>2. CASE Ids(d) # {}
  <2>1. Highest(Ids(d)) \in Ids(d) /\ \A y \in Ids(d) : Highest(Ids(d)) >= y
    BY <1>2, HighestOfFinite
  <2> QED
    BY <1>2, <2>1 DEF FirstFreeId
<1> QED
  BY <1>1, <1>2

-----------------------------------------------------------------------------
(* Sessions: rows under new ids *)

LEMMA TableNames ==
  Tables = {"seasons", "teams", "teamLinks", "venues", "matches", "matchLinks",
            "seasonTeams", "stats"}
BY DEF Tables, EmptyDB

\* The next id is above all that are used.
IdsBelow(s) ==
  /\ s.nextId \in Nat
  /\ \A t \in Tables : \A r \in s[t] : r.id \in Nat /\ r.id < s.nextId

\* A session with one row more, under the next id.
RowAdded(s, t, table, new) ==
  /\ new.id = s.nextId /\ t.nextId = s.nextId + 1
  /\ t[table] = s[table] \cup {new}
  /\ \A other \in Tables \ {table} : t[other] = s[other]

LEMMA RowAddedKeepsIds ==
  ASSUME NEW s, NEW t, NEW table \in Tables, NEW new, RowAdded(s, t, table, new),
         IdsBelow(s), \A u \in Tables : UniqueOn(s[u], LAMBDA r : r.id)
  PROVE  /\ IdsBelow(t)
         /\ \A u \in Tables : UniqueOn(t[u], LAMBDA r : r.id)
<1>1. IdsBelow(t)
  BY DEF IdsBelow, RowAdded
<1>2. ASSUME NEW u \in Tables
      PROVE  UniqueOn(t[u], LAMBDA r : r.id)
  <2>1. CASE u = table
    BY <2>1 DEF RowAdded, IdsBelow, UniqueOn
  <2>2. CASE u # table
    BY <2>2 DEF RowAdded, UniqueOn
  <2> QED
    BY <2>1, <2>2
<1> QED
  BY <1>1, <1>2

\* Or with several.
RowsAdded(s, t) ==
  /\ t.nextId \in Nat /\ s.nextId <= t.nextId
  /\ \A u \in Tables :
       /\ s[u] \subseteq t[u]
       /\ \A r \in t[u] \ s[u] : r.id \in Nat /\ s.nextId <= r.id /\ r.id < t.nextId
       /\ \A q, r \in t[u] \ s[u] : q.id = r.id => q = r

LEMMA RowsAddedKeepIds ==
  ASSUME NEW s, NEW t, RowsAdded(s, t),
         IdsBelow(s), \A u \in Tables : UniqueOn(s[u], LAMBDA r : r.id)
  PROVE  /\ IdsBelow(t)
         /\ \A u \in Tables : UniqueOn(t[u], LAMBDA r : r.id)
<1>1. IdsBelow(t)
  BY DEF IdsBelow, RowsAdded
<1>2. ASSUME NEW u \in Tables
      PROVE  UniqueOn(t[u], LAMBDA r : r.id)
  <2>1. ASSUME NEW q \in t[u], NEW r \in t[u], q.id = r.id PROVE q = r
    <3>1. \A x \in s[u] : x.id \in Nat /\ x.id < s.nextId
      BY DEF IdsBelow
    <3>2. s.nextId \in Nat
      BY DEF IdsBelow
    <3>3. \A x \in t[u] \ s[u] : x.id \in Nat /\ s.nextId <= x.id
      BY DEF RowsAdded
    <3>4. q \in s[u] <=> r \in s[u]
      BY <2>1, <3>1, <3>2, <3>3
    <3>5. CASE q \in s[u]
      BY <2>1, <3>4, <3>5 DEF UniqueOn
    <3>6. CASE q \notin s[u]
      BY <2>1, <3>4, <3>6 DEF RowsAdded
    <3> QED
      BY <3>5, <3>6
  <2> QED
    BY <2>1 DEF UniqueOn
<1> QED
  BY <1>1, <1>2

\* Views with the same rows satisfy the same constraints.
LEMMA SameRowsHold ==
  ASSUME NEW d, NEW s, \A t \in Tables : s[t] = d[t]
  PROVE  /\ ColumnsHold(d) => ColumnsHold(s)
         /\ SchemaHolds(d) => SchemaHolds(s)
         /\ ReferencesHold(d) => ReferencesHold(s)
         /\ (\A t \in Tables : UniqueOn(d[t], LAMBDA r : r.id))
              => \A t \in Tables : UniqueOn(s[t], LAMBDA r : r.id)
<1>1. /\ s.seasons = d.seasons /\ s.teams = d.teams /\ s.teamLinks = d.teamLinks
      /\ s.venues = d.venues /\ s.matches = d.matches /\ s.matchLinks = d.matchLinks
      /\ s.seasonTeams = d.seasonTeams /\ s.stats = d.stats
  BY TableNames
<1>2. ColumnsHold(d) => ColumnsHold(s)
  BY <1>1 DEF ColumnsHold
<1>3. SchemaHolds(d) => SchemaHolds(s)
  BY <1>1 DEF SchemaHolds, SeasonsUnique, TeamLinksUnique, MatchesUnique,
     MatchLinksUnique, SeasonTeamsUnique, StatsUnique, SidesDistinct
<1>4. ReferencesHold(d) => ReferencesHold(s)
  BY <1>1 DEF ReferencesHold
<1>5. (\A t \in Tables : UniqueOn(d[t], LAMBDA r : r.id))
        => \A t \in Tables : UniqueOn(s[t], LAMBDA r : r.id)
  BY DEF UniqueOn
<1> QED
  BY <1>2, <1>3, <1>4, <1>5

\* A session opens on a sound database with ids that are free.
LEMMA OpenedIdsHold ==
  ASSUME NEW d, Sound(d), NEW s, \A t \in Tables : s[t] = d[t],
         s.nextId = FirstFreeId(d)
  PROVE  /\ IdsBelow(s)
         /\ \A t \in Tables : UniqueOn(s[t], LAMBDA r : r.id)
         /\ ColumnsHold(s) /\ SchemaHolds(s) /\ ReferencesHold(s)
<1>1. IdsBelow(s)
  <2>1. s.nextId \in Nat /\ \A id \in Ids(d) : id < s.nextId
    BY FirstFreeIdIsFree DEF Sound, KeysHold
  <2>2. \A t \in Tables : \A r \in s[t] : r.id \in Ids(d)
    BY DEF Ids, IdsOf
  <2>3. Ids(d) \subseteq Nat
    BY DEF Sound, KeysHold
  <2> QED
    BY <2>1, <2>2, <2>3 DEF IdsBelow
<1> QED
  BY <1>1, SameRowsHold DEF Sound, KeysHold

\* What a session whose rows satisfy the constraints commits is sound.
LEMMA CommittedIsSound ==
  ASSUME NEW s, IdsBelow(s), \A t \in Tables : UniqueOn(s[t], LAMBDA r : r.id),
         ColumnsHold(s), SchemaHolds(s), ReferencesHold(s),
         NEW d, d = [t \in Tables |-> s[t]]
  PROVE  Sound(d) /\ \A t \in Tables : d[t] = s[t]
<1>1. d = [t \in Tables |-> d[t]] /\ \A t \in Tables : d[t] = s[t]
  OBVIOUS
<1>2. KeysHold(d)
  <2>1. \A id \in Ids(d) : id \in Nat /\ id < s.nextId
    BY <1>1 DEF Ids, IdsOf, IdsBelow
  <2>2. Ids(d) \subseteq Nat /\ \A id \in Ids(d) : id <= s.nextId
    BY <2>1 DEF IdsBelow
  <2>3. IsFiniteSet(Ids(d))
    BY <2>2, FS_BoundedSetOfNaturals DEF IdsBelow
  <2> QED
    BY <1>1, <2>2, <2>3, SameRowsHold DEF KeysHold
<1> QED
  BY <1>1, <1>2, SameRowsHold DEF Sound
=============================================================================
