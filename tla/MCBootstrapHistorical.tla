----------------------- MODULE MCBootstrapHistorical -----------------------
(***************************************************************************)
(* Editions of a small CSV: two closed seasons and a row of the current    *)
(* one.  Dates 0 to 9 are in 2024, 10 to 19 in 2025, later ones in 2026.   *)
(***************************************************************************)
EXTENDS BootstrapHistorical, TLC

MCYearOf == [date \in 0..29 |-> 2024 + (date \div 10)]

MCCleaned == ("Flamengo" :> "Flamengo") @@ (" Flamengo" :> "Flamengo")
             @@ ("Santos FC" :> "Santos FC") @@ ("Vasco" :> "Vasco")
             @@ ("S\\x82o Paulo" :> "S\\x82o Paulo")
             @@ (" Maracana" :> "Maracana") @@ ("Vila Belmiro" :> "Vila Belmiro")
             @@ ("  " :> "")
MCGarbled == {"S\\x82o Paulo"}

Raw(date, time, matchday, home, away, arena, score) ==
  [date |-> date, time |-> time, matchday |-> matchday, home |-> home,
   away |-> away, arena |-> arena, score |-> score]

\* Flamengo x Santos of 2024, in two editions that differ in time and score.
First == {Raw(3, None, 1, "Flamengo", "Santos FC", " Maracana", <<2, 1>>),
          Raw(3, 7, 1, " Flamengo", "Santos FC", " Maracana", <<2, 2>>)}

\* Vasco x Flamengo of the season after: late in the evening, or in January
\* for a matchday 1 that belongs to the season before.
Second == {Raw(13, 7, 2, "Vasco", "Flamengo", " Maracana", <<0, 0>>),
           Raw(10, 6, 1, "Vasco", "Flamengo", "Vila Belmiro", <<1, 0>>),
           Raw(15, 5, 2, "Vasco", "Flamengo", " Maracana", None)}

\* One row more, or none that counts.
Third == {Raw(5, 4, 2, "Santos FC", "Vasco", "Vila Belmiro", <<3, 3>>),
          Raw(21, 4, 1, "Santos FC", "Vasco", "Vila Belmiro", <<1, 1>>),
          Raw(4, 4, 2, "Flamengo", " Flamengo", " Maracana", <<1, 1>>)}

\* An edition of which _parse_row gives up every row, each for its own reason.
Broken == <<Raw(Bad, 4, 1, "Santos FC", "Vasco", "Vila Belmiro", <<1, 1>>),
            Raw(5, Bad, 1, "Santos FC", "Vasco", "Vila Belmiro", <<1, 1>>),
            Raw(5, 4, Bad, "Santos FC", "Vasco", "Vila Belmiro", <<1, 1>>),
            Raw(5, 4, 1, "Santos FC", "  ", "Vila Belmiro", <<1, 1>>),
            Raw(5, 4, 1, "Santos FC", "Vasco", "  ", <<1, 1>>),
            Raw(5, 4, 1, "S\\x82o Paulo", "Vasco", "Vila Belmiro", <<1, 1>>),
            Raw(5, 4, 1, "Santos FC", "Vasco", "Vila Belmiro", Bad)>>

MCFiles == {<<a, b, c>> : a \in First, b \in Second, c \in Third}
           \cup {<<a, b>> : a, b \in First} \cup {<<r>> : r \in Second} \cup {Broken}

\* What the mapper left of 2025: the clubs in its spelling or the CSV's, the
\* fixture still to be played, dated in UTC and without a stadium; nobody on
\* record in season_teams.
Mapped ==
  [EmptyDB EXCEPT
    !.seasons = {[id |-> 1, year |-> 2025, start |-> 14, end |-> 14,
                  status |-> "in_progress"]},
    !.teams = {[id |-> 2, name |-> "Vasco"], [id |-> 3, name |-> "Flamengo"],
               [id |-> 4, name |-> "SANTOS FC"]},
    !.teamLinks = {[id |-> 5, team |-> 2, source |-> FootballData, ext |-> "1780"]},
    !.matches = {[id |-> 6, season |-> 1, matchday |-> 2, home |-> 2, away |-> 3,
                  at |-> 112, venue |-> None, status |-> "scheduled", score |-> None]},
    !.matchLinks = {[id |-> 7, match |-> 6, source |-> FootballData, ext |-> "f2"]}]

MCStartDBs == {EmptyDB, Mapped}
=============================================================================
