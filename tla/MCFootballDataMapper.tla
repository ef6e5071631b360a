------------------------ MODULE MCFootballDataMapper ------------------------
(***************************************************************************)
(* A season of two fixtures between three clubs, as football-data.org may  *)
(* report it from one run to the next.                                     *)
(***************************************************************************)
EXTENDS FootballDataMapper, TLC

\* Raw texts, what _clean_text makes of them, and those in lower case.
MCCleaned == ("Flamengo" :> "Flamengo") @@ ("SANTOS  FC" :> "SANTOS FC")
             @@ ("Vasco" :> "Vasco") @@ (" Maracana" :> "Maracana")
             @@ ("Maracana" :> "Maracana") @@ ("  " :> "")
MCLowered == ("Flamengo" :> "flamengo") @@ ("FLAMENGO" :> "flamengo")
             @@ ("SANTOS FC" :> "santos fc") @@ ("Santos FC" :> "santos fc")
             @@ ("Vasco" :> "vasco")

Flamengo == [id |-> "1783", name |-> "Flamengo"]
Santos   == [id |-> "6685", name |-> "SANTOS  FC"]
Vasco    == [id |-> "1780", name |-> "Vasco"]

Raw(id, md, home, away, status, at, venue, score) ==
  [id |-> id, matchday |-> md, home |-> home, away |-> away, status |-> status,
   at |-> at, venue |-> venue, score |-> score]

\* Flamengo x Santos: to come, to come without a matchday yet, put off by two
\* days, played late on day 1 in Brazil (day 2 in UTC).
First ==
  {Raw("f1", 1, Flamengo, Santos, "TIMED", 8, "  ", None),
   Raw("f1", None, Flamengo, Santos, "SCHEDULED", 8, None, None),
   Raw("f1", 1, Flamengo, Santos, "POSTPONED", 31, "Maracana", None),
   Raw("f1", 1, Flamengo, Santos, "FINISHED", 16, " Maracana", <<2, 1>>)}

\* Vasco x Flamengo, one matchday later; FORFEIT is a status the table lacks.
Second ==
  {Raw("f2", 2, Vasco, Flamengo, "FORFEIT", 24, None, None),
   Raw("f2", 2, Vasco, Flamengo, "CANCELLED", 24, "Maracana", None),
   Raw("f2", 2, Vasco, Flamengo, "AWARDED", 23, "Maracana", <<3, 0>>)}

SeasonFeed(rows) == [year |-> 2025, rows |-> rows]

MCFeeds == {SeasonFeed(<<a, b>>) : a \in First, b \in Second} \cup {SeasonFeed(<<>>)}

\* The same season once the provider has given the first fixture a new id.
Reissued(a) == [a EXCEPT !.id = "f9"]
MCFeedsReissued ==
  MCFeeds \cup {SeasonFeed(<<Reissued(a), b>>) : a \in First, b \in Second}

\* What the bootstrap of the same season left: the first fixture, dated in
\* Brazil, and its two clubs, one of them spelled in another case.  Vasco's
\* API-Football id is the id Flamengo has at football-data.org.
Bootstrapped ==
  [EmptyDB EXCEPT
    !.seasons = {[id |-> 1, year |-> 2025, start |-> 1, end |-> 1, status |-> "finished"]},
    !.teams = {[id |-> 2, name |-> "FLAMENGO"], [id |-> 3, name |-> "Santos FC"],
               [id |-> 5, name |-> "Vasco"]},
    !.teamLinks = {[id |-> 7, team |-> 5, source |-> ApiFootball, ext |-> "1783"]},
    !.venues = {[id |-> 4, name |-> "Maracana"]},
    !.matches = {[id |-> 6, season |-> 1, matchday |-> 1, home |-> 2, away |-> 3,
                  at |-> 16, venue |-> 4, status |-> "finished", score |-> <<2, 1>>]},
    !.seasonTeams = {[id |-> 8, season |-> 1, team |-> 2],
                     [id |-> 9, season |-> 1, team |-> 3]}]

MCStartDBs == {EmptyDB, Bootstrapped}
=============================================================================
