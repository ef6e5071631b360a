------------------------ MODULE MCConcurrentImports ------------------------
(***************************************************************************)
(* Two workers on the season of 2025: three clubs, three fixtures, one     *)
(* stadium.  The mapper runs on what the API said before and after a       *)
(* postponement, in another order, and earlier; the bootstrap on two       *)
(* editions.                                                               *)
(***************************************************************************)
EXTENDS ConcurrentImports, TLC

MCCleaned == ("Flamengo" :> "Flamengo") @@ ("SANTOS  FC" :> "SANTOS FC")
             @@ ("Vasco" :> "Vasco") @@ (" Maracana" :> "Maracana")
MCLowered == ("Flamengo" :> "flamengo") @@ ("SANTOS FC" :> "santos fc")
             @@ ("Santos FC" :> "santos fc") @@ ("Vasco" :> "vasco")

Flamengo == [id |-> "1783", name |-> "Flamengo"]
Santos   == [id |-> "6685", name |-> "SANTOS  FC"]
Vasco    == [id |-> "1780", name |-> "Vasco"]

Raw(id, md, home, away, status, at, venue, score) ==
  [id |-> id, matchday |-> md, home |-> home, away |-> away, status |-> status,
   at |-> at, venue |-> venue, score |-> score]

MapperJob(rows) == [kind |-> "mapper", year |-> 2025, rows |-> rows]
BootstrapJob(rows) == [kind |-> "bootstrap", rows |-> rows]

Parsed(matchday, at, home, away, score) ==
  [year |-> 2025, matchday |-> matchday, at |-> at, home |-> home, away |-> away,
   venue |-> "Maracana", score |-> score]

\* Before and after: Flamengo x Santos is put off and Vasco x Flamengo played;
\* last, Flamengo x Santos is played and the other still has no matchday.
Before == MapperJob(<<Raw("f1", 1, Flamengo, Santos, "TIMED", 8, " Maracana", None),
                      Raw("f2", 2, Vasco, Flamengo, "TIMED", 24, None, None)>>)
After1 == MapperJob(<<Raw("f2", 2, Vasco, Flamengo, "FINISHED", 24, None, <<1, 0>>),
                      Raw("f1", 1, Flamengo, Santos, "POSTPONED", 39, " Maracana", None)>>)
Early  == MapperJob(<<Raw("f1", 1, Flamengo, Santos, "FINISHED", 7, None, <<2, 1>>),
                      Raw("f2", None, Vasco, Flamengo, "SCHEDULED", 24, None, None)>>)

\* The season under way: Flamengo and Santos are linked, their fixture as well,
\* its stadium is not known yet.  A night match of Vasco's is still missing.
UnderWay ==
  [EmptyDB EXCEPT
    !.seasons = {[id |-> 1, year |-> 2025, start |-> 1, end |-> 3, status |-> "in_progress"]},
    !.teams = {[id |-> 2, name |-> "Flamengo"], [id |-> 3, name |-> "Santos FC"]},
    !.teamLinks = {[id |-> 4, team |-> 2, source |-> FootballData, ext |-> "1783"],
                   [id |-> 5, team |-> 3, source |-> FootballData, ext |-> "6685"]},
    !.matches = {[id |-> 6, season |-> 1, matchday |-> 1, home |-> 2, away |-> 3,
                  at |-> 8, venue |-> None, status |-> "scheduled", score |-> None]},
    !.matchLinks = {[id |-> 7, match |-> 6, source |-> FootballData, ext |-> "f1"]}]

\* The CSV spells Santos its own way, dates Vasco's match in Brazil, and knows
\* of one that was played after the season's last; another edition, of one
\* before its first.
Edition == BootstrapJob(<<Parsed(2, 24, "Vasco", "Flamengo", <<1, 0>>),
                          Parsed(3, 41, "Santos FC", "Vasco", <<0, 0>>)>>)
OldEdition == BootstrapJob(<<Parsed(0, 6, "Santos FC", "Flamengo", <<1, 1>>)>>)

MCJobs == {Before, After1, Early, Edition, OldEdition}
MCStartDBs == {EmptyDB, UnderWay}

\* No importer knows which worker it runs on.
MCSymmetry == Permutations(Workers)
=============================================================================
