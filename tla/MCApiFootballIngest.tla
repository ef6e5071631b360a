------------------------ MODULE MCApiFootballIngest ------------------------
(***************************************************************************)
(* A league of up to three clubs, on a database the bootstrap and the      *)
(* mapper have filled with the season of 2024 but not with that of 2023.   *)
(***************************************************************************)
EXTENDS ApiFootballIngest, TLC

MCCleaned == ("Flamengo" :> "Flamengo") @@ (" SANTOS  FC" :> "SANTOS FC")
             @@ ("Bragantino" :> "Bragantino") @@ ("flamengo" :> "flamengo")
             @@ ("  " :> "")
MCLowered == ("Flamengo" :> "flamengo") @@ ("flamengo" :> "flamengo")
             @@ ("SANTOS FC" :> "santos fc") @@ ("Santos FC" :> "santos fc")
             @@ ("Bragantino" :> "bragantino") @@ ("" :> "")

Team(id, name) == [id |-> id, name |-> name]

Flamengo   == Team("127", "Flamengo")
Santos     == Team("128", " SANTOS  FC")
Bragantino == Team("794", "Bragantino")

\* The league; a club whose id was issued anew, before a new club; two clubs
\* without a name; an entry without an id; a list that repeats itself, or gives
\* one id two names; no list.
MCListings ==
  {<<Bragantino, Flamengo, Santos>>,
   <<Team("901", "flamengo"), Bragantino>>,
   <<Team("130", None), Team("131", "  ")>>,
   <<Flamengo, Team(None, "Santos FC")>>,
   <<Santos, Santos>>,
   <<Bragantino, Team("794", " SANTOS  FC"), Santos>>,
   <<>>}

MCPayloads == {"spring", "autumn"}
MCYears == {2023, 2024}

\* Flamengo twice, as the bootstrap and the mapper spelled it.
Fixtures ==
  [EmptyDB EXCEPT
    !.seasons = {[id |-> 1, year |-> 2024, start |-> 0, end |-> 9, status |-> "finished"]},
    !.teams = {[id |-> 2, name |-> "Flamengo"], [id |-> 3, name |-> "flamengo"],
               [id |-> 4, name |-> "Santos FC"]},
    !.teamLinks = {[id |-> 5, team |-> 4, source |-> FootballData, ext |-> "127"]}]

\* After an earlier run, for Flamengo alone.
Linked ==
  [Fixtures EXCEPT
    !.teamLinks = @ \cup {[id |-> 6, team |-> 2, source |-> ApiFootball, ext |-> "127"]},
    !.stats = {[id |-> 7, team |-> 2, season |-> 1, source |-> ApiFootball,
                payload |-> "spring"]}]

MCStartDBs == {Linked}
=============================================================================
