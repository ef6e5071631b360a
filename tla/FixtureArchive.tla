--------------------------- MODULE FixtureArchive ---------------------------
(***************************************************************************)
(* What importing history promises: an archive that only grows.  A file    *)
(* adds, all at once, the fixtures the archive does not have; of those it  *)
(* has, whoever put them there, the archive's version stays.               *)
(***************************************************************************)
CONSTANTS Starts,   \* archives that may be found
          Reports   \* each a function from fixtures to facts

VARIABLE archive    \* function from fixtures to facts

Init == archive \in Starts

Add(report) ==
  archive' = [f \in DOMAIN archive \cup DOMAIN report |->
                IF f \in DOMAIN archive THEN archive[f] ELSE report[f]]

Next == \E report \in Reports : Add(report)

Spec == Init /\ [][Next]_archive
=============================================================================
