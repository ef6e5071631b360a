---------------------------- MODULE FixtureStore ----------------------------
(***************************************************************************)
(* What importing fixtures promises: a store of what was last reported of  *)
(* each fixture.  An import replaces what its report speaks of, all of it  *)
(* at once, and leaves every other fixture alone.                          *)
(***************************************************************************)
CONSTANT Reports   \* each a function from fixture ids to facts

VARIABLE store     \* function from fixture ids to facts

Init == store = <<>>

Import(report) ==
  store' = [f \in DOMAIN store \cup DOMAIN report |->
              IF f \in DOMAIN report THEN report[f] ELSE store[f]]

Next == \E report \in Reports : Import(report)

Spec == Init /\ [][Next]_store
=============================================================================
