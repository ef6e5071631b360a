SPECIFICATION Spec
CONSTANTS
  MaxMigrations = 3
  MaxHandChanges = 1
  MaxValidations = 1
  HandColumns = {"year", "city", "status", "season_id", "home_team_id"}
INVARIANTS TypeOK RevisionNamesSchema PassedOnlyAtHead VerdictIsExact
PROPERTY ClubsAndFixturesSurvive
