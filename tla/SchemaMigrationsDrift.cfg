SPECIFICATION Spec
CONSTANTS
  MaxMigrations = 1
  MaxHandChanges = 1
  MaxValidations = 1
  HandColumns = {"year", "city", "status", "season_id", "home_team_id"}
INVARIANT CatchesDrift
