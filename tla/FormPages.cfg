CONSTANTS
  Forms <- AllForms
  Routes <- AllRoutes
  MaxTouched = 2
  Satisfies <- Holds
  Reads <- Read
SPECIFICATION Spec
INVARIANTS TypeOK CascadesEnd ValidityIsCurrent PristineMeansSaved CommandsHold
  MissingIsReachable NothingLost LandsOnPage InputSticks
