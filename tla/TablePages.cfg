CONSTANTS
  Tables <- TablePages
  Routes <- TableRoutes
  Satisfies <- Test
  MaxAsks = 1
  MaxClicks = 1
  MaxEdits = 2
  MaxChanges = 1
SPECIFICATION Spec
INVARIANTS TypeOK OnlySelected OnlyConfirmed LandsOnPage
  SelectionIsShown TreeIsConsistent
