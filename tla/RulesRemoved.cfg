\* Rules are removed twice without being selected again.
CONSTANTS
  Tables <- FirewallPage
  Routes <- TableRoutes
  Satisfies <- Test
  MaxAsks = 0
  MaxClicks = 0
  MaxEdits = 2
  MaxChanges = 0
SPECIFICATION Spec
PROPERTIES RemovesOnlySelected
