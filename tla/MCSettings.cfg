SPECIFICATION Spec
CONSTANTS
  File = file
  Latitude = latitude
  Trajectories = {north, south}
  Others <- MCOthers
SYMMETRY Symmetry
INVARIANTS
  StartFailsOnlyOfText SavedIsStored GeneratesAsSaved
