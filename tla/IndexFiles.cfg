\* Two runs of the builder over a fresh directory or over an older index,
\* each with a write error or more.
CONSTANTS
  MaxBuilds = 2
  MaxErrors = 1
  StartLegacy = {TRUE, FALSE}
SPECIFICATION Spec
INVARIANTS
  MarkerMeansWhole
  LoadedOneBuild
  RabitqOfThisBuild
