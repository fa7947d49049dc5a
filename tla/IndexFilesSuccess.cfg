CONSTANTS
  MaxBuilds = 2
  MaxErrors = 0
  StartLegacy = {FALSE}
SPECIFICATION Spec
INVARIANTS
  SuccessMeansLoadable
