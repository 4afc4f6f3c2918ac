\* Every method with any upload of the names that matter and any output of the
\* tool, for every SoC and across upgrades of the BSP.
CONSTANTS
  Versions <- SomeVersions
SPECIFICATION Spec
INVARIANTS
  LinksHaveTargets
  OnlyResultsReturned
  NoResultLost
PROPERTIES
  UpgradeRaisesWord
  UpgradeKeepsScripts
