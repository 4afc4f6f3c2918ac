\* What the client gets back of a FIT image.
CONSTANTS
  Versions <- SomeVersions
SPECIFICATION Spec
INVARIANTS
  FitOutputsOnly
