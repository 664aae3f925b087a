SPECIFICATION AppsSpec
CONSTANTS Callers = {c1, c2} Drivers = {n, d1} Native = n None = none Bus = "pci" HasOverride = TRUE
INVARIANTS OverrideCleaned  GeneratorSound
  
SYMMETRY AppsSymmetry
CHECK_DEADLOCK FALSE
