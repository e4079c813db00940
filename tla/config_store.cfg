SPECIFICATION Spec
CONSTANTS
  Versions = {1, 3, 5, 6, 7, 8, 11, 12, 13, 14, 15}
  SubTypes = {1, 7, 8, 14}
  MaxCuts = 2
  MaxWrites = 2
INVARIANTS TypeOK BootedIsStored MeaningPreserved NoMixedConfig
