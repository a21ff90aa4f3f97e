SPECIFICATION Spec
CONSTANTS
  Names <- MCNames
  Patches <- MCPatches
INVARIANTS GatesRight CostRight
CHECK_DEADLOCK FALSE
