SPECIFICATION Spec
CONSTANTS
  Trees <- MCTrees
  OptSize = 4
INVARIANTS
  ModuleIdsAreUnique
  KeysAreUnique
  ModulesAreNotTooLarge
  BindingsLeadToObjects
CHECK_DEADLOCK FALSE
