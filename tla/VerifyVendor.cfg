SPECIFICATION Spec
CONSTANTS
  Labels = {"S", "U", "T", "name"}
  Mapping <- MCMapping
  Form <- MCForm
  TypeCode <- MCTypeCode
  LmkKcv <- MCLmkKcv
  Keys <- MCKeys
  Configs <- MCConfigs
  Damages <- MCDamages
  MaxChanges = 1
CHECK_DEADLOCK FALSE
INVARIANTS
  PassedBoots
