SPECIFICATION Spec
CONSTANTS
  Arns = {1, 2, 3, 4}
  NoArn = NoArn
  Attrs <- MCAttrs
  Upper <- MCUpper
  Labels <- MCLabels
  Fields <- MCFields
INVARIANTS
  TypeOK
  NeverMisroutes
  ScanIsComplete
