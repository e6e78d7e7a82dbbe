CONSTANTS
  Legal <- MCLegal
  Defaults <- MCDefaults
  Forms <- MCForms
  MaxFails = 1
  Off = Off
  Missing = Missing
  Absent = Absent
  Bad = Bad
SPECIFICATION Spec
INVARIANTS
  TypeOK
  RestartChangesNothing
  UntouchedPageKeeps
PROPERTIES
  TornInOnePlace
  CredentialsNeverBlanked
  OnlyTornSaveStrands
