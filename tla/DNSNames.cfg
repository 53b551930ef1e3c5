SPECIFICATION Spec
CONSTANTS
  Labels = {"www", "WWW", "*"}
  Domain <- ComDomain
  MaxLabels = 2
  Stored <- ListedForm
  NoName = NoName
INVARIANTS OnlyNamesake NamesakeFound
CHECK_DEADLOCK FALSE
