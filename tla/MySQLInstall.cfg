CONSTANTS
  Hosts = {h1}
  Ports = {p1, p2, p3}
  Homes = {a, b}
  MaxTries = 2
  MaxTasks = 3
  MaxFaults = 1
  MaxId = 2
  None = None
  Blank = Blank
  Imported = Imported
SPECIFICATION Spec
CHECK_DEADLOCK FALSE
SYMMETRY Symmetry
INVARIANTS TypeOK ServerIdsAgree RegistrationIsTrue
PROPERTY ImplementsPool
