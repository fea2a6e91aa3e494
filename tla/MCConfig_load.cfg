SPECIFICATION Spec
CONSTANTS
  None = None
  Malformed = Malformed
  Width = 5
  Kilo = 4
  Name = {"a", "b"}
  Source = {"oci"}
  RawFile <- Files
  Bind = {"file", "env"}
  Interval = {0, 1}
INVARIANTS
  TypeOK
  AcceptedBuilds
  WithinEngine
  LaterEntryWins
