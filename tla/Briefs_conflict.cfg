SPECIFICATION Spec
CONSTANTS
  People = {"ann", "bob"}
  Todos = {"d1", "d2"}
  Type <- MCType
  Role <- MCRole
  Overdue = {"d1"}
  Links <- MCLinks
  Steps = {"r1", "r2"}
  Clients = {"c1", "c2"}
  Notes = {"n"}
  Aware = FALSE
  MaxEvents = 1
  MaxEdits = 2
  Nobody = "nobody"
INVARIANT VersionAdmitsOne
CHECK_DEADLOCK FALSE
