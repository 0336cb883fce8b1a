SPECIFICATION Spec
CONSTANTS
  s1 = s1
  s2 = s2
  r1 = r1
  r2 = r2
  new = new
  Session = {s1, s2}
  Loading = {s1}
  Batch = {s1}
  Row = {r1, r2}
  SelectNew = new
  SyntaxError = SyntaxError
  Unnamed = unnamed
  Name = {unnamed, named}
  Scripts <- TheScripts
  MaxMessages <- TheBound
\* The clients may have nothing more to say.
CHECK_DEADLOCK FALSE
INVARIANTS
  AnsweredIsDurable
  ErrorUndoesTheRest
  LocksProtectUpdates
PROPERTIES
  EveryRequestAnswered
