SPECIFICATION ConnectionSpec
CONSTANTS
  Callers = {c1}
  Worker = worker
  Exit = exit
  Pumps = {}
  Commands = {"WriteTo"}
  Exits = FALSE
  MaxHandles = 2
INVARIANTS NoHandleLost
