SPECIFICATION MCSpec
CONSTANTS
  Tasks = {a, b}
  Threads = {main, t1, t2}
  Main = main
  None = None
  MainOps = {"activate", "awaken"}
  TaskOps = {"stop", "awaken", "finish"}
  Discipline = "once"
  CreateFails = FALSE
  MaxAwakens = 2
INVARIANT NoLostWakeup
INVARIANT WakeAccount
SYMMETRY Symmetry
CHECK_DEADLOCK FALSE
