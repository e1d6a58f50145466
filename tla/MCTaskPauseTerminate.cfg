SPECIFICATION FairSpec
CONSTANTS
  Tasks = {a}
  Threads = {main, t1}
  Main = main
  None = None
  MainOps = {"activate", "terminate"}
  TaskOps = {"stop", "pause"}
  Discipline = "terminated"
  CreateFails = FALSE
  MaxAwakens = 1
PROPERTY TerminateReturns
