SPECIFICATION MCSpec
CONSTANTS
  Tasks = {a}
  Threads = {main, t1, t2}
  Main = main
  None = None
  MainOps = {"activate", "awaken", "terminate"}
  TaskOps = {"stop", "pause", "io", "finish"}
  Discipline = "terminated"
  CreateFails = TRUE
  MaxAwakens = 2
  Vms = {v1, v2, v3, v4}
  Builders = {v2}
  Outputs = {v2, v3}
  First = v1
INVARIANT OneThreadPerVm
INVARIANT SyncLive
INVARIANT JoinsOnce
INVARIANT VmsSound
PROPERTY AwakenResumes
PROPERTY TerminateReturns
PROPERTY DestroyReturns
