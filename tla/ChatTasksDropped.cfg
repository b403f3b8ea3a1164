SPECIFICATION Spec
CONSTANTS
  Tasks <- MCTasks
  UploadTasks = {}
  ImageTasks = {}
  Workers = {w1}
  Calls = {poll}
  ClaimLimit = 2
  MaxConcurrent = 1
  Faulty = FALSE
INVARIANT RunningIsRun
CHECK_DEADLOCK FALSE
