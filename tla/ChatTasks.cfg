SPECIFICATION FairSpec
CONSTANTS
  Tasks <- MCTasks
  UploadTasks <- MCImageTasks
  ImageTasks <- MCImageTasks
  Workers = {w1, w2}
  Calls = {poll, wake}
  ClaimLimit = 2
  MaxConcurrent = 1
  Faulty = TRUE
INVARIANTS
  TypeOK
  OneOwner
  ConcurrencyBounded
  DoneIsPaid
PROPERTIES
  TasksProgress
CHECK_DEADLOCK FALSE
