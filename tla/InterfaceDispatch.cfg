\* A scheduled interface and another, a Celery process and a web worker, an hour of two minutes.
CONSTANTS
  Batch = {batch}
  Other = {rest}
  Celery = {task}
  Web = {web}
  Cron <- MCCron
  AdminInput <- MCAdminInput
  Minutes = 2
  Window = 1
  MaxLogs = 2
  MaxQueue = 1
SPECIFICATION FairSpec
INVARIANT TypeOK
INVARIANT BulkMerges
PROPERTY ToggleUndoesNothing
PROPERTY OffDrains
PROPERTY DueIsExecuted
CHECK_DEADLOCK FALSE
