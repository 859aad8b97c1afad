\* A web worker and a Celery process, two calls, one edit: two messages in the queue, one per call.
CONSTANTS
  WebWorker = {web}
  TaskWorker = {task}
  MaxCalls = 2
  MaxEdits = 1
  RetryMax = 1
  MaxMessages = 2
  Backlog = 2
  NFiles = 2
  FormInput <- MCForms
  AdminInput <- MCAdmin
  SettingsInput <- MCSettings
SPECIFICATION FairSpec
INVARIANT TypeOK
INVARIANT FormRoundTrip
INVARIANT MessagesConserved
INVARIANT SuccessIsComplete
INVARIANT RepeatsBounded
PROPERTY CallsEnd
CHECK_DEADLOCK FALSE
