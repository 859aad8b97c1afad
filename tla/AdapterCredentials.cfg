\* Three interfaces of the form with credentials, one call.
CONSTANTS
  WebWorker = {web}
  TaskWorker = {task}
  MaxCalls = 1
  MaxEdits = 1
  RetryMax = 1
  MaxMessages = 2
  Backlog = 2
  NFiles = 2
  FormInput <- MCCredentialForms
  AdminInput <- MCAdmin
  SettingsInput <- MCSettings
SPECIFICATION Spec
INVARIANT CredentialsReach
CHECK_DEADLOCK FALSE
