CONSTANTS
  CallbackOwnerId = {a1, a2, a3}
  NoSession = NoSession
  SESSION_KEY_UPDATE_PERIOD = 1
  MaxClock = 2
SPECIFICATION TimerSpec
INVARIANTS
  TypeOK
  ReadMatchesState
  OneSessionListens
  OneTimerPerSession
  NoRetryIsLost
  OnlyStepAbortsBreak
PROPERTIES
  ImplementsLifecycle
  StepTerminates
  DueTimerFires
  DeadSessionFreed
CHECK_DEADLOCK FALSE
