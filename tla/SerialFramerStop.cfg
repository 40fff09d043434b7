CONSTANTS
  MaxBytes = 3
  MaxBurst = 3
  BufLen = 5
SPECIFICATION Spec
INVARIANT StopFindsTimerRunning
