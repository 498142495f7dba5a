SPECIFICATION Spec
CONSTANTS
  Cancellers = {c1}
  Origins <- AllOrigins
  MaxAttempts = 2
PROPERTY CancelReachesTemporal
CHECK_DEADLOCK FALSE
