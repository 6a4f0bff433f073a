CONSTANTS
  Calls = {c1, c2}
  Nobody = Nobody
  MaxRequests = 2
  Platforms = {"posix", "windows"}
SPECIFICATION Spec
INVARIANT MissingTelemetryIsNeverZero
CHECK_DEADLOCK FALSE
