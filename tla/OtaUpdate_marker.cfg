\* Violated: an image that boots for the first time has its rollback marker.
CONSTANTS
  Releases = {1, 2, 3}
  Good = {1, 3}
  MaxFaults = 2
SPECIFICATION Spec
INVARIANT BootsWithMarker
CHECK_DEADLOCK FALSE
