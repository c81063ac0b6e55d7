\* Violated: an image that is confirmed passed its self-test.
CONSTANTS
  Releases = {1, 2, 3}
  Good = {1, 2}
  MaxFaults = 1
SPECIFICATION Spec
INVARIANT ConfirmedPassed
CHECK_DEADLOCK FALSE
