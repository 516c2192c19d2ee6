\* Several starts with the same PID file, overlapping or not.
CONSTANTS
  Starter = {s1, s2, s3}
  Tailing = {s3}
SPECIFICATION DaemonSpec
INVARIANTS
  MultipleInstancesPrevented
