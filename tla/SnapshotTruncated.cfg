CONSTANTS
  Key = {k1, k2}
  Data = {"x", "y"}
  Mode = {"rw"}
  Kinds = {"filesystem"}
  MaxChanges = 1
  MaxStarts = 1
SPECIFICATION Spec
INVARIANT EventsMeanChange
