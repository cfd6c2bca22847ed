CONSTANTS
  Instances = {i1, i2}
  Requests = {r1, r2}
  Params = {p0, p1}
SPECIFICATION Spec
PROPERTY KilledIsFinal
