CONSTANTS
  Elements = {e1, e2, e3}
  Blank = blank
  Capacities = {0, 1, 3}
SPECIFICATION Spec
INVARIANTS ThreadsApart
PROPERTIES ImplementsFIFO
