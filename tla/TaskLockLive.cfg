CONSTANTS
  Nodes = {n1, n2}
  Workers = {w1}
  Nobody = Nobody
  LongRuns = TRUE
SPECIFICATION LiveSpec
PROPERTIES
  NeverWedged
