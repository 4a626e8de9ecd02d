\* Two drains or chaos runs, operators and the scheduler, on two nodes.
CONSTANTS
  Node = {"master", "n1"}
  Workers = {"n1"}
  Pod = {"kafka", "daemon", "static"}
  Daemons = {"daemon"}
  Statics = {"static"}
  Request = {r1, r2}
  Nowhere = "nowhere"
SYMMETRY Interchangeable
SPECIFICATION Spec
INVARIANTS
  TypeOK
  DrainLeavesOnlyRefused
