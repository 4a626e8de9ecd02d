\* Two chaos requests pass the rate limit together.
CONSTANTS
  Node = {"master", "n1"}
  Workers = {"n1"}
  Pod = {"kafka", "daemon", "static"}
  Daemons = {"daemon"}
  Statics = {"static"}
  Request = {1, 2}
  Nowhere = "nowhere"
SPECIFICATION Spec
INVARIANT ChaosRunsApart
