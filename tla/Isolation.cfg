\* Three requests on a policy, a machine with two interfaces and the host.
CONSTANTS
  Request = {1, 2, 3}
  Policy = {"chaos-partition-kafka-0"}
  Machine = {"kvm", "cubecluster"}
  Host = {"cubecluster"}
  Ports = 2
SPECIFICATION Spec
INVARIANTS
  TypeOK
  AnsweredIsAudited
  PoliciesAreAccountedFor
  FlagTellsLinks
PROPERTIES
  Promise
