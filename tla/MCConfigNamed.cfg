CONSTANTS
  Name = {"s1", "s2"}
  Label = {"", "a", "deis", "deis-controller", "default-backend"}
  Port <- MCPort
  MaxPorts = 2
  Pods <- MCPods
  containerPort <- MCContainerPort
  Absent = Absent
SPECIFICATION Spec
INVARIANT NamedTargetPortIsResolved
CHECK_DEADLOCK FALSE
