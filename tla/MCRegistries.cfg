SPECIFICATION Spec
CONSTANTS
  Kinds = {"memory", "etcd", "consul", "nacos"}
  Instances = {i1}
  Watchers = {w1}
  Callers = {c1, c2}
  Loops = {g1, g2}
  Buf = 2
  MaxOps = 4
INVARIANTS Withdrawable EventBalance LastEventIsCurrent
PROPERTIES ForgottenAfterClose DroppedIsReleased
CHECK_DEADLOCK FALSE
