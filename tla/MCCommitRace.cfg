SPECIFICATION Spec
CONSTANTS
  a = a b = b c = c ab = ab ac = ac bc = bc
  Tasks = {a, b, c}
  Links = {ab, ac, bc}
  Jobs = {j}
  From <- MCFrom
  To <- MCTo
  Sync = {ab}
  Empty = {ac}
  Transfer <- MCTransfer
  Groups <- MCGroups
  First <- MCFirst
  Duration <- MCDuration
  Earliest = 0
  Deadline = 4
  Horizon = 5
  Components = {p, q}
  None = None
INVARIANTS
  CommittedIsNoFailure
CHECK_DEADLOCK FALSE
