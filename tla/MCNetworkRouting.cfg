SPECIFICATION Spec
CONSTANTS
  gate = gate host = host midR = midR midS = midS nowhere = nowhere
  first = first left = left right = right detour = detour last = last back = back
  Routers = {gate, host, midR, midS}
  AccessPoints = {gate, host}
  Elsewhere = {nowhere}
  Links <- MCLinks
  Source <- MCSource
  Target <- MCTarget
  Bandwidth <- MCBandwidth
  K = 2
  Reservations = {a, b, c}
  Requests <- MCRequests
  NumberOfSlots = 3
  MaxTime = 2
SYMMETRY Symmetry
INVARIANTS
  TypeOK
  KShortest
  NoLinkOverbooked
  RigidIsRouted
  HeldIsBooked
CHECK_DEADLOCK FALSE
