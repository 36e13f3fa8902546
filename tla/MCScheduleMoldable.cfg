SPECIFICATION Spec

CONSTANTS
    r1 = r1
    r2 = r2
    Reservations = {r1, r2}
    NumberOfSlots = 3
    SlotWidth = 2
    Capacity = 3
    Requests <- MoldableRequests
    CapacityUpdates = {2}
    StartTime = 0
    MaxTime = 5
    MinInt <- LeastInt
    MaxInt = 1000

SYMMETRY Symmetry

INVARIANTS
    NoOverbooking

PROPERTIES
    DeadlineKept
