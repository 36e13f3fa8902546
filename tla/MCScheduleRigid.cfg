SPECIFICATION Spec

CONSTANTS
    r1 = r1
    r2 = r2
    Reservations = {r1, r2}
    NumberOfSlots = 3
    SlotWidth = 2
    Capacity = 2
    Requests <- RigidRequests
    CapacityUpdates = {}
    StartTime = 0
    MaxTime = 7
    MinInt <- LeastInt
    MaxInt = 1000

SYMMETRY Symmetry

INVARIANTS
    TypeOK
    LoadIsBooked
    BookedExactly

PROPERTIES
    SearchIsExact
    IsCalendar
