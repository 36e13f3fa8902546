------------------------- MODULE MCSlottedSchedule -------------------------
(* The small schedules that TLC checks: slots of two seconds.              *)
EXTENDS SlottedSchedule, TLC

CONSTANTS r1, r2

Request(begin, end, duration, capacity, moldable) ==
    [start |-> begin, end |-> end, duration |-> duration,
     capacity |-> capacity, moldable |-> moldable]

LeastInt == -1000

\* An unset boundary of the booking interval.
Unset == LeastInt

\* Rigid requests: one that fills the slots it touches, one that straddles a
\* slot border, one without booking interval, and one that ends mid-slot.
RigidRequests ==
    {Request(0, 6, 2, 2, FALSE), Request(1, 8, 3, 1, FALSE),
     Request(Unset, Unset, 1, 1, FALSE), Request(3, 9, 4, 1, FALSE)}

\* Moldable requests next to a rigid one that takes part of their slots.
MoldableRequests ==
    {Request(0, 8, 2, 2, TRUE), Request(1, 8, 3, 3, TRUE), Request(0, 6, 3, 1, FALSE)}

\* A request that is late as soon as the clock has moved.
LateRequests == {Request(0, 2, 2, 1, FALSE)}

SimpleRequests == {Request(0, 8, 2, 1, FALSE)}

Symmetry == Permutations(Reservations)

=============================================================================
