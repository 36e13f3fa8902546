-------------------------- MODULE SlottedSchedule --------------------------
(***************************************************************************)
(* The time-slotted schedule of one resource (SlottedScheduleContext with  *)
(* the NodeStrategy): a window of NumberOfSlots virtual slots that slides  *)
(* with the clock over a ring of real slots.  Every operation runs under   *)
(* the write lock of the RMS that owns the schedule, so each one is one    *)
(* action; the clock and the callers move between them.                    *)
(*                                                                         *)
(* A reservation is the part of its entry in the ReservationStore that the *)
(* schedule reads and writes.                                              *)
(***************************************************************************)
EXTENDS Integers, FiniteSets, FiniteSetsExt, Functions

CONSTANTS
    Reservations,     \* ids of the reservations in the store
    NumberOfSlots,    \* number_of_real_slots
    SlotWidth,        \* slot_width, in seconds
    Capacity,         \* capacity of every slot when the schedule is created
    Requests,         \* what clients may ask for: a set of requests
    CapacityUpdates,  \* the capacities a Slurm sync may report ({}: simulated RMS)
    StartTime,        \* the time at which the schedule is created
    MaxTime,          \* bound of the clock
    MinInt, MaxInt    \* i64::MIN and i64::MAX

RequestType == [start: Int, end: Int, duration: Int, capacity: Int, moldable: BOOLEAN]

ASSUME ReservationsAssumption == IsFiniteSet(Reservations)
ASSUME GridAssumption ==
    /\ NumberOfSlots \in Nat \ {0}
    /\ SlotWidth \in Nat \ {0}
    /\ Capacity \in Nat
ASSUME RequestsAssumption ==
    /\ Requests \subseteq RequestType
    /\ CapacityUpdates \subseteq Nat
ASSUME TimeAssumption ==
    /\ StartTime \in Nat /\ MaxTime \in Nat
    /\ MinInt \in Int /\ MaxInt \in Nat
    /\ MinInt < 0

VARIABLES
    clock,   \* GlobalClock: the current second
    slots,   \* the ring of real slots
    start,   \* start_slot_index; the other window fields follow from it
    active,  \* active_reservations
    res,     \* the reservations in the ReservationStore
    rebooked \* history: the active reservations that were reserved once more

vars == <<clock, slots, start, active, res, rebooked>>

RingIndex == 0 .. NumberOfSlots - 1

SlotType == [load: Int, capacity: Nat, ids: SUBSET Reservations]

ReservationState ==
    {"Rejected", "Deleted", "Open", "ProbeAnswer", "ProbeReservation",
     "ReserveProbeReservation", "ReserveAnswer", "Committed", "Finished"}

ReservationType ==
    [state: ReservationState, bookingStart: Int, bookingEnd: Int,
     assignedStart: Int, assignedEnd: Int,
     duration: Int, capacity: Int, moldable: BOOLEAN]

TypeOK ==
    /\ clock \in Nat
    /\ slots \in [RingIndex -> SlotType]
    /\ start \in Nat
    /\ active \subseteq Reservations
    /\ res \in [Reservations -> ReservationType]
    /\ rebooked \subseteq active

-----------------------------------------------------------------------------
(* Slot arithmetic *)

Ring(i) == i % NumberOfSlots

SlotIndex(time) == IF time < 0 THEN 0 ELSE time \div SlotWidth

\* The virtual slots of the window that begins at slot s.
Window(s) == s .. s + NumberOfSlots - 1

WindowEnd(s) == s + NumberOfSlots - 1

\* get_effective_slot_index: the nearest slot of the window.
Effective(s, i) ==
    IF i < s THEN s ELSE IF i > WindowEnd(s) THEN WindowEnd(s) ELSE i

\* The times for which is_time_in_scheduling_window answers true.
WindowTimes(s) == s * SlotWidth .. WindowEnd(s) * SlotWidth + SlotWidth - 1

FirstSlot(q) == SlotIndex(q.assignedStart)

LastSlot(q) == SlotIndex(q.assignedEnd - 1)

\* The slots of window s that reservation q is booked in.
Span(s, q) == {i \in Window(s) : FirstSlot(q) <= i /\ i <= LastSlot(q)}

-----------------------------------------------------------------------------
(* One slot *)

\* Mutant: the load survives the reset of the slot.
SlotResetKeepsLoad(slot) == [slot EXCEPT !.ids = {}]

SlotReset(slot) == [slot EXCEPT !.load = 0, !.ids = {}]

\* Mutant: the capacity of the slot is not looked at.
SlotInsertUnchecked(slot, r, q) ==
    IF r \in slot.ids THEN slot
    ELSE [slot EXCEPT !.load = @ + q.capacity, !.ids = @ \union {r}]

SlotInsert(slot, r, q) ==
    IF slot.load + q.capacity > slot.capacity \/ r \in slot.ids
    THEN slot
    ELSE [slot EXCEPT !.load = @ + q.capacity, !.ids = @ \union {r}]

SlotDelete(slot, r, q) ==
    IF r \in slot.ids
    THEN [slot EXCEPT !.load = @ - q.capacity, !.ids = @ \ {r}]
    ELSE slot

-----------------------------------------------------------------------------
(* update(): the window slides to the current time.  Every operation of    *)
(* the schedule except clear and update_capacity starts with it, so the    *)
(* operations below work on Slid and Expired instead of slots and active.  *)

\* Mutant: the window keeps the slot before the current one.
NewStartLate == SlotIndex(clock) - 1

NewStart == SlotIndex(clock)

\* The slots that leave the window (at most the whole window does).
LeavingSlots == {i \in Window(start) : i < NewStart}

\* Mutant: the end of a reservation counts as part of it.
ExpiredByEnd ==
    {r \in active : \E i \in LeavingSlots :
        r \in slots[Ring(i)].ids /\ SlotIndex(res[r].assignedEnd) = i}

\* Reservations whose last slot leaves; the schedule deletes them.
Expired ==
    {r \in active : \E i \in LeavingSlots :
        r \in slots[Ring(i)].ids /\ LastSlot(res[r]) = i}

SlidSlots ==
    [k \in RingIndex |->
        IF \E i \in LeavingSlots : Ring(i) = k THEN SlotReset(slots[k]) ELSE slots[k]]

SlidActive == active \ Expired

SlidRebooked == rebooked \ Expired

SlidRes ==
    [r \in Reservations |->
        IF r \in Expired THEN [res[r] EXCEPT !.state = "Deleted"] ELSE res[r]]

-----------------------------------------------------------------------------
(* calculate_schedule(): where does a request fit?  `ring` is the ring of  *)
(* slots after the window has slid.                                        *)

BookingStart(q) == IF q.bookingStart = MinInt THEN 0 ELSE q.bookingStart

BookingEnd(q) == IF q.bookingEnd = MinInt THEN MaxInt ELSE q.bookingEnd

\* adjust_requirement_to_slot_capacity: what slot i can give of `need`.
Available(ring, i, need) ==
    IF i \notin Window(NewStart) THEN 0
    ELSE LET left == ring[Ring(i)].capacity - ring[Ring(i)].load
         IN  IF left >= need THEN need ELSE left

StartIn(q, i) ==
    IF i * SlotWidth < q.bookingStart THEN q.bookingStart ELSE i * SlotWidth

\* A rigid reservation needs its whole capacity in every slot it touches.
RigidFits(ring, q, i) ==
    \A j \in i .. SlotIndex(StartIn(q, i) + q.duration - 1) :
        Available(ring, j, q.capacity) = q.capacity

\* adjust_capacity: fewer units for longer; the work lost by the division
\* is not given back when the reservation shrinks again.
Shrink(m, units) ==
    IF units = 0
    THEN [m EXCEPT !.capacity = 0]
    ELSE LET longer == (m.capacity * m.duration) \div units
         IN  [capacity |-> units, duration |-> IF longer <= 0 THEN 1 ELSE longer]

\* The shape a moldable reservation has when the search, begun in slot i,
\* reaches slot j.  Capacity 0 stands for a search that was given up.
Molded(ring, q, i) ==
    LET shape[j \in i .. WindowEnd(NewStart) + 1] ==
            IF j = i THEN [capacity |-> q.capacity, duration |-> q.duration]
            ELSE LET m == shape[j - 1]
                     units == Available(ring, j - 1, m.capacity)
                 IN  IF units < m.capacity THEN Shrink(m, units) ELSE m
    IN  shape

\* Mutant: a reservation that shrank may end after its booking interval.
MoldableEndsUnbounded(ring, q, i) ==
    LET shape == Molded(ring, q, i)
        begin == StartIn(q, i)
        done  == {j \in DOMAIN shape : SlotIndex(begin + shape[j].duration - 1) < j}
        last  == shape[Min(done)]
    IN  IF q.capacity = 0 THEN {begin + q.duration}
        ELSE IF done = {} \/ last.capacity = 0 THEN {}
        ELSE {begin + last.duration} \intersect WindowTimes(NewStart)

\* The ends a moldable reservation can have when it starts in slot i: at most
\* one, none when the search fails.
MoldableEnds(ring, q, i) ==
    LET shape == Molded(ring, q, i)
        begin == StartIn(q, i)
        done  == {j \in DOMAIN shape : SlotIndex(begin + shape[j].duration - 1) < j}
        last  == shape[Min(done)]
    IN  IF q.capacity = 0 THEN {begin + q.duration}
        ELSE IF done = {} \/ last.capacity = 0 THEN {}
        ELSE IF last.capacity = q.capacity THEN {begin + q.duration}
        ELSE {begin + last.duration} \intersect
                 {t \in WindowTimes(NewStart) : t <= BookingEnd(q)}

Ends(ring, q, i) ==
    IF q.moldable THEN MoldableEnds(ring, q, i)
    ELSE IF RigidFits(ring, q, i) THEN {StartIn(q, i) + q.duration}
    ELSE {}

Searchable(ring, q) ==
    /\ 0 <= BookingStart(q) /\ BookingStart(q) <= BookingEnd(q)
    /\ q.moldable \/ ring[0].capacity <= 0 \/ q.capacity <= ring[0].capacity

EarliestSlot(q) == Effective(NewStart, SlotIndex(BookingStart(q)))

\* Mutant: the last slot in which the request may start is not tried.
LatestSlotExclusive(q) == Effective(NewStart, SlotIndex(BookingEnd(q) - q.duration) - 1)

LatestSlot(q) == Effective(NewStart, SlotIndex(BookingEnd(q) - q.duration))

\* The intervals try_fit_reservation offers for q.
Candidates(ring, q) ==
    IF ~ Searchable(ring, q) THEN {}
    ELSE UNION {{[begin |-> StartIn(q, i), end |-> e] : e \in Ends(ring, q, i)} :
                    i \in EarliestSlot(q) .. LatestSlot(q)}

\* ESTReservationCompare: candidates with the earliest start.
EarliestOf(offers) == {c \in offers : \A d \in offers : c.begin <= d.begin}

-----------------------------------------------------------------------------
(* Operations *)

\* only_promote_best: the interval of the candidate goes to the store, its
\* capacity and duration do not.
Promoted(q, c) ==
    [q EXCEPT !.bookingStart = c.begin, !.bookingEnd = c.end,
              !.assignedStart = c.begin, !.assignedEnd = c.end,
              !.state = "ReserveAnswer"]

\* reserve_without_check: insert q into its slots; a reservation that is active
\* already cannot be inserted into the active ones, and so it is taken out of
\* all these slots, those it had before included.
Booked(ring, r, q) ==
    [k \in RingIndex |->
        IF \E i \in Span(NewStart, q) : Ring(i) = k
        THEN IF r \in SlidActive
             THEN SlotDelete(SlotInsert(ring[k], r, q), r, q)
             ELSE SlotInsert(ring[k], r, q)
        ELSE ring[k]]

\* Mutant: the last slot of the reservation stays booked.
ReleasedButLast(ring, r, q) ==
    [k \in RingIndex |->
        IF \E i \in Span(NewStart, q) : Ring(i) = k /\ i < LastSlot(q)
        THEN SlotDelete(ring[k], r, q)
        ELSE ring[k]]

Released(ring, r, q) ==
    [k \in RingIndex |->
        IF \E i \in Span(NewStart, q) : Ring(i) = k
        THEN SlotDelete(ring[k], r, q)
        ELSE ring[k]]

Slide ==
    /\ start' = NewStart
    /\ UNCHANGED clock

Tick ==
    /\ clock < MaxTime
    /\ clock' \in clock + 1 .. MaxTime
    /\ UNCHANGED <<slots, start, active, res, rebooked>>

\* Schedule::update, and the load and fragmentation queries that begin with it.
Update ==
    /\ Slide
    /\ slots' = SlidSlots
    /\ active' = SlidActive
    /\ rebooked' = SlidRebooked
    /\ res' = SlidRes

\* Schedule::probe, which asks neither for the state nor for a booking of r.
Probe(r) ==
    /\ Slide
    /\ slots' = SlidSlots
    /\ active' = SlidActive
    /\ rebooked' = SlidRebooked
    /\ res' = [SlidRes EXCEPT ![r].state = "ProbeAnswer"]

\* A reserve takes a reservation in any state, an active one included: a commit
\* of something that is not waiting for it reserves first (AcI::commit).  One
\* that fails rejects an active reservation without touching its slots.
ReserveFails(r) ==
    /\ Candidates(SlidSlots, res[r]) = {}
    /\ Slide
    /\ slots' = SlidSlots
    /\ active' = SlidActive
    /\ rebooked' = SlidRebooked
    /\ res' = [SlidRes EXCEPT ![r].state = "Rejected"]

\* A negative capacity sets the state to Rejected on the way, but neither
\* stops the operation nor outlives it.
ReserveSucceeds(r) ==
    /\ Slide
    /\ active' = SlidActive \union {r}
    /\ rebooked' = SlidRebooked \union ({r} \intersect SlidActive)
    /\ \E c \in EarliestOf(Candidates(SlidSlots, res[r])) :
          LET q == Promoted(res[r], c)
          IN  /\ slots' = Booked(SlidSlots, r, q)
              /\ res' = [SlidRes EXCEPT ![r] = q]

\* The schedule does not know r: no update, only the state changes.
DeleteUnknown(r) ==
    /\ r \notin active
    /\ res' = [res EXCEPT ![r].state = "Rejected"]
    /\ UNCHANGED <<clock, slots, start, active, rebooked>>

\* r has ended (or expires in the update): nothing but the update happens.
DeleteEnded(r) ==
    /\ r \in active
    /\ r \in Expired \/ res[r].assignedEnd <= clock
    /\ Update

DeleteActive(r) ==
    /\ r \in SlidActive
    /\ res[r].assignedEnd > clock
    /\ Slide
    /\ slots' = Released(SlidSlots, r, res[r])
    /\ active' = SlidActive \ {r}
    /\ rebooked' = SlidRebooked \ {r}
    /\ res' = [SlidRes EXCEPT ![r].state = "Deleted"]

\* Schedule::clear forgets every booking but not the reservations' states.
Clear ==
    /\ Slide
    /\ slots' = [k \in RingIndex |-> SlotReset(slots[k])]
    /\ active' = {}
    /\ rebooked' = {}
    /\ UNCHANGED res

Capacities == [r \in Reservations |-> res[r].capacity]

CapacityOf(rs) == SumFunctionOnSet(Capacities, rs)

\* update_capacity for one slot: what can be left of it when its ids are
\* removed in any order (a HashSet's) until the load is below `capacity`.
Resized(slot, capacity) ==
    LET without(rs) == [slot EXCEPT !.load = @ - CapacityOf(rs), !.ids = @ \ rs]
        fits(rs) == without(rs).load < capacity
        enough == {rs \in SUBSET slot.ids : fits(rs) /\ \E r \in rs : ~ fits(rs \ {r})}
    IN  IF fits({}) THEN {[slot EXCEPT !.capacity = capacity]}
        ELSE IF fits(slot.ids) THEN {[without(rs) EXCEPT !.capacity = capacity] : rs \in enough}
        ELSE {without(slot.ids)}

\* update_capacity: every slot on its own; neither active nor res changes.
UpdateCapacity(capacity) ==
    /\ slots' \in {ring \in [RingIndex -> UNION {Resized(slots[k], capacity) : k \in RingIndex}] :
                      \A k \in RingIndex : ring[k] \in Resized(slots[k], capacity)}
    /\ UNCHANGED <<clock, start, active, res, rebooked>>

(* What callers do to the state of a reservation between two operations *)

\* AcI::commit: the RMS has accepted the reservation.
Commit(r) ==
    /\ res[r].state = "ReserveAnswer"
    /\ res' = [res EXCEPT ![r].state = "Committed"]
    /\ UNCHANGED <<clock, slots, start, active, rebooked>>

\* The job of r is done: a simulated RMS says so right after the commit, the
\* Slurm sync when the job has left the cluster.
Finish(r) ==
    /\ res[r].state = "Committed"
    /\ res' = [res EXCEPT ![r].state = "Finished"]
    /\ UNCHANGED <<clock, slots, start, active, rebooked>>

\* A caller tries again: ProbeReservations::demote after a probe, the HEFT
\* scheduler after a failed reserve.
Reopen(r) ==
    /\ res[r].state \in {"ProbeAnswer", "Rejected"}
    /\ res' = [res EXCEPT ![r].state = "Open"]
    /\ UNCHANGED <<clock, slots, start, active, rebooked>>

-----------------------------------------------------------------------------
(* Specification *)

\* A reservation as a client submits it.
Submitted(request) ==
    [state |-> "Open", bookingStart |-> request.start, bookingEnd |-> request.end,
     assignedStart |-> 0, assignedEnd |-> 0,
     duration |-> request.duration, capacity |-> request.capacity,
     moldable |-> request.moldable]

\* SlottedScheduleContext::new, after its update().
Init ==
    /\ clock = StartTime
    /\ slots = [k \in RingIndex |-> [load |-> 0, capacity |-> Capacity, ids |-> {}]]
    /\ start = SlotIndex(StartTime)
    /\ active = {}
    /\ rebooked = {}
    /\ res \in [Reservations -> {Submitted(request) : request \in Requests}]

Next ==
    \/ Tick
    \/ Update
    \/ Clear
    \/ \E r \in Reservations :
          \/ Probe(r)
          \/ ReserveFails(r)
          \/ ReserveSucceeds(r)
          \/ DeleteUnknown(r)
          \/ DeleteEnded(r)
          \/ DeleteActive(r)
          \/ Commit(r)
          \/ Finish(r)
          \/ Reopen(r)
    \/ \E capacity \in CapacityUpdates : UpdateCapacity(capacity)

Spec == Init /\ [][Next]_vars

-----------------------------------------------------------------------------
(* Properties *)

\* No slot is loaded beyond its capacity, whatever order of reserves, deletes,
\* window moves and capacity changes led there (Slot::insert_reservation).
NoOverbooking ==
    \A k \in RingIndex : slots[k].load <= slots[k].capacity

\* The load counter of a slot is what its ids have reserved: nothing leaks
\* and nothing is given back twice (Slot::insert_reservation,
\* Slot::delete_reservation, update_capacity).
LoadIsBooked ==
    \A k \in RingIndex : slots[k].load = CapacityOf(slots[k].ids)

\* A slot of the window holds exactly the active reservations that span it,
\* except those that were reserved once more while they were active, which no
\* slot holds any longer: the reuse of a real slot for a later virtual one
\* loses no booking and keeps no old one, and a second reserve leaves nothing
\* of the first behind (update, reserve_without_check, delete_reservation).
\* For rigid reservations and a capacity that does not change.
BookedExactly ==
    \A i \in Window(start) :
        slots[Ring(i)].ids = {r \in active \ rebooked : i \in Span(start, res[r])}

\* What is left of the promise of update: a reservation that was reserved only
\* once is no longer active when its last slot has left the window.
ExpiredAreDeleted ==
    \A r \in active \ rebooked : LastSlot(res[r]) >= start

\* The starts a rigid request could be given, second by second: inside its
\* booking interval, in the window, and with room in every slot it touches.
RoomAt(q, t) ==
    \A j \in SlotIndex(t) .. SlotIndex(t + q.duration - 1) :
        /\ j \in Window(NewStart)
        /\ SlidSlots[Ring(j)].load + q.capacity <= SlidSlots[Ring(j)].capacity

PossibleStarts(q) ==
    {t \in WindowTimes(NewStart) :
        BookingStart(q) <= t /\ t + q.duration <= BookingEnd(q) /\ RoomAt(q, t)}

\* The latest start of the request has not left the window, and its booking
\* interval is long enough for it.
InTime(q) ==
    /\ BookingStart(q) + q.duration <= BookingEnd(q)
    /\ SlotIndex(BookingEnd(q) - q.duration) >= NewStart

\* calculate_schedule and the EST comparator against that definition: a rigid
\* request that is in time is rejected only if it fits nowhere, and otherwise
\* gets the earliest second at which it fits, although only slot starts and
\* the start of the booking interval are tried.
SearchIsExact ==
    [][\A r \in Reservations :
          LET q == res[r]
          IN  ~ q.moldable /\ InTime(q) =>
                /\ ReserveFails(r) => PossibleStarts(q) = {}
                /\ ReserveSucceeds(r) => res'[r].assignedStart = Min(PossibleStarts(q))]_vars

\* A reserve that comes in time keeps the booking interval, for moldable
\* reservations too, whose end moves while the search shrinks them.
DeadlineKept ==
    [][\A r \in Reservations :
          InTime(res[r]) /\ ReserveSucceeds(r) =>
              /\ BookingStart(res[r]) <= res'[r].assignedStart
              /\ res'[r].assignedEnd <= BookingEnd(res[r])]_vars

(* The abstract specification.  For rigid reservations and a capacity that *)
(* does not change.                                                        *)

BookingOf(q) == [first |-> FirstSlot(q), last |-> LastSlot(q), units |-> q.capacity]

Bookings == [r \in active \ rebooked |-> BookingOf(res[r])]

Calendar == INSTANCE SlotCalendar WITH
    Horizon <- NumberOfSlots, today <- start, booked <- Bookings

\* Ring, window and search together are a calendar without an end: a booking
\* is made only in free slots, and neither the reuse of slots, nor bookings
\* and deletions of others, nor what callers do to its state change it or
\* lose it before its last slot is past (SlottedScheduleContext).  A second
\* reserve of an active reservation is a cancellation.
IsCalendar == Calendar!Spec

(* What the documentation says and the code does not do *)

\* README: SLA enforcement guarantees execution deadlines.
DeadlineGuaranteed ==
    [][\A r \in Reservations :
          ReserveSucceeds(r) => res'[r].assignedEnd <= BookingEnd(res[r])]_vars

\* The comment on update: all reservations that have expired are deleted.
ExpireOnTime ==
    \A r \in active : LastSlot(res[r]) >= start

\* README: ReserveAnswer means that resources are temporarily reserved.
ReserveAnswerIsBooked ==
    \A r \in active : res[r].state = "ReserveAnswer" =>
        \A i \in Span(start, res[r]) : r \in slots[Ring(i)].ids

=============================================================================
