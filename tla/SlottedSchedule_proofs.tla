----------------------- MODULE SlottedSchedule_proofs -----------------------
(***************************************************************************)
(* Proofs about SlottedSchedule for every set of reservations, every       *)
(* window, every slot width and every capacity.                            *)
(***************************************************************************)
EXTENDS SlottedSchedule, SumTheorems, TLAPS

\* The resource is a simulated one: only the Slurm sync calls
\* update_capacity, which may take bookings out of a slot.
Simulated == CapacityUpdates = {}

-----------------------------------------------------------------------------
(* Slot arithmetic *)

\* Slot indices are natural numbers.
LEMMA SlotIndexType == \A t \in Int : SlotIndex(t) \in Nat
  BY GridAssumption DEF SlotIndex

\* A later time is in no earlier slot.
LEMMA SlotIndexMonotone ==
  \A t, u \in Int : t <= u => SlotIndex(t) <= SlotIndex(u)
  BY GridAssumption DEF SlotIndex

\* A time after the start of a slot is in that slot or a later one.
LEMMA SlotIndexLower ==
  \A t \in Int, i \in Nat : i * SlotWidth <= t => i <= SlotIndex(t)
<1> SUFFICES ASSUME NEW t \in Int, NEW i \in Nat, i * SlotWidth <= t
             PROVE  i <= SlotIndex(t)
  OBVIOUS
<1>1. SlotWidth \in Nat \ {0} BY GridAssumption
<1>2. t >= 0 BY <1>1
<1>3. i <= t \div SlotWidth BY <1>1
<1> QED BY <1>2, <1>3 DEF SlotIndex

\* A time before the end of a slot is in that slot or an earlier one.
LEMMA SlotIndexUpper ==
  \A t \in Int, i \in Nat : t < (i + 1) * SlotWidth => SlotIndex(t) <= i
<1> SUFFICES ASSUME NEW t \in Int, NEW i \in Nat, t < (i + 1) * SlotWidth
             PROVE  SlotIndex(t) <= i
  OBVIOUS
<1>1. SlotWidth \in Nat \ {0} BY GridAssumption
<1>2. CASE t < 0 BY <1>2 DEF SlotIndex
<1>3. CASE t >= 0
  <2>1. t \div SlotWidth \in Nat /\ SlotWidth * (t \div SlotWidth) <= t BY <1>1, <1>3
  <2>2. SlotWidth * (t \div SlotWidth) < SlotWidth * (i + 1) BY <1>1, <2>1
  <2>3. t \div SlotWidth < i + 1 BY <1>1, <2>1, <2>2
  <2> QED BY <1>3, <2>1, <2>3 DEF SlotIndex
<1> QED BY <1>2, <1>3

\* Quotient and remainder of a virtual slot index.
LEMMA RingDivision ==
  \A i \in Int : /\ i \div NumberOfSlots \in Int
                 /\ Ring(i) \in RingIndex
                 /\ i = NumberOfSlots * (i \div NumberOfSlots) + Ring(i)
  BY GridAssumption DEF Ring, RingIndex

\* A multiple of the ring size that is smaller than the ring size is zero.
LEMMA SmallMultiple ==
  ASSUME NEW n \in Int, - NumberOfSlots < NumberOfSlots * n, NumberOfSlots * n < NumberOfSlots
  PROVE  n = 0
<1>1. NumberOfSlots \in Nat \ {0} BY GridAssumption
<1>2. CASE n >= 1
  <2>1. NumberOfSlots * n >= NumberOfSlots BY <1>1, <1>2
  <2> QED BY <2>1, <1>1
<1>3. CASE n <= -1
  <2>1. NumberOfSlots * n <= - NumberOfSlots BY <1>1, <1>3
  <2> QED BY <2>1, <1>1
<1> QED BY <1>2, <1>3

\* Two slots of one window never share a real slot.
LEMMA RingInjective ==
  ASSUME NEW s \in Int, NEW i \in Window(s), NEW j \in Window(s), Ring(i) = Ring(j)
  PROVE  i = j
<1>1. NumberOfSlots \in Nat \ {0} BY GridAssumption
<1>2. i \in Int /\ j \in Int /\ - NumberOfSlots < i - j /\ i - j < NumberOfSlots
  BY <1>1 DEF Window
<1>3. PICK a \in Int : i = NumberOfSlots * a + Ring(i) BY <1>2, RingDivision
<1>4. PICK b \in Int : j = NumberOfSlots * b + Ring(j) BY <1>2, RingDivision
<1>5. Ring(i) \in Int BY <1>1, <1>2, RingDivision DEF RingIndex
<1>6. i - j = NumberOfSlots * (a - b) BY <1>1, <1>3, <1>4, <1>5
<1>7. a - b = 0 BY <1>2, <1>3, <1>6, SmallMultiple
<1> QED BY <1>1, <1>2, <1>6, <1>7

\* Every real slot carries a slot of the window.
LEMMA RingSurjective ==
  ASSUME NEW s \in Int, NEW k \in RingIndex
  PROVE  \E j \in Window(s) : Ring(j) = k
<1> DEFINE a == (k - s) \div NumberOfSlots
           j == s + Ring(k - s)
           b == j \div NumberOfSlots
<1>1. NumberOfSlots \in Nat \ {0} BY GridAssumption
<1>2. k \in Int BY DEF RingIndex
<1>3. a \in Int /\ Ring(k - s) \in RingIndex /\ k - s = NumberOfSlots * a + Ring(k - s)
  BY <1>2, RingDivision
<1>4. j \in Window(s) BY <1>1, <1>3 DEF Window, RingIndex
<1>5. j \in Int BY <1>4, <1>1 DEF Window
<1>6. b \in Int /\ Ring(j) \in RingIndex /\ j = NumberOfSlots * b + Ring(j)
  BY <1>5, RingDivision
<1>7. j = k - NumberOfSlots * a BY <1>1, <1>2, <1>3 DEF RingIndex
<1> HIDE DEF a, b, j
<1>8. k - Ring(j) = NumberOfSlots * (a + b) BY <1>1, <1>2, <1>3, <1>6, <1>7 DEF RingIndex
<1>9. - NumberOfSlots < k - Ring(j) /\ k - Ring(j) < NumberOfSlots
  BY <1>1, <1>6 DEF RingIndex
<1>10. a + b = 0 BY <1>3, <1>6, <1>8, <1>9, SmallMultiple
<1>11. k = Ring(j) BY <1>1, <1>2, <1>6, <1>8, <1>10 DEF RingIndex
<1> QED BY <1>4, <1>11

-----------------------------------------------------------------------------
(* Types *)

\* A slot with another load and other ids.
With(slot, load, ids) == [slot EXCEPT !.load = load, !.ids = ids]

LEMMA SlotWith ==
  ASSUME NEW slot \in SlotType, NEW load \in Int, NEW ids \in SUBSET Reservations
  PROVE  /\ With(slot, load, ids) \in SlotType
         /\ With(slot, load, ids).load = load
         /\ With(slot, load, ids).capacity = slot.capacity
         /\ With(slot, load, ids).ids = ids
<1>1. [slot EXCEPT !.load = load] \in SlotType BY DEF SlotType
<1>2. [[slot EXCEPT !.load = load] EXCEPT !.ids = ids] \in SlotType BY <1>1 DEF SlotType
<1>3. /\ [slot EXCEPT !.load = load].load = load
      /\ [slot EXCEPT !.load = load].capacity = slot.capacity
  BY DEF SlotType
<1> QED BY <1>1, <1>2, <1>3 DEF SlotType, With

\* What a reset, an insertion and a deletion make of a slot.
LEMMA SlotResetType ==
  ASSUME NEW slot \in SlotType
  PROVE  /\ SlotReset(slot) \in SlotType
         /\ SlotReset(slot).load = 0
         /\ SlotReset(slot).capacity = slot.capacity
         /\ SlotReset(slot).ids = {}
<1>1. {} \in SUBSET Reservations OBVIOUS
<1>2. SlotReset(slot) = With(slot, 0, {}) BY DEF SlotReset, With
<1> QED BY <1>1, <1>2, SlotWith

LEMMA SlotInsertType ==
  ASSUME NEW slot \in SlotType, NEW r \in Reservations, NEW q \in ReservationType
  PROVE  LET inserted == SlotInsert(slot, r, q)
         IN  /\ inserted \in SlotType
             /\ inserted.capacity = slot.capacity
             /\ slot.load <= slot.capacity => inserted.load <= slot.capacity
             /\ slot.load + q.capacity <= slot.capacity => inserted.ids = slot.ids \union {r}
<1>1. slot.load + q.capacity \in Int /\ slot.ids \union {r} \in SUBSET Reservations
  BY DEF SlotType, ReservationType
<1>2. CASE slot.load + q.capacity > slot.capacity \/ r \in slot.ids
  <2>1. SlotInsert(slot, r, q) = slot BY <1>2 DEF SlotInsert
  <2>2. slot.load + q.capacity <= slot.capacity => slot.ids = slot.ids \union {r}
    BY <1>2 DEF SlotType, ReservationType
  <2> QED BY <2>1, <2>2
<1>3. CASE ~ (slot.load + q.capacity > slot.capacity \/ r \in slot.ids)
  <2>1. slot.load + q.capacity <= slot.capacity BY <1>3 DEF SlotType, ReservationType
  <2>2. SlotInsert(slot, r, q) = With(slot, slot.load + q.capacity, slot.ids \union {r})
    BY <1>3 DEF SlotInsert, With
  <2> QED BY <1>1, <2>1, <2>2, SlotWith
<1> QED BY <1>2, <1>3

LEMMA SlotDeleteType ==
  ASSUME NEW slot \in SlotType, NEW r \in Reservations, NEW q \in ReservationType
  PROVE  LET deleted == SlotDelete(slot, r, q)
         IN  /\ deleted \in SlotType
             /\ deleted.capacity = slot.capacity
             /\ q.capacity >= 0 => deleted.load <= slot.load
             /\ deleted.ids = slot.ids \ {r}
<1>1. slot.load \in Int /\ q.capacity \in Int /\ slot.load - q.capacity \in Int
      /\ slot.ids \ {r} \in SUBSET Reservations
  BY DEF SlotType, ReservationType
<1>2. CASE r \in slot.ids
  <2>1. q.capacity >= 0 => slot.load - q.capacity <= slot.load BY <1>1
  <2>2. SlotDelete(slot, r, q) = With(slot, slot.load - q.capacity, slot.ids \ {r})
    BY <1>2 DEF SlotDelete, With
  <2> QED BY <1>1, <2>1, <2>2, SlotWith
<1>3. CASE r \notin slot.ids
  <2>1. SlotDelete(slot, r, q) = slot BY <1>3 DEF SlotDelete
  <2>2. slot.ids = slot.ids \ {r} BY <1>3
  <2> QED BY <1>1, <2>1, <2>2
<1> QED BY <1>2, <1>3

\* Sliding the window keeps the types.
LEMMA SlideType ==
  ASSUME TypeOK
  PROVE  /\ NewStart \in Nat
         /\ SlidSlots \in [RingIndex -> SlotType]
         /\ SlidActive \subseteq Reservations
         /\ SlidRes \in [Reservations -> ReservationType]
         /\ SlidRebooked \subseteq SlidActive
<1>1. NewStart \in Nat BY SlotIndexType DEF TypeOK, NewStart
<1>2. SlidSlots \in [RingIndex -> SlotType]
  <2> QED BY SlotResetType DEF TypeOK, SlidSlots
<1>3. SlidActive \subseteq Reservations BY DEF TypeOK, SlidActive
<1>4. SlidRes \in [Reservations -> ReservationType]
  BY DEF TypeOK, SlidRes, ReservationType, ReservationState
<1>5. SlidRebooked \subseteq SlidActive BY DEF TypeOK, SlidRebooked, SlidActive
<1> QED BY <1>1, <1>2, <1>3, <1>4, <1>5

LEMMA BookedType ==
  ASSUME NEW ring \in [RingIndex -> SlotType],
         NEW r \in Reservations, NEW q \in ReservationType
  PROVE  /\ Booked(ring, r, q) \in [RingIndex -> SlotType]
         /\ Released(ring, r, q) \in [RingIndex -> SlotType]
<1>1. Booked(ring, r, q) \in [RingIndex -> SlotType]
  <2> SUFFICES ASSUME NEW k \in RingIndex
               PROVE  /\ SlotInsert(ring[k], r, q) \in SlotType
                      /\ SlotDelete(SlotInsert(ring[k], r, q), r, q) \in SlotType
    BY DEF Booked
  <2> QED BY SlotInsertType, SlotDeleteType
<1>2. Released(ring, r, q) \in [RingIndex -> SlotType]
  <2> SUFFICES ASSUME NEW k \in RingIndex
               PROVE  SlotDelete(ring[k], r, q) \in SlotType
    BY DEF Released
  <2> QED BY SlotDeleteType
<1> QED BY <1>1, <1>2

\* The bounds of a candidate interval are times.
LEMMA CandidateType ==
  ASSUME TypeOK, NEW r \in Reservations, NEW c \in Candidates(SlidSlots, res[r])
  PROVE  c.begin \in Int /\ c.end \in Int
<1> DEFINE q == res[r]
<1>1. q \in ReservationType BY DEF TypeOK
<1>2. NewStart \in Nat BY SlideType
<1>3. \A t \in Int : SlotIndex(t) \in Int BY SlotIndexType
<1>4. BookingStart(q) \in Int /\ BookingEnd(q) \in Int
  BY <1>1, TimeAssumption DEF BookingStart, BookingEnd, ReservationType
<1>5. EarliestSlot(q) \in Int
  BY <1>2, <1>3, <1>4, GridAssumption DEF EarliestSlot, Effective, WindowEnd
<1>6. PICK i \in EarliestSlot(q) .. LatestSlot(q) :
         \E e \in Ends(SlidSlots, q, i) : c = [begin |-> StartIn(q, i), end |-> e]
  BY DEF Candidates
<1>7. i \in Int BY <1>5, <1>6
<1>. PICK e \in Ends(SlidSlots, q, i) : c = [begin |-> StartIn(q, i), end |-> e]
  BY <1>6
<1>8. StartIn(q, i) \in Int BY <1>1, <1>7, GridAssumption DEF StartIn, ReservationType
<1>9. StartIn(q, i) + q.duration \in Int BY <1>1, <1>8 DEF ReservationType
<1>10. WindowTimes(NewStart) \subseteq Int
  BY <1>2, GridAssumption DEF WindowTimes, WindowEnd
<1>11. e \in Int
  <2>1. CASE q.moldable
    <3>1. e \in MoldableEnds(SlidSlots, q, i) BY <2>1, <1>6 DEF Ends
    <3> QED BY <3>1, <1>9, <1>10 DEF MoldableEnds
  <2>2. CASE ~ q.moldable BY <2>2, <1>6, <1>9 DEF Ends
  <2> QED BY <2>1, <2>2
<1> QED BY <1>6, <1>8, <1>11

\* The reservation that a successful reserve leaves in the store.
LEMMA PromotedType ==
  ASSUME TypeOK, NEW r \in Reservations, NEW c, c.begin \in Int, c.end \in Int
  PROVE  Promoted(res[r], c) \in ReservationType
  BY DEF TypeOK, Promoted, ReservationType, ReservationState

LEMMA InitType == Init => TypeOK
<1> SUFFICES ASSUME Init PROVE TypeOK
  OBVIOUS
<1>1. \A request \in Requests : Submitted(request) \in ReservationType
  BY RequestsAssumption DEF Submitted, RequestType, ReservationType, ReservationState
<1>2. start \in Nat BY SlotIndexType, TimeAssumption DEF Init
<1>3. slots \in [RingIndex -> SlotType] BY GridAssumption DEF Init, SlotType
<1>4. res \in [Reservations -> ReservationType] BY <1>1 DEF Init
<1> QED BY <1>2, <1>3, <1>4, TimeAssumption DEF Init, TypeOK

\* What the reservations of a set have reserved is a whole number.
LEMMA CapacityOfType ==
  ASSUME TypeOK, NEW rs \in SUBSET Reservations
  PROVE  CapacityOf(rs) \in Int
<1>1. IsFiniteSet(rs) BY ReservationsAssumption, FS_Subset
<1>2. \A r \in rs : Capacities[r] \in Int BY DEF Capacities, TypeOK, ReservationType
<1> QED BY <1>1, <1>2, SumType DEF CapacityOf

\* A slot from which the reservations rs are taken, and one given a capacity.
Without(slot, rs) == [slot EXCEPT !.load = @ - CapacityOf(rs), !.ids = @ \ rs]

Given(slot, capacity) == [slot EXCEPT !.capacity = capacity]

\* What update_capacity makes of a slot: it gets the new capacity and is then
\* loaded less than that, or it loses all its ids and keeps the old one.
LEMMA ResizedCases ==
  ASSUME NEW slot, NEW capacity, NEW new \in Resized(slot, capacity)
  PROVE  \/ \E rs \in SUBSET slot.ids : /\ new = Given(Without(slot, rs), capacity)
                                        /\ Without(slot, rs).load < capacity
         \/ /\ new = Given(slot, capacity)
            /\ Without(slot, {}).load < capacity
         \/ new = Without(slot, slot.ids)
<1> USE DEF Given, Without
<1> DEFINE fits(rs) == Without(slot, rs).load < capacity
<1>1. CASE fits({}) BY <1>1 DEF Resized
<1>2. CASE ~ fits({}) /\ fits(slot.ids)
  <2>1. PICK rs \in SUBSET slot.ids : fits(rs) /\ new = Given(Without(slot, rs), capacity)
    BY <1>2 DEF Resized
  <2> QED BY <2>1
<1>3. CASE ~ fits({}) /\ ~ fits(slot.ids)
  BY <1>3 DEF Resized
<1> QED BY <1>1, <1>2, <1>3

LEMMA WithoutType ==
  ASSUME TypeOK, NEW slot \in SlotType, NEW rs \in SUBSET slot.ids
  PROVE  /\ Without(slot, rs) \in SlotType
         /\ Without(slot, rs).load = slot.load - CapacityOf(rs)
         /\ Without(slot, rs).capacity = slot.capacity
         /\ Without(slot, rs).ids = slot.ids \ rs
<1>1. slot.load \in Int /\ slot.ids \in SUBSET Reservations BY DEF SlotType
<1>2. CapacityOf(rs) \in Int BY <1>1, CapacityOfType
<1>3. slot.load - CapacityOf(rs) \in Int /\ slot.ids \ rs \in SUBSET Reservations
  BY <1>1, <1>2
<1>4. Without(slot, rs) = With(slot, slot.load - CapacityOf(rs), slot.ids \ rs)
  BY DEF Without, With
<1> QED BY <1>3, <1>4, SlotWith

LEMMA GivenType ==
  ASSUME NEW slot \in SlotType, NEW capacity \in Nat
  PROVE  /\ Given(slot, capacity) \in SlotType
         /\ Given(slot, capacity).load = slot.load
         /\ Given(slot, capacity).capacity = capacity
         /\ Given(slot, capacity).ids = slot.ids
  BY DEF Given, SlotType

LEMMA ResizedType ==
  ASSUME TypeOK, NEW slot \in SlotType, NEW capacity \in Nat,
         NEW new \in Resized(slot, capacity)
  PROVE  new \in SlotType
<1>1. slot.ids \in SUBSET slot.ids OBVIOUS
<1> QED BY <1>1, ResizedCases, WithoutType, GivenType

LEMMA NextType ==
  ASSUME TypeOK, [Next]_vars
  PROVE  TypeOK'
<1> USE DEF Slide
<1> DEFINE slid == /\ NewStart \in Nat
                   /\ SlidSlots \in [RingIndex -> SlotType]
                   /\ SlidActive \subseteq Reservations
                   /\ SlidRes \in [Reservations -> ReservationType]
                   /\ SlidRebooked \subseteq SlidActive
<1>1. slid BY SlideType
<1>2. \A r \in Reservations : res[r] \in ReservationType BY DEF TypeOK
<1>3. CASE Tick BY <1>3, TimeAssumption DEF Tick, TypeOK
<1>4. CASE Update BY <1>4, <1>1 DEF Update, TypeOK
<1>5. CASE Clear
  <2> QED BY <1>5, <1>1, SlotResetType DEF Clear, TypeOK
<1>6. ASSUME NEW r \in Reservations, Probe(r) PROVE TypeOK'
  BY <1>6, <1>1 DEF Probe, TypeOK, ReservationType, ReservationState
<1>7. ASSUME NEW r \in Reservations, ReserveFails(r) PROVE TypeOK'
  BY <1>7, <1>1 DEF ReserveFails, TypeOK, ReservationType, ReservationState
<1>8. ASSUME NEW r \in Reservations, ReserveSucceeds(r) PROVE TypeOK'
  <2>1. PICK c \in Candidates(SlidSlots, res[r]) :
           /\ slots' = Booked(SlidSlots, r, Promoted(res[r], c))
           /\ res' = [SlidRes EXCEPT ![r] = Promoted(res[r], c)]
    BY <1>8 DEF ReserveSucceeds, EarliestOf
  <2>2. Promoted(res[r], c) \in ReservationType BY CandidateType, PromotedType
  <2>3. slots' \in [RingIndex -> SlotType] BY <1>1, <2>1, <2>2, BookedType
  <2>4. res' \in [Reservations -> ReservationType] BY <1>1, <2>1, <2>2
  <2> QED BY <1>8, <1>1, <2>3, <2>4 DEF ReserveSucceeds, TypeOK
<1>9. ASSUME NEW r \in Reservations, DeleteUnknown(r) PROVE TypeOK'
  BY <1>9 DEF DeleteUnknown, TypeOK, ReservationType, ReservationState
<1>10. ASSUME NEW r \in Reservations, DeleteEnded(r) PROVE TypeOK'
  BY <1>10, <1>4 DEF DeleteEnded
<1>11. ASSUME NEW r \in Reservations, DeleteActive(r) PROVE TypeOK'
  <2>1. slots' \in [RingIndex -> SlotType]
    BY <1>11, <1>1, <1>2, BookedType DEF DeleteActive
  <2>2. res' \in [Reservations -> ReservationType]
    BY <1>11, <1>1 DEF DeleteActive, ReservationType, ReservationState
  <2> QED BY <1>11, <1>1, <2>1, <2>2 DEF DeleteActive, TypeOK
<1>12. ASSUME NEW r \in Reservations, Commit(r) \/ Finish(r) \/ Reopen(r) PROVE TypeOK'
  BY <1>12 DEF Commit, Finish, Reopen, TypeOK, ReservationType, ReservationState
<1>13. ASSUME NEW capacity \in CapacityUpdates, UpdateCapacity(capacity) PROVE TypeOK'
  <2>1. capacity \in Nat BY RequestsAssumption
  <2>2. ASSUME NEW k \in RingIndex, NEW new \in Resized(slots[k], capacity)
        PROVE  new \in SlotType
    BY <2>1, <2>2, ResizedType DEF TypeOK
  <2>3. slots' \in [RingIndex -> SlotType]
    <3>1. /\ slots' \in [RingIndex -> UNION {Resized(slots[k], capacity) : k \in RingIndex}]
          /\ \A k \in RingIndex : slots'[k] \in Resized(slots[k], capacity)
      BY <1>13 DEF UpdateCapacity
    <3> QED BY <2>2, <3>1
  <2> QED BY <1>13, <2>3 DEF UpdateCapacity, TypeOK
<1>14. CASE UNCHANGED vars BY <1>14 DEF vars, TypeOK
<1> QED
  BY <1>3, <1>4, <1>5, <1>6, <1>7, <1>8, <1>9, <1>10, <1>11, <1>12, <1>13, <1>14
  DEF Next

\* The schedule is well typed in every state: the window moves and the
\* searches of update and calculate_schedule never leave the ring, the loads
\* that update_capacity leaves are numbers, and every assigned interval is a
\* pair of times.
THEOREM ScheduleTyped == Spec => []TypeOK
<1>1. Init => TypeOK BY InitType
<1>2. TypeOK /\ [Next]_vars => TypeOK' BY NextType
<1> QED BY <1>1, <1>2, PTL DEF Spec

-----------------------------------------------------------------------------
(* The load counter is the sum of what the ids have reserved *)

Balanced(slot) == slot.load = CapacityOf(slot.ids)

LoadInv == TypeOK /\ LoadIsBooked

\* An id that enters or leaves a set brings its capacity or takes it away.
LEMMA CapacityOfSets ==
  ASSUME TypeOK
  PROVE  /\ CapacityOf({}) = 0
         /\ \A rs \in SUBSET Reservations, r \in Reservations :
               /\ r \notin rs => CapacityOf(rs \union {r}) = CapacityOf(rs) + res[r].capacity
               /\ r \in rs => CapacityOf(rs \ {r}) = CapacityOf(rs) - res[r].capacity
         /\ \A rs \in SUBSET Reservations : \A out \in SUBSET rs :
               CapacityOf(rs \ out) = CapacityOf(rs) - CapacityOf(out)
<1>1. \A r \in Reservations : Capacities[r] = res[r].capacity /\ Capacities[r] \in Int
  BY DEF Capacities, TypeOK, ReservationType
<1>2. \A rs \in SUBSET Reservations :
        IsFiniteSet(rs) /\ CapacityOf(rs) \in Int /\ \A r \in rs : Capacities[r] \in Int
  BY <1>1, CapacityOfType, ReservationsAssumption, FS_Subset
<1>3. CapacityOf({}) = 0 BY SumEmpty DEF CapacityOf
<1>4. ASSUME NEW rs \in SUBSET Reservations, NEW r \in Reservations, r \notin rs
      PROVE  CapacityOf(rs \union {r}) = CapacityOf(rs) + res[r].capacity
  <2>1. CapacityOf(rs \union {r}) = Capacities[r] + CapacityOf(rs)
    BY <1>1, <1>2, <1>4, SumAdd DEF CapacityOf
  <2> QED BY <1>1, <1>2, <2>1
<1>5. ASSUME NEW rs \in SUBSET Reservations, NEW r \in rs
      PROVE  CapacityOf(rs \ {r}) = CapacityOf(rs) - res[r].capacity
  <2>1. CapacityOf(rs) = Capacities[r] + CapacityOf(rs \ {r})
    BY <1>2, SumRemove DEF CapacityOf
  <2>2. CapacityOf(rs \ {r}) \in Int BY <1>2
  <2> QED BY <1>1, <1>2, <2>1, <2>2
<1>6. ASSUME NEW rs \in SUBSET Reservations, NEW out \in SUBSET rs
      PROVE  CapacityOf(rs \ out) = CapacityOf(rs) - CapacityOf(out)
  <2>1. CapacityOf(rs) = CapacityOf(out) + CapacityOf(rs \ out)
    BY <1>2, SumSplit DEF CapacityOf
  <2>2. CapacityOf(rs \ out) \in Int /\ CapacityOf(out) \in Int BY <1>2
  <2> QED BY <1>2, <2>1, <2>2
<1> QED BY <1>3, <1>4, <1>5, <1>6

\* What a reset, an insertion, a deletion and a new capacity make of a
\* balanced slot is balanced.
LEMMA SlotOperationsBalance ==
  ASSUME TypeOK, NEW slot \in SlotType, Balanced(slot)
  PROVE  /\ Balanced(SlotReset(slot))
         /\ \A r \in Reservations, q \in ReservationType :
               q.capacity = res[r].capacity =>
                 Balanced(SlotInsert(slot, r, q)) /\ Balanced(SlotDelete(slot, r, q))
         /\ \A capacity \in Nat : \A new \in Resized(slot, capacity) : Balanced(new)
<1>1. /\ slot.load \in Int /\ slot.ids \in SUBSET Reservations
      /\ CapacityOf(slot.ids) \in Int /\ slot.load = CapacityOf(slot.ids)
  BY CapacityOfType DEF SlotType, Balanced
<1>2. Balanced(SlotReset(slot)) BY SlotResetType, CapacityOfSets DEF Balanced
<1>3. ASSUME NEW r \in Reservations, NEW q \in ReservationType, q.capacity = res[r].capacity
      PROVE  Balanced(SlotInsert(slot, r, q))
  <2>1. CASE slot.load + q.capacity > slot.capacity \/ r \in slot.ids
    BY <2>1 DEF SlotInsert
  <2>2. CASE ~ (slot.load + q.capacity > slot.capacity \/ r \in slot.ids)
    <3> DEFINE new == With(slot, slot.load + q.capacity, slot.ids \union {r})
    <3>1. SlotInsert(slot, r, q) = new BY <2>2 DEF SlotInsert, With
    <3>2. slot.load + q.capacity \in Int /\ slot.ids \union {r} \in SUBSET Reservations
      BY <1>1 DEF ReservationType
    <3>3. new.load = slot.load + q.capacity /\ new.ids = slot.ids \union {r}
      BY <3>2, SlotWith
    <3>4. CapacityOf(slot.ids \union {r}) = CapacityOf(slot.ids) + res[r].capacity
      BY <1>1, <2>2, CapacityOfSets
    <3> HIDE DEF new
    <3> QED BY <1>1, <1>3, <3>1, <3>3, <3>4 DEF Balanced
  <2> QED BY <2>1, <2>2
<1>4. ASSUME NEW r \in Reservations, NEW q \in ReservationType, q.capacity = res[r].capacity
      PROVE  Balanced(SlotDelete(slot, r, q))
  <2>1. CASE r \notin slot.ids
    BY <2>1 DEF SlotDelete
  <2>2. CASE r \in slot.ids
    <3> DEFINE new == With(slot, slot.load - q.capacity, slot.ids \ {r})
    <3>1. SlotDelete(slot, r, q) = new BY <2>2 DEF SlotDelete, With
    <3>2. slot.load - q.capacity \in Int /\ slot.ids \ {r} \in SUBSET Reservations
      BY <1>1 DEF ReservationType
    <3>3. new.load = slot.load - q.capacity /\ new.ids = slot.ids \ {r}
      BY <3>2, SlotWith
    <3>4. CapacityOf(slot.ids \ {r}) = CapacityOf(slot.ids) - res[r].capacity
      BY <1>1, <2>2, CapacityOfSets
    <3> HIDE DEF new
    <3> QED BY <1>1, <1>4, <3>1, <3>3, <3>4 DEF Balanced
  <2> QED BY <2>1, <2>2
<1>5. ASSUME NEW capacity \in Nat, NEW new \in Resized(slot, capacity)
      PROVE  Balanced(new)
  <2>1. ASSUME NEW rs \in SUBSET slot.ids
        PROVE  Balanced(Without(slot, rs)) /\ Balanced(Given(Without(slot, rs), capacity))
    <3>1. CapacityOf(slot.ids \ rs) = CapacityOf(slot.ids) - CapacityOf(rs)
      BY <1>1, CapacityOfSets
    <3>2. Balanced(Without(slot, rs)) BY <1>1, <3>1, WithoutType DEF Balanced
    <3> QED BY <3>2, WithoutType, GivenType DEF Balanced
  <2>2. Balanced(Given(slot, capacity)) BY GivenType DEF Balanced
  <2>3. slot.ids \in SUBSET slot.ids OBVIOUS
  <2> QED BY <2>1, <2>2, <2>3, ResizedCases
<1> QED BY <1>2, <1>3, <1>4, <1>5

\* Nothing the schedule does changes the capacity in a reservation's entry.
LEMMA CapacitiesKept ==
  ASSUME TypeOK, [Next]_vars
  PROVE  \A r \in Reservations : res'[r].capacity = res[r].capacity
<1> DEFINE kept == \A r \in Reservations : res'[r].capacity = res[r].capacity
<1>1. \A r \in Reservations : res[r] \in ReservationType BY DEF TypeOK
<1>2. /\ SlidRes \in [Reservations -> ReservationType]
      /\ \A r \in Reservations : SlidRes[r].capacity = res[r].capacity
  BY <1>1, SlideType DEF SlidRes, ReservationType
<1>3. CASE UNCHANGED res BY <1>3
<1>4. CASE Update BY <1>2, <1>4 DEF Update
<1>5. ASSUME NEW r \in Reservations, Probe(r) \/ ReserveFails(r) \/ DeleteActive(r) PROVE kept
  BY <1>2, <1>5 DEF Probe, ReserveFails, DeleteActive, ReservationType
<1>6. ASSUME NEW r \in Reservations, ReserveSucceeds(r) PROVE kept
  <2>1. PICK c : res' = [SlidRes EXCEPT ![r] = Promoted(res[r], c)]
    BY <1>6 DEF ReserveSucceeds
  <2>2. Promoted(res[r], c).capacity = res[r].capacity
    BY <1>1 DEF Promoted, ReservationType
  <2> QED BY <1>2, <2>1, <2>2
<1>7. ASSUME NEW r \in Reservations,
             DeleteUnknown(r) \/ Commit(r) \/ Finish(r) \/ Reopen(r) PROVE kept
  BY <1>1, <1>7 DEF DeleteUnknown, Commit, Finish, Reopen, TypeOK, ReservationType
<1>8. CASE UNCHANGED vars BY <1>8, <1>3 DEF vars
<1>9. ASSUME NEW r \in Reservations, DeleteEnded(r) PROVE kept
  BY <1>4, <1>9 DEF DeleteEnded
<1>10. CASE Tick \/ Clear \/ \E capacity \in CapacityUpdates : UpdateCapacity(capacity)
  BY <1>3, <1>10 DEF Tick, Clear, UpdateCapacity
<1> QED BY <1>4, <1>5, <1>6, <1>7, <1>8, <1>9, <1>10 DEF Next

LEMMA LoadNext ==
  ASSUME LoadInv, [Next]_vars
  PROVE  LoadInv'
<1> USE DEF LoadInv
<1> DEFINE balanced == \A k \in RingIndex : Balanced(slots'[k])
<1>1. TypeOK' BY NextType
<1>2. Capacities' = Capacities BY CapacitiesKept DEF Capacities
<1>3. \A k \in RingIndex : slots[k] \in SlotType /\ Balanced(slots[k])
  BY DEF TypeOK, LoadIsBooked, Balanced
<1>4. \A r \in Reservations : res[r] \in ReservationType BY DEF TypeOK
<1>5. \A k \in RingIndex : SlidSlots[k] \in SlotType /\ Balanced(SlidSlots[k])
  BY <1>3, SlideType, SlotOperationsBalance DEF SlidSlots
<1>6. ASSUME UNCHANGED slots PROVE balanced BY <1>3, <1>6
<1>7. ASSUME slots' = SlidSlots PROVE balanced BY <1>5, <1>7
<1>8. ASSUME Clear PROVE balanced
  BY <1>3, <1>8, SlotOperationsBalance DEF Clear
<1>9. ASSUME NEW r \in Reservations, ReserveSucceeds(r) PROVE balanced
  <2>1. PICK c \in Candidates(SlidSlots, res[r]) : slots' = Booked(SlidSlots, r, Promoted(res[r], c))
    BY <1>9 DEF ReserveSucceeds, EarliestOf
  <2> DEFINE q == Promoted(res[r], c)
  <2>2. q \in ReservationType BY CandidateType, PromotedType
  <2>3. q.capacity = res[r].capacity BY <1>4 DEF Promoted, ReservationType
  <2> HIDE DEF q
  <2>4. ASSUME NEW k \in RingIndex
        PROVE  /\ Balanced(SlotInsert(SlidSlots[k], r, q))
               /\ Balanced(SlotDelete(SlotInsert(SlidSlots[k], r, q), r, q))
    <3>1. SlotInsert(SlidSlots[k], r, q) \in SlotType BY <1>5, <2>2, SlotInsertType
    <3>2. Balanced(SlotInsert(SlidSlots[k], r, q))
      BY <1>5, <2>2, <2>3, SlotOperationsBalance
    <3> QED BY <2>2, <2>3, <3>1, <3>2, SlotOperationsBalance
  <2>5. slots' = Booked(SlidSlots, r, q) BY <2>1 DEF q
  <2> QED BY <1>5, <2>4, <2>5 DEF Booked
<1>10. ASSUME NEW r \in Reservations, DeleteActive(r) PROVE balanced
  <2>1. \A k \in RingIndex : Balanced(SlotDelete(SlidSlots[k], r, res[r]))
    BY <1>4, <1>5, SlotOperationsBalance
  <2> QED BY <1>5, <1>10, <2>1 DEF DeleteActive, Released
<1>11. ASSUME NEW capacity \in CapacityUpdates, UpdateCapacity(capacity) PROVE balanced
  <2>1. capacity \in Nat BY RequestsAssumption
  <2>2. \A k \in RingIndex : slots'[k] \in Resized(slots[k], capacity)
    BY <1>11 DEF UpdateCapacity
  <2> QED BY <1>3, <2>1, <2>2, SlotOperationsBalance
<1> HIDE DEF balanced
<1>12. balanced
  <2>1. CASE Tick \/ UNCHANGED vars BY <1>6, <2>1 DEF Tick, vars
  <2>2. CASE Update BY <1>7, <2>2 DEF Update
  <2>3. ASSUME NEW r \in Reservations, Probe(r) \/ ReserveFails(r) \/ DeleteEnded(r) PROVE balanced
    BY <1>7, <2>3 DEF Probe, ReserveFails, DeleteEnded, Update
  <2>4. ASSUME NEW r \in Reservations,
               DeleteUnknown(r) \/ Commit(r) \/ Finish(r) \/ Reopen(r) PROVE balanced
    BY <1>6, <2>4 DEF DeleteUnknown, Commit, Finish, Reopen
  <2> QED BY <1>8, <1>9, <1>10, <1>11, <2>1, <2>2, <2>3, <2>4 DEF Next
<1>13. LoadIsBooked'
  <2>1. \A rs : CapacityOf(rs)' = CapacityOf(rs) BY <1>2 DEF CapacityOf
  <2> QED BY <1>12, <2>1 DEF LoadIsBooked, Balanced, balanced
<1> QED BY <1>1, <1>13

\* The load counter of every slot is what its ids have reserved, whatever the
\* requests ask for and whatever capacities a Slurm sync reports: insertions,
\* deletions, resets and the pruning of update_capacity keep the two in step.
THEOREM NothingLeaks == Spec => []LoadIsBooked
<1>1. Init => LoadInv
  <2> SUFFICES ASSUME Init PROVE LoadInv
    OBVIOUS
  <2>1. TypeOK BY InitType
  <2> QED BY <2>1, CapacityOfSets DEF Init, LoadInv, LoadIsBooked
<1>2. LoadInv /\ [Next]_vars => LoadInv' BY LoadNext
<1>3. LoadInv => LoadIsBooked BY DEF LoadInv
<1> QED BY <1>1, <1>2, <1>3, PTL DEF Spec

-----------------------------------------------------------------------------
(* No slot is overbooked *)

\* Every request asks for a capacity that is not negative.
NonNegative == \A request \in Requests : request.capacity >= 0

\* The store keeps the capacity a request was submitted with.
NonNegativeStore == \A r \in Reservations : res[r].capacity >= 0

FitsInv == LoadInv /\ NoOverbooking /\ NonNegativeStore

\* Sliding the window overbooks nothing and keeps every capacity.
LEMMA SlideFits ==
  ASSUME TypeOK, NoOverbooking
  PROVE  /\ \A k \in RingIndex : SlidSlots[k].load <= SlidSlots[k].capacity
         /\ \A r \in Reservations : SlidRes[r].capacity = res[r].capacity
<1>1. ASSUME NEW k \in RingIndex
      PROVE  SlidSlots[k].load <= SlidSlots[k].capacity
  <2>1. slots[k] \in SlotType BY DEF TypeOK
  <2>2. SlotReset(slots[k]).load <= SlotReset(slots[k]).capacity
    BY <2>1, SlotResetType DEF SlotType
  <2> QED BY <2>2 DEF SlidSlots, NoOverbooking
<1>2. ASSUME NEW r \in Reservations
      PROVE  SlidRes[r].capacity = res[r].capacity
  BY DEF SlidRes, TypeOK, ReservationType
<1> QED BY <1>1, <1>2

LEMMA BookedFits ==
  ASSUME NEW ring \in [RingIndex -> SlotType], NEW r \in Reservations,
         NEW q \in ReservationType, q.capacity >= 0,
         \A k \in RingIndex : ring[k].load <= ring[k].capacity
  PROVE  /\ \A k \in RingIndex : Booked(ring, r, q)[k].load <= Booked(ring, r, q)[k].capacity
         /\ \A k \in RingIndex : Released(ring, r, q)[k].load <= Released(ring, r, q)[k].capacity
<1> SUFFICES ASSUME NEW k \in RingIndex
             PROVE  /\ Booked(ring, r, q)[k].load <= Booked(ring, r, q)[k].capacity
                    /\ Released(ring, r, q)[k].load <= Released(ring, r, q)[k].capacity
  OBVIOUS
<1> DEFINE inserted == SlotInsert(ring[k], r, q)
<1>1. ring[k] \in SlotType /\ ring[k].load \in Int /\ ring[k].capacity \in Int
  BY DEF SlotType
<1>2. /\ inserted \in SlotType /\ inserted.load \in Int /\ inserted.capacity \in Int
      /\ inserted.load <= inserted.capacity
  BY <1>1, SlotInsertType DEF SlotType
<1>3. /\ SlotDelete(ring[k], r, q) \in SlotType
      /\ SlotDelete(ring[k], r, q).load <= ring[k].load
      /\ SlotDelete(ring[k], r, q).capacity = ring[k].capacity
  BY <1>1, SlotDeleteType
<1>4. /\ SlotDelete(inserted, r, q) \in SlotType
      /\ SlotDelete(inserted, r, q).load <= inserted.load
      /\ SlotDelete(inserted, r, q).capacity = inserted.capacity
  BY <1>2, SlotDeleteType
<1>5. /\ SlotDelete(ring[k], r, q).load <= SlotDelete(ring[k], r, q).capacity
      /\ SlotDelete(inserted, r, q).load <= SlotDelete(inserted, r, q).capacity
  BY <1>1, <1>2, <1>3, <1>4 DEF SlotType
<1> HIDE DEF inserted
<1>6. Booked(ring, r, q)[k].load <= Booked(ring, r, q)[k].capacity
  BY <1>2, <1>5 DEF Booked, inserted
<1>7. Released(ring, r, q)[k].load <= Released(ring, r, q)[k].capacity
  BY <1>5 DEF Released
<1> QED BY <1>6, <1>7

\* update_capacity leaves no slot loaded beyond its capacity: either the load
\* is below the new capacity, or every id is gone and the load is zero.
LEMMA ResizedFits ==
  ASSUME TypeOK, NEW slot \in SlotType, Balanced(slot), NEW capacity \in Nat,
         NEW new \in Resized(slot, capacity)
  PROVE  new.load <= new.capacity
<1>1. /\ slot.load \in Int /\ slot.capacity \in Nat /\ slot.ids \in SUBSET Reservations
      /\ CapacityOf(slot.ids) \in Int /\ slot.load = CapacityOf(slot.ids)
  BY CapacityOfType DEF SlotType, Balanced
<1>2. ASSUME NEW rs \in SUBSET slot.ids, new = Given(Without(slot, rs), capacity),
             Without(slot, rs).load < capacity
      PROVE  new.load <= new.capacity
  <2>1. Without(slot, rs) \in SlotType /\ Without(slot, rs).load \in Int
    BY WithoutType DEF SlotType
  <2> QED BY <1>2, <2>1, GivenType
<1>3. ASSUME new = Given(slot, capacity), Without(slot, {}).load < capacity
      PROVE  new.load <= new.capacity
  <2>1. Without(slot, {}).load = slot.load
    <3>1. Without(slot, {}).load = slot.load - CapacityOf({}) BY WithoutType
    <3> QED BY <1>1, <3>1, CapacityOfSets
  <2> QED BY <1>1, <1>3, <2>1, GivenType
<1>4. ASSUME new = Without(slot, slot.ids)
      PROVE  new.load <= new.capacity
  <2>1. slot.ids \in SUBSET slot.ids OBVIOUS
  <2>2. new.load = 0 /\ new.capacity = slot.capacity
    BY <1>1, <1>4, <2>1, WithoutType
  <2> QED BY <1>1, <2>2
<1> QED BY <1>2, <1>3, <1>4, ResizedCases

LEMMA FitsNext ==
  ASSUME FitsInv, [Next]_vars
  PROVE  FitsInv'
<1> USE DEF FitsInv, LoadInv
<1> DEFINE fits == /\ \A k \in RingIndex : slots'[k].load <= slots'[k].capacity
                   /\ \A r \in Reservations : res'[r].capacity >= 0
<1>1. LoadInv' BY LoadNext
<1>2. /\ SlidSlots \in [RingIndex -> SlotType]
      /\ SlidRes \in [Reservations -> ReservationType]
  BY SlideType
<1>3. /\ \A k \in RingIndex : SlidSlots[k].load <= SlidSlots[k].capacity
      /\ \A r \in Reservations : SlidRes[r].capacity >= 0
  BY SlideFits DEF NonNegativeStore
<1>4. /\ \A k \in RingIndex : slots[k].load <= slots[k].capacity
      /\ \A r \in Reservations : res[r].capacity >= 0
      /\ \A r \in Reservations : res[r] \in ReservationType
  BY DEF NoOverbooking, NonNegativeStore, TypeOK
<1>5. ASSUME Tick PROVE fits BY <1>5, <1>4 DEF Tick
<1>6. ASSUME Update PROVE fits BY <1>6, <1>3 DEF Update
<1>7. ASSUME Clear PROVE fits
  <2>1. \A k \in RingIndex : slots'[k].load <= slots'[k].capacity
    <3> SUFFICES ASSUME NEW k \in RingIndex
                 PROVE  SlotReset(slots[k]).load <= SlotReset(slots[k]).capacity
      BY <1>7 DEF Clear
    <3>1. slots[k] \in SlotType BY DEF TypeOK
    <3> QED BY <3>1, SlotResetType DEF SlotType
  <2> QED BY <1>7, <2>1, <1>4 DEF Clear
<1>8. ASSUME NEW r \in Reservations, Probe(r) \/ ReserveFails(r) PROVE fits
  BY <1>8, <1>2, <1>3 DEF Probe, ReserveFails, ReservationType
<1>9. ASSUME NEW r \in Reservations, ReserveSucceeds(r) PROVE fits
  <2>1. PICK c \in Candidates(SlidSlots, res[r]) :
           /\ slots' = Booked(SlidSlots, r, Promoted(res[r], c))
           /\ res' = [SlidRes EXCEPT ![r] = Promoted(res[r], c)]
    BY <1>9 DEF ReserveSucceeds, EarliestOf
  <2>2. Promoted(res[r], c) \in ReservationType BY CandidateType, PromotedType
  <2>3. Promoted(res[r], c).capacity >= 0 BY <1>4 DEF Promoted, ReservationType
  <2>4. \A k \in RingIndex : slots'[k].load <= slots'[k].capacity
    BY <1>2, <1>3, <2>1, <2>2, <2>3, BookedFits
  <2> QED BY <1>2, <1>3, <2>1, <2>3, <2>4
<1>10. ASSUME NEW r \in Reservations, DeleteUnknown(r) PROVE fits
  BY <1>10, <1>4 DEF DeleteUnknown, TypeOK, ReservationType
<1>11. ASSUME NEW r \in Reservations, DeleteEnded(r) PROVE fits
  BY <1>11, <1>3 DEF DeleteEnded, Update
<1>12. ASSUME NEW r \in Reservations, DeleteActive(r) PROVE fits
  <2>1. \A k \in RingIndex : slots'[k].load <= slots'[k].capacity
    BY <1>12, <1>2, <1>3, <1>4, BookedFits DEF DeleteActive
  <2> QED BY <1>12, <1>2, <1>3, <2>1 DEF DeleteActive, ReservationType
<1>13. ASSUME NEW r \in Reservations, Commit(r) \/ Finish(r) \/ Reopen(r) PROVE fits
  BY <1>13, <1>4 DEF Commit, Finish, Reopen, TypeOK, ReservationType
<1>14. ASSUME NEW capacity \in CapacityUpdates, UpdateCapacity(capacity) PROVE fits
  <2>1. capacity \in Nat BY RequestsAssumption
  <2>2. \A k \in RingIndex : slots'[k] \in Resized(slots[k], capacity)
    BY <1>14 DEF UpdateCapacity
  <2>3. \A k \in RingIndex : slots[k] \in SlotType /\ Balanced(slots[k])
    BY DEF TypeOK, LoadIsBooked, Balanced
  <2>4. \A k \in RingIndex : slots'[k].load <= slots'[k].capacity
    BY <2>1, <2>2, <2>3, ResizedFits
  <2> QED BY <1>4, <1>14, <2>4 DEF UpdateCapacity
<1>15. ASSUME UNCHANGED vars PROVE fits BY <1>15, <1>4 DEF vars
<1> HIDE DEF fits
<1>16. fits
  BY <1>5, <1>6, <1>7, <1>8, <1>9, <1>10, <1>11, <1>12, <1>13, <1>14, <1>15
  DEF Next
<1> QED BY <1>1, <1>16 DEF fits, NoOverbooking, NonNegativeStore

\* No sequence of reserves, deletes, window moves and capacity changes loads a
\* slot beyond its capacity, for rigid and moldable requests, provided no
\* request asks for a negative capacity (Slot::insert_reservation,
\* Slot::delete_reservation, update_capacity).
THEOREM NeverOverbooked ==
  ASSUME NonNegative
  PROVE  Spec => []NoOverbooking
<1>1. Init => FitsInv
  <2> SUFFICES ASSUME Init PROVE FitsInv
    OBVIOUS
  <2>1. TypeOK BY InitType
  <2>2. NoOverbooking BY GridAssumption DEF Init, NoOverbooking
  <2>3. NonNegativeStore BY DEF Init, NonNegative, NonNegativeStore, Submitted
  <2>4. LoadIsBooked BY <2>1, CapacityOfSets DEF Init, LoadIsBooked
  <2> QED BY <2>1, <2>2, <2>3, <2>4 DEF FitsInv, LoadInv
<1>2. FitsInv /\ [Next]_vars => FitsInv' BY FitsNext
<1>3. FitsInv => NoOverbooking BY DEF FitsInv
<1> QED BY <1>1, <1>2, <1>3, PTL DEF Spec

-----------------------------------------------------------------------------
(* The ring holds exactly the bookings of the window *)

\* Every request is rigid and asks for something.
Rigid ==
  \A request \in Requests :
    ~ request.moldable /\ request.duration >= 1 /\ request.capacity >= 1

RigidStore ==
  \A r \in Reservations : ~ res[r].moldable /\ res[r].duration >= 1 /\ res[r].capacity >= 1

\* The window is never ahead of the clock.
WindowBehind == start <= NewStart

\* The bookings of the calendar: what was reserved only once, before and
\* after the window has slid.
Kept == active \ rebooked

SlidKept == SlidActive \ SlidRebooked

\* A booked reservation asks for the interval it was given and for no other.
Pinned ==
  \A r \in Kept : /\ res[r].bookingStart = res[r].assignedStart
                  /\ res[r].bookingEnd = res[r].assignedEnd
                  /\ res[r].assignedEnd = res[r].assignedStart + res[r].duration
                  /\ res[r].assignedStart \in Nat

\* A booking ends in the window it was made in, or in a later one.
InsideWindow ==
  \A r \in Kept : /\ FirstSlot(res[r]) <= LastSlot(res[r])
                  /\ LastSlot(res[r]) <= WindowEnd(start)

CalendarInv ==
  /\ TypeOK
  /\ RigidStore
  /\ WindowBehind
  /\ Pinned
  /\ InsideWindow
  /\ BookedExactly
  /\ ExpiredAreDeleted

\* The slots of a booking are times of the window.
LEMMA SpanTypes ==
  ASSUME TypeOK
  PROVE  /\ start \in Int /\ WindowEnd(start) \in Int
         /\ NewStart \in Nat /\ WindowEnd(NewStart) \in Int
         /\ \A r \in Reservations : FirstSlot(res[r]) \in Nat /\ LastSlot(res[r]) \in Nat
         /\ \A r \in SlidActive : SlidRes[r] = res[r]
         /\ SlidKept = Kept \ Expired /\ SlidKept \subseteq SlidActive
<1>1. NewStart \in Nat BY SlideType
<1>2. ASSUME NEW r \in Reservations
      PROVE  FirstSlot(res[r]) \in Nat /\ LastSlot(res[r]) \in Nat
  <2>1. res[r].assignedStart \in Int /\ res[r].assignedEnd - 1 \in Int
    BY DEF TypeOK, ReservationType
  <2> QED BY <2>1, SlotIndexType DEF FirstSlot, LastSlot
<1>3. \A r \in SlidActive : SlidRes[r] = res[r] BY DEF SlidActive, SlidRes, TypeOK
<1>4. SlidKept = Kept \ Expired /\ SlidKept \subseteq SlidActive
  BY DEF SlidKept, Kept, SlidActive, SlidRebooked
<1> QED BY <1>1, <1>2, <1>3, <1>4, GridAssumption DEF TypeOK, WindowEnd

\* The window slides without losing or keeping a booking: what stays was in
\* both windows, what is new was carried by a real slot that has been reset.
LEMMA SlideKeepsBookings ==
  ASSUME CalendarInv
  PROVE  /\ \A i \in Window(NewStart) :
               SlidSlots[Ring(i)].ids = {r \in SlidKept : i \in Span(NewStart, res[r])}
         /\ \A r \in SlidKept : LastSlot(res[r]) >= NewStart
         /\ \A r \in SlidKept : /\ FirstSlot(res[r]) <= LastSlot(res[r])
                                /\ LastSlot(res[r]) <= WindowEnd(NewStart)
<1> USE DEF CalendarInv
<1>1. /\ start \in Int /\ WindowEnd(start) \in Int
      /\ NewStart \in Int /\ WindowEnd(NewStart) \in Int /\ start <= NewStart
      /\ \A r \in active : FirstSlot(res[r]) \in Int /\ LastSlot(res[r]) \in Int
      /\ SlidKept = Kept \ Expired /\ Kept \subseteq active
  BY SpanTypes DEF WindowBehind, TypeOK, Kept
<1>2. NumberOfSlots \in Nat \ {0} BY GridAssumption
<1>3. ASSUME NEW r \in SlidKept PROVE LastSlot(res[r]) >= NewStart
  <2>1. r \in Kept /\ r \in active /\ r \notin Expired BY <1>1
  <2>2. SUFFICES ASSUME LastSlot(res[r]) < NewStart PROVE FALSE
    BY <1>1, <2>1
  <2> DEFINE l == LastSlot(res[r])
  <2>3. l >= start /\ FirstSlot(res[r]) <= l /\ l <= WindowEnd(start)
    BY <2>1 DEF ExpiredAreDeleted, InsideWindow, Kept
  <2>4. l \in Window(start) /\ l \in LeavingSlots
    BY <1>1, <1>2, <2>1, <2>2, <2>3 DEF Window, WindowEnd, LeavingSlots
  <2>5. r \in slots[Ring(l)].ids
    BY <2>1, <2>3, <2>4, <1>1 DEF BookedExactly, Kept, Span
  <2> QED BY <2>1, <2>4, <2>5 DEF Expired
<1>4. ASSUME NEW i \in Window(NewStart)
      PROVE  SlidSlots[Ring(i)].ids = {r \in SlidKept : i \in Span(NewStart, res[r])}
  <2>1. i \in Int /\ i >= NewStart /\ i <= WindowEnd(NewStart)
    BY <1>1, <1>2, <1>4 DEF Window, WindowEnd
  <2>2. Ring(i) \in RingIndex BY <2>1, RingDivision
  <2>3. CASE i \in Window(start)
    <3>1. ~ \E l \in LeavingSlots : Ring(l) = Ring(i)
      <4> SUFFICES ASSUME NEW l \in LeavingSlots, Ring(l) = Ring(i) PROVE FALSE
        OBVIOUS
      <4>1. l \in Window(start) /\ l < NewStart BY DEF LeavingSlots
      <4>2. l = i BY <1>1, <2>3, <4>1, RingInjective
      <4> QED BY <1>1, <2>1, <4>1, <4>2
    <3>2. SlidSlots[Ring(i)] = slots[Ring(i)] BY <2>2, <3>1 DEF SlidSlots
    <3>3. slots[Ring(i)].ids = {r \in Kept : i \in Span(start, res[r])}
      BY <2>3 DEF BookedExactly, Kept
    <3>4. ASSUME NEW r \in Kept, i \in Span(start, res[r])
          PROVE  r \in SlidKept /\ i \in Span(NewStart, res[r])
      <4>1. LastSlot(res[r]) >= i BY <3>4 DEF Span
      <4>2. r \notin Expired
        <5> SUFFICES ASSUME NEW l \in LeavingSlots, LastSlot(res[r]) = l PROVE FALSE
          BY DEF Expired
        <5>1. l < NewStart BY DEF LeavingSlots
        <5> QED BY <1>1, <2>1, <4>1, <5>1
      <4> QED BY <1>1, <3>4, <4>2, <1>4 DEF Span
    <3>5. ASSUME NEW r \in SlidKept, i \in Span(NewStart, res[r])
          PROVE  r \in Kept /\ i \in Span(start, res[r])
      BY <1>1, <3>5, <2>3 DEF Span
    <3> QED BY <3>2, <3>3, <3>4, <3>5
  <2>4. CASE i \notin Window(start)
    <3>1. i > WindowEnd(start) BY <1>1, <1>2, <2>1, <2>4 DEF Window, WindowEnd
    <3>2. PICK j \in Window(start) : Ring(j) = Ring(i) BY <1>1, <2>2, RingSurjective
    <3>3. j \in Int /\ j >= start /\ j <= WindowEnd(start)
      BY <1>1, <1>2, <3>2 DEF Window, WindowEnd
    <3>4. j < NewStart
      <4> SUFFICES ASSUME j >= NewStart PROVE FALSE
        BY <1>1, <3>3
      <4>1. j \in Window(NewStart)
        BY <1>1, <1>2, <3>3 DEF Window, WindowEnd
      <4>2. j = i BY <1>1, <1>4, <3>2, <4>1, RingInjective
      <4> QED BY <1>1, <2>1, <3>1, <3>3, <4>2
    <3>5. j \in LeavingSlots BY <3>2, <3>4 DEF LeavingSlots
    <3>6. SlidSlots[Ring(i)] = SlotReset(slots[Ring(i)])
      BY <2>2, <3>2, <3>5 DEF SlidSlots
    <3>7. SlidSlots[Ring(i)].ids = {} BY <2>2, <3>6, SlotResetType DEF TypeOK
    <3>8. ASSUME NEW r \in SlidKept PROVE i \notin Span(NewStart, res[r])
      <4>1. r \in active /\ LastSlot(res[r]) <= WindowEnd(start)
        BY <1>1 DEF InsideWindow
      <4> QED BY <1>1, <2>1, <3>1, <4>1 DEF Span
    <3> QED BY <3>7, <3>8
  <2> QED BY <2>3, <2>4
<1>5. ASSUME NEW r \in SlidKept
      PROVE  FirstSlot(res[r]) <= LastSlot(res[r]) /\ LastSlot(res[r]) <= WindowEnd(NewStart)
  <2>1. r \in Kept /\ r \in active BY <1>1
  <2>2. FirstSlot(res[r]) <= LastSlot(res[r]) /\ LastSlot(res[r]) <= WindowEnd(start)
    BY <2>1 DEF InsideWindow
  <2>3. WindowEnd(start) <= WindowEnd(NewStart) BY <1>1, <1>2 DEF WindowEnd
  <2> QED BY <1>1, <2>1, <2>2, <2>3
<1> QED BY <1>3, <1>4, <1>5

\* What the search promises of a rigid reservation: its slots are in the
\* window and each of them has room for it.
LEMMA RigidCandidateFits ==
  ASSUME TypeOK, RigidStore, NEW r \in Reservations, NEW c \in Candidates(SlidSlots, res[r])
  PROVE  LET q == Promoted(res[r], c)
         IN  /\ NewStart <= FirstSlot(q)
             /\ FirstSlot(q) <= LastSlot(q)
             /\ LastSlot(q) <= WindowEnd(NewStart)
             /\ \A j \in Span(NewStart, q) :
                   SlidSlots[Ring(j)].load + q.capacity <= SlidSlots[Ring(j)].capacity
             /\ q.bookingStart = q.assignedStart /\ q.bookingEnd = q.assignedEnd
             /\ q.assignedEnd = q.assignedStart + q.duration /\ q.assignedStart \in Nat
<1> DEFINE p == res[r]
           q == Promoted(p, c)
<1>1. /\ p \in ReservationType /\ p.duration \in Int /\ p.capacity \in Int
      /\ p.duration >= 1 /\ p.capacity >= 1 /\ ~ p.moldable
  BY DEF TypeOK, RigidStore, ReservationType
<1>2. NumberOfSlots \in Nat \ {0} /\ SlotWidth \in Nat \ {0} BY GridAssumption
<1>3. NewStart \in Nat /\ WindowEnd(NewStart) \in Nat /\ NewStart <= WindowEnd(NewStart)
  <2>1. NewStart \in Nat BY SlideType
  <2> QED BY <2>1, <1>2 DEF WindowEnd
<1>4. PICK i \in EarliestSlot(p) .. LatestSlot(p) :
         \E e \in Ends(SlidSlots, p, i) : c = [begin |-> StartIn(p, i), end |-> e]
  BY DEF Candidates
<1> DEFINE b == StartIn(p, i)
           l == SlotIndex(b + p.duration - 1)
<1>5. i \in Nat /\ i >= NewStart
  <2>1. BookingStart(p) \in Int /\ BookingEnd(p) \in Int
    BY <1>1, TimeAssumption DEF BookingStart, BookingEnd, ReservationType
  <2>2. SlotIndex(BookingStart(p)) \in Int /\ SlotIndex(BookingEnd(p) - p.duration) \in Int
    BY <2>1, <1>1, SlotIndexType
  <2>3. EarliestSlot(p) \in Int /\ EarliestSlot(p) >= NewStart
    BY <2>2, <1>3 DEF EarliestSlot, Effective
  <2>4. LatestSlot(p) \in Int BY <2>2, <1>3 DEF LatestSlot, Effective
  <2> QED BY <1>3, <1>4, <2>3, <2>4
<1>6. /\ RigidFits(SlidSlots, p, i)
      /\ c.begin = b /\ c.end = b + p.duration
  BY <1>1, <1>4 DEF Ends
<1>7. b \in Nat /\ i * SlotWidth <= b
  <2>1. i * SlotWidth \in Nat BY <1>2, <1>5
  <2> QED BY <1>1, <2>1 DEF StartIn, ReservationType
<1>8. /\ q.assignedStart = b /\ q.assignedEnd = b + p.duration /\ q.capacity = p.capacity
      /\ q.bookingStart = b /\ q.bookingEnd = b + p.duration /\ q.duration = p.duration
  BY <1>1, <1>6 DEF Promoted, ReservationType
<1> HIDE DEF p, q, b
<1>9. i <= SlotIndex(b) BY <1>5, <1>7, SlotIndexLower
<1>10. b + p.duration - 1 \in Int /\ b <= b + p.duration - 1 BY <1>1, <1>7
<1>11. SlotIndex(b) \in Nat /\ l \in Nat /\ SlotIndex(b) <= l
  BY <1>7, <1>10, SlotIndexType, SlotIndexMonotone
<1>12. FirstSlot(q) = SlotIndex(b) /\ LastSlot(q) = l
  <2>1. q.assignedEnd - 1 = b + p.duration - 1 BY <1>1, <1>7, <1>8
  <2> QED BY <1>8, <2>1 DEF FirstSlot, LastSlot
<1>13. ASSUME NEW j \in i .. l
       PROVE  /\ j \in Window(NewStart)
              /\ SlidSlots[Ring(j)].load + p.capacity <= SlidSlots[Ring(j)].capacity
  <2>1. Available(SlidSlots, j, p.capacity) = p.capacity
    BY <1>6, <1>13 DEF RigidFits, b
  <2>2. j \in Window(NewStart) BY <1>1, <2>1 DEF Available
  <2>3. j \in Int BY <1>5, <1>11
  <2>4. SlidSlots[Ring(j)] \in SlotType BY <2>3, SlideType, RingDivision
  <2>5. SlidSlots[Ring(j)].load \in Int /\ SlidSlots[Ring(j)].capacity \in Int
    BY <2>4 DEF SlotType
  <2>6. SlidSlots[Ring(j)].capacity - SlidSlots[Ring(j)].load >= p.capacity
    BY <1>1, <2>1, <2>2, <2>5 DEF Available
  <2> QED BY <1>1, <2>2, <2>5, <2>6
<1>14. l \in Window(NewStart) BY <1>5, <1>9, <1>11, <1>13
<1>15. l <= WindowEnd(NewStart) BY <1>14, <1>2, <1>3, <1>11 DEF Window, WindowEnd
<1>16. \A j \in Span(NewStart, q) : j \in i .. l
  BY <1>2, <1>3, <1>5, <1>9, <1>11, <1>12 DEF Span, Window
<1> QED BY <1>3, <1>5, <1>7, <1>8, <1>9, <1>11, <1>12, <1>13, <1>15, <1>16 DEF p, q

\* A slot of the window is touched by a booking through its own ring index only.
LEMMA SpanRing ==
  ASSUME TypeOK, NEW q, NEW i \in Window(NewStart)
  PROVE  (\E j \in Span(NewStart, q) : Ring(j) = Ring(i)) <=> i \in Span(NewStart, q)
<1>1. NewStart \in Int BY SlideType
<1>2. ASSUME NEW j \in Span(NewStart, q), Ring(j) = Ring(i)
      PROVE  j = i
  BY <1>1, <1>2, RingInjective DEF Span
<1> QED BY <1>2

\* After a booking the slots of the window hold it where it spans them.
LEMMA BookedIds ==
  ASSUME TypeOK, NEW r \in Reservations, NEW q \in ReservationType, r \notin SlidActive,
         \A j \in Span(NewStart, q) :
            SlidSlots[Ring(j)].load + q.capacity <= SlidSlots[Ring(j)].capacity,
         NEW i \in Window(NewStart)
  PROVE  Booked(SlidSlots, r, q)[Ring(i)].ids =
            IF i \in Span(NewStart, q)
            THEN SlidSlots[Ring(i)].ids \union {r} ELSE SlidSlots[Ring(i)].ids
<1>1. i \in Int BY SlideType, GridAssumption DEF Window
<1>2. Ring(i) \in RingIndex BY <1>1, RingDivision
<1>3. SlidSlots[Ring(i)] \in SlotType BY <1>2, SlideType
<1>4. CASE i \in Span(NewStart, q)
  <2>1. Booked(SlidSlots, r, q)[Ring(i)] = SlotInsert(SlidSlots[Ring(i)], r, q)
    BY <1>2, <1>4 DEF Booked
  <2>2. SlidSlots[Ring(i)].load + q.capacity <= SlidSlots[Ring(i)].capacity BY <1>4
  <2> QED BY <1>3, <1>4, <2>1, <2>2, SlotInsertType
<1>5. CASE i \notin Span(NewStart, q)
  <2>1. Booked(SlidSlots, r, q)[Ring(i)] = SlidSlots[Ring(i)]
    BY <1>2, <1>5, SpanRing DEF Booked
  <2> QED BY <1>5, <2>1
<1> QED BY <1>4, <1>5

LEMMA ReleasedIds ==
  ASSUME TypeOK, NEW r \in Reservations, NEW q \in ReservationType,
         NEW i \in Window(NewStart)
  PROVE  Released(SlidSlots, r, q)[Ring(i)].ids =
            IF i \in Span(NewStart, q)
            THEN SlidSlots[Ring(i)].ids \ {r} ELSE SlidSlots[Ring(i)].ids
<1>1. i \in Int BY SlideType, GridAssumption DEF Window
<1>2. Ring(i) \in RingIndex BY <1>1, RingDivision
<1>3. SlidSlots[Ring(i)] \in SlotType BY <1>2, SlideType
<1>4. CASE i \in Span(NewStart, q)
  <2>1. Released(SlidSlots, r, q)[Ring(i)] = SlotDelete(SlidSlots[Ring(i)], r, q)
    BY <1>2, <1>4 DEF Released
  <2> QED BY <1>3, <1>4, <2>1, SlotDeleteType
<1>5. CASE i \notin Span(NewStart, q)
  <2>1. Released(SlidSlots, r, q)[Ring(i)] = SlidSlots[Ring(i)]
    BY <1>2, <1>5, SpanRing DEF Released
  <2> QED BY <1>5, <2>1
<1> QED BY <1>4, <1>5

\* A second booking of an active reservation reaches every slot of the first
\* one that is still in the window: it starts where the first one started, or
\* at the start of the window, and lasts as long.
LEMMA SecondSpan ==
  ASSUME CalendarInv, NEW r \in SlidKept, NEW c \in Candidates(SlidSlots, res[r])
  PROVE  Span(NewStart, res[r]) \subseteq Span(NewStart, Promoted(res[r], c))
<1> DEFINE p == res[r]
           q == Promoted(p, c)
<1>1. TypeOK /\ RigidStore /\ r \in Reservations /\ r \in Kept
  BY SpanTypes, SlideType DEF CalendarInv
<1>2. /\ p.duration \in Int /\ p.duration >= 1 /\ ~ p.moldable
      /\ p \in ReservationType
  BY <1>1 DEF TypeOK, RigidStore, ReservationType
<1>3. /\ p.bookingStart = p.assignedStart /\ p.bookingEnd = p.assignedStart + p.duration
      /\ p.assignedEnd = p.assignedStart + p.duration /\ p.assignedStart \in Nat
  BY <1>1 DEF CalendarInv, Pinned
<1>4. /\ NewStart \in Nat /\ WindowEnd(NewStart) \in Nat /\ NewStart <= WindowEnd(NewStart)
      /\ SlotWidth \in Nat \ {0}
  <2>1. NewStart \in Nat BY <1>1, SlideType
  <2> QED BY <2>1, GridAssumption DEF WindowEnd
<1> HIDE DEF p, q
<1>5. FirstSlot(p) \in Nat /\ LastSlot(p) \in Nat /\ FirstSlot(p) <= WindowEnd(NewStart)
  <2>1. FirstSlot(p) <= LastSlot(p) /\ LastSlot(p) <= WindowEnd(NewStart)
    BY SlideKeepsBookings DEF p
  <2>2. FirstSlot(p) \in Nat /\ LastSlot(p) \in Nat BY <1>1, SpanTypes DEF p
  <2> QED BY <1>4, <2>1, <2>2
<1> DEFINE i == IF FirstSlot(p) < NewStart THEN NewStart ELSE FirstSlot(p)
           b == StartIn(p, i)
<1>6. EarliestSlot(p) = i /\ LatestSlot(p) = i
  <2>1. BookingStart(p) = p.assignedStart /\ BookingEnd(p) - p.duration = p.assignedStart
    BY <1>2, <1>3, TimeAssumption DEF BookingStart, BookingEnd
  <2>2. Effective(NewStart, FirstSlot(p)) = i BY <1>4, <1>5 DEF Effective
  <2> QED BY <2>1, <2>2 DEF EarliestSlot, LatestSlot, FirstSlot
<1>7. q.assignedStart = b /\ q.assignedEnd = b + p.duration
  <2>1. i \in Nat BY <1>4, <1>5
  <2>2. PICK x \in i .. i : \E e \in Ends(SlidSlots, p, x) :
           c = [begin |-> StartIn(p, x), end |-> e]
    BY <1>6 DEF Candidates, p
  <2>3. x = i BY <2>1
  <2>4. c.begin = b /\ c.end = b + p.duration BY <1>2, <2>2, <2>3 DEF Ends
  <2> QED BY <1>2, <2>4 DEF q, Promoted, ReservationType
<1>8. CASE FirstSlot(p) < NewStart
  <2>1. i = NewStart /\ NewStart * SlotWidth \in Nat BY <1>4, <1>8
  <2>2. p.assignedStart < NewStart * SlotWidth
    <3>1. ~ NewStart * SlotWidth <= p.assignedStart
      BY <1>3, <1>4, <1>5, <1>8, SlotIndexLower DEF FirstSlot
    <3> QED BY <1>3, <2>1, <3>1
  <2>3. b = NewStart * SlotWidth BY <1>3, <2>1, <2>2 DEF StartIn
  <2>4. FirstSlot(q) <= NewStart
    <3>1. NewStart * SlotWidth < (NewStart + 1) * SlotWidth BY <1>4
    <3> QED BY <1>4, <1>7, <2>1, <2>3, <3>1, SlotIndexUpper DEF FirstSlot
  <2>5. LastSlot(p) <= LastSlot(q)
    <3>1. p.assignedEnd - 1 \in Int /\ q.assignedEnd - 1 \in Int
          /\ p.assignedEnd - 1 <= q.assignedEnd - 1
      BY <1>2, <1>3, <1>7, <2>1, <2>2, <2>3
    <3> QED BY <3>1, SlotIndexMonotone DEF LastSlot
  <2>6. FirstSlot(q) \in Int /\ LastSlot(q) \in Int
    <3>1. q.assignedStart \in Int /\ q.assignedEnd - 1 \in Int
      BY <1>2, <1>7, <2>1, <2>3
    <3> QED BY <3>1, SlotIndexType DEF FirstSlot, LastSlot
  <2> SUFFICES ASSUME NEW j \in Span(NewStart, p) PROVE j \in Span(NewStart, q)
    BY DEF p, q
  <2>7. j \in Int /\ NewStart <= j /\ j <= LastSlot(p) /\ j \in Window(NewStart)
    BY <1>4, GridAssumption DEF Span, Window
  <2> QED BY <1>4, <1>5, <2>4, <2>5, <2>6, <2>7 DEF Span
<1>9. CASE ~ FirstSlot(p) < NewStart
  <2>1. i = FirstSlot(p) /\ i \in Nat /\ i * SlotWidth \in Nat BY <1>4, <1>5, <1>9
  <2>2. i * SlotWidth <= p.assignedStart
    <3>1. i = p.assignedStart \div SlotWidth BY <1>3, <2>1 DEF FirstSlot, SlotIndex
    <3>2. SlotWidth * (p.assignedStart \div SlotWidth) <= p.assignedStart BY <1>3, <1>4
    <3> QED BY <1>4, <2>1, <3>1, <3>2
  <2>3. b = p.assignedStart BY <1>3, <2>1, <2>2 DEF StartIn
  <2> QED BY <1>3, <1>7, <2>3 DEF Span, FirstSlot, LastSlot, p, q
<1> QED BY <1>8, <1>9

\* After a second booking the slots of its span do not hold it any longer.
LEMMA RebookedIds ==
  ASSUME TypeOK, NEW r \in Reservations, NEW q \in ReservationType, r \in SlidActive,
         NEW i \in Window(NewStart)
  PROVE  Booked(SlidSlots, r, q)[Ring(i)].ids =
            IF i \in Span(NewStart, q)
            THEN SlidSlots[Ring(i)].ids \ {r} ELSE SlidSlots[Ring(i)].ids
<1>1. i \in Int BY SlideType, GridAssumption DEF Window
<1>2. Ring(i) \in RingIndex BY <1>1, RingDivision
<1> DEFINE slot == SlidSlots[Ring(i)]
<1>3. slot \in SlotType BY <1>2, SlideType
<1>4. CASE i \in Span(NewStart, q)
  <2>1. Booked(SlidSlots, r, q)[Ring(i)] = SlotDelete(SlotInsert(slot, r, q), r, q)
    BY <1>2, <1>4 DEF Booked
  <2> HIDE DEF slot
  <2>2. SlotInsert(slot, r, q) \in SlotType BY <1>3, SlotInsertType
  <2>3. SlotInsert(slot, r, q).ids \in {slot.ids, slot.ids \union {r}}
    <3>1. CASE slot.load + q.capacity > slot.capacity \/ r \in slot.ids
      BY <3>1 DEF SlotInsert
    <3>2. CASE ~ (slot.load + q.capacity > slot.capacity \/ r \in slot.ids)
      <4>1. slot.load + q.capacity <= slot.capacity
        BY <1>3, <3>2 DEF SlotType, ReservationType
      <4> QED BY <1>3, <4>1, SlotInsertType
    <3> QED BY <3>1, <3>2
  <2>4. SlotDelete(SlotInsert(slot, r, q), r, q).ids = slot.ids \ {r}
    BY <2>2, <2>3, SlotDeleteType
  <2> QED BY <1>4, <2>1, <2>4 DEF slot
<1>5. CASE i \notin Span(NewStart, q)
  <2>1. Booked(SlidSlots, r, q)[Ring(i)] = SlidSlots[Ring(i)]
    BY <1>2, <1>5, SpanRing DEF Booked
  <2> QED BY <1>5, <2>1
<1> QED BY <1>4, <1>5

\* Two entries of the store with the same times.
SameTimes(p, q) ==
  /\ p.bookingStart = q.bookingStart /\ p.bookingEnd = q.bookingEnd
  /\ p.assignedStart = q.assignedStart /\ p.assignedEnd = q.assignedEnd
  /\ p.duration = q.duration

\* An operation that lets the window slide, or does not, keeps the calendar
\* if it keeps the times of what is booked.
CalendarParts == Pinned /\ InsideWindow /\ BookedExactly /\ ExpiredAreDeleted

LEMMA SlidCalendar ==
  ASSUME CalendarInv, Slide, slots' = SlidSlots, active' = SlidActive,
         rebooked' = SlidRebooked, \A r \in SlidKept : SameTimes(res'[r], res[r])
  PROVE  CalendarParts'
<1>1. TypeOK BY DEF CalendarInv
<1>2. start' = NewStart /\ Kept' = SlidKept BY DEF Slide, Kept, SlidKept
<1>3. \A r \in SlidKept : /\ FirstSlot(res'[r]) = FirstSlot(res[r])
                          /\ LastSlot(res'[r]) = LastSlot(res[r])
                          /\ Span(NewStart, res'[r]) = Span(NewStart, res[r])
  BY DEF SameTimes, FirstSlot, LastSlot, Span
<1>4. InsideWindow' BY <1>2, <1>3, SlideKeepsBookings DEF InsideWindow
<1>5. BookedExactly'
  <2> SUFFICES ASSUME NEW i \in Window(NewStart)
               PROVE  SlidSlots[Ring(i)].ids = {r \in SlidKept : i \in Span(NewStart, res'[r])}
    BY <1>2 DEF BookedExactly, Kept
  <2> QED BY <1>3, SlideKeepsBookings
<1>6. ExpiredAreDeleted'
  BY <1>2, <1>3, SlideKeepsBookings DEF ExpiredAreDeleted, Kept
<1>7. Pinned'
  <2>1. SlidKept \subseteq Kept BY <1>1, SpanTypes
  <2> QED BY <1>2, <2>1 DEF Pinned, CalendarInv, SameTimes
<1> QED BY <1>4, <1>5, <1>6, <1>7 DEF CalendarParts

\* A booking is added: reserve_without_check of what is not active.
LEMMA BookingKeepsCalendar ==
  ASSUME CalendarInv, NEW r \in Reservations, ReserveSucceeds(r), r \notin SlidActive
  PROVE  CalendarParts'
<1>1. TypeOK /\ RigidStore BY DEF CalendarInv
<1>2. start' = NewStart /\ Kept' = SlidKept \union {r}
  <2>1. r \notin SlidRebooked BY <1>1, SlideType
  <2> QED BY <2>1 DEF ReserveSucceeds, Slide, Kept, SlidKept
<1>3. PICK c \in Candidates(SlidSlots, res[r]) :
         /\ slots' = Booked(SlidSlots, r, Promoted(res[r], c))
         /\ res' = [SlidRes EXCEPT ![r] = Promoted(res[r], c)]
  BY DEF ReserveSucceeds, EarliestOf
<1> DEFINE q == Promoted(res[r], c)
<1>4. q \in ReservationType BY <1>1, CandidateType, PromotedType
<1>5. /\ NewStart <= FirstSlot(q) /\ FirstSlot(q) <= LastSlot(q)
      /\ LastSlot(q) <= WindowEnd(NewStart)
      /\ \A j \in Span(NewStart, q) :
            SlidSlots[Ring(j)].load + q.capacity <= SlidSlots[Ring(j)].capacity
      /\ q.bookingStart = q.assignedStart /\ q.bookingEnd = q.assignedEnd
      /\ q.assignedEnd = q.assignedStart + q.duration /\ q.assignedStart \in Nat
  BY <1>1, RigidCandidateFits
<1> HIDE DEF q
<1>6. r \notin SlidKept BY <1>1, SpanTypes
<1>7. res'[r] = q /\ \A s \in SlidKept : res'[s] = res[s]
  <2>1. SlidRes \in [Reservations -> ReservationType] BY <1>1, SlideType
  <2>2. SlidKept \subseteq Reservations BY <1>1, SlideType, SpanTypes
  <2>3. \A s \in SlidKept : SlidRes[s] = res[s] BY <1>1, SpanTypes
  <2> QED BY <1>3, <1>6, <2>1, <2>2, <2>3 DEF q
<1>8. InsideWindow'
  <2> SUFFICES ASSUME NEW s \in SlidKept \union {r}
               PROVE  FirstSlot(res'[s]) <= LastSlot(res'[s])
                      /\ LastSlot(res'[s]) <= WindowEnd(NewStart)
    BY <1>2 DEF InsideWindow
  <2>1. CASE s = r BY <1>5, <1>7, <2>1
  <2>2. CASE s \in SlidKept BY <1>7, <2>2, SlideKeepsBookings
  <2> QED BY <2>1, <2>2
<1>9. ExpiredAreDeleted'
  <2> SUFFICES ASSUME NEW s \in SlidKept \union {r}
               PROVE  LastSlot(res'[s]) >= NewStart
    BY <1>2 DEF ExpiredAreDeleted, Kept
  <2>1. CASE s = r
    <3>1. FirstSlot(q) \in Int /\ LastSlot(q) \in Int /\ NewStart \in Int
      <4>1. q.assignedStart \in Int /\ q.assignedEnd - 1 \in Int
        BY <1>4 DEF ReservationType
      <4> QED BY <4>1, <1>1, SlotIndexType, SlideType DEF FirstSlot, LastSlot
    <3> QED BY <1>5, <1>7, <2>1, <3>1
  <2>2. CASE s \in SlidKept BY <1>7, <2>2, SlideKeepsBookings
  <2> QED BY <2>1, <2>2
<1>10. BookedExactly'
  <2> SUFFICES ASSUME NEW i \in Window(NewStart)
               PROVE  slots'[Ring(i)].ids =
                        {s \in SlidKept \union {r} : i \in Span(NewStart, res'[s])}
    BY <1>2 DEF BookedExactly, Kept
  <2>1. SlidSlots[Ring(i)].ids = {s \in SlidKept : i \in Span(NewStart, res[s])}
    BY SlideKeepsBookings
  <2>2. slots'[Ring(i)].ids = IF i \in Span(NewStart, q)
                              THEN SlidSlots[Ring(i)].ids \union {r}
                              ELSE SlidSlots[Ring(i)].ids
    <3>1. slots' = Booked(SlidSlots, r, q) BY <1>3 DEF q
    <3> QED BY <1>1, <1>4, <1>5, <3>1, BookedIds
  <2> QED BY <1>6, <1>7, <2>1, <2>2
<1>11. Pinned'
  <2> SUFFICES ASSUME NEW s \in SlidKept \union {r}
               PROVE  /\ res'[s].bookingStart = res'[s].assignedStart
                      /\ res'[s].bookingEnd = res'[s].assignedEnd
                      /\ res'[s].assignedEnd = res'[s].assignedStart + res'[s].duration
                      /\ res'[s].assignedStart \in Nat
    BY <1>2 DEF Pinned
  <2>1. CASE s = r BY <1>5, <1>7, <2>1
  <2>2. CASE s \in SlidKept
    <3>1. s \in Kept BY <1>1, <2>2, SpanTypes
    <3> QED BY <1>7, <2>2, <3>1 DEF CalendarInv, Pinned
  <2> QED BY <2>1, <2>2
<1> QED BY <1>8, <1>9, <1>10, <1>11 DEF CalendarParts

\* What becomes of a booking that is taken out of its slots.
LEMMA RemovalKeepsCalendar ==
  ASSUME CalendarInv, NEW r \in Reservations, Slide, Kept' = SlidKept \ {r},
         \A s \in SlidKept \ {r} : res'[s] = res[s],
         \A i \in Window(NewStart) :
            \/ slots'[Ring(i)].ids = SlidSlots[Ring(i)].ids \ {r}
            \/ slots'[Ring(i)].ids = SlidSlots[Ring(i)].ids /\ r \notin slots'[Ring(i)].ids
  PROVE  CalendarParts'
<1>1. start' = NewStart BY DEF Slide
<1>2. InsideWindow' BY <1>1, SlideKeepsBookings DEF InsideWindow
<1>3. ExpiredAreDeleted'
  BY <1>1, SlideKeepsBookings DEF ExpiredAreDeleted, Kept
<1>4. BookedExactly'
  <2> SUFFICES ASSUME NEW i \in Window(NewStart)
               PROVE  slots'[Ring(i)].ids =
                        {s \in SlidKept \ {r} : i \in Span(NewStart, res'[s])}
    BY <1>1 DEF BookedExactly, Kept
  <2>1. SlidSlots[Ring(i)].ids = {s \in SlidKept : i \in Span(NewStart, res[s])}
    BY SlideKeepsBookings
  <2>2. slots'[Ring(i)].ids = SlidSlots[Ring(i)].ids \ {r} OBVIOUS
  <2> QED BY <2>1, <2>2
<1>5. Pinned'
  <2>1. SlidKept \subseteq Kept BY SpanTypes DEF CalendarInv
  <2> QED BY <2>1 DEF CalendarInv, Pinned
<1> QED BY <1>2, <1>3, <1>4, <1>5 DEF CalendarParts

\* A second booking takes the first one out: the recovery of
\* reserve_without_check.
LEMMA RebookingKeepsCalendar ==
  ASSUME CalendarInv, NEW r \in Reservations, ReserveSucceeds(r), r \in SlidActive
  PROVE  CalendarParts'
<1>1. TypeOK /\ RigidStore BY DEF CalendarInv
<1>2. Slide /\ Kept' = SlidKept \ {r}
  BY DEF ReserveSucceeds, Kept, SlidKept
<1>3. PICK c \in Candidates(SlidSlots, res[r]) :
         /\ slots' = Booked(SlidSlots, r, Promoted(res[r], c))
         /\ res' = [SlidRes EXCEPT ![r] = Promoted(res[r], c)]
  BY DEF ReserveSucceeds, EarliestOf
<1> DEFINE q == Promoted(res[r], c)
<1>4. q \in ReservationType BY <1>1, CandidateType, PromotedType
<1>5. \A s \in SlidKept \ {r} : res'[s] = res[s]
  <2>1. SlidRes \in [Reservations -> ReservationType] BY <1>1, SlideType
  <2>2. SlidKept \subseteq Reservations BY <1>1, SlideType, SpanTypes
  <2>3. \A s \in SlidKept : SlidRes[s] = res[s] BY <1>1, SpanTypes
  <2> QED BY <1>3, <2>1, <2>2, <2>3
<1>6. ASSUME NEW i \in Window(NewStart)
      PROVE  \/ slots'[Ring(i)].ids = SlidSlots[Ring(i)].ids \ {r}
             \/ slots'[Ring(i)].ids = SlidSlots[Ring(i)].ids /\ r \notin slots'[Ring(i)].ids
  <2>1. SlidSlots[Ring(i)].ids = {s \in SlidKept : i \in Span(NewStart, res[s])}
    BY SlideKeepsBookings
  <2>2. r \in SlidKept => Span(NewStart, res[r]) \subseteq Span(NewStart, q)
    BY SecondSpan
  <2> HIDE DEF q
  <2>3. slots'[Ring(i)].ids = IF i \in Span(NewStart, q)
                              THEN SlidSlots[Ring(i)].ids \ {r}
                              ELSE SlidSlots[Ring(i)].ids
    <3>1. slots' = Booked(SlidSlots, r, q) BY <1>3 DEF q
    <3> QED BY <1>1, <1>4, <3>1, RebookedIds
  <2> QED BY <2>1, <2>2, <2>3
<1> QED BY <1>2, <1>5, <1>6, RemovalKeepsCalendar

\* A booking is taken out: delete_reservation.
LEMMA ReleaseKeepsCalendar ==
  ASSUME CalendarInv, NEW r \in Reservations, DeleteActive(r)
  PROVE  CalendarParts'
<1>1. TypeOK BY DEF CalendarInv
<1>2. /\ Slide /\ Kept' = SlidKept \ {r}
      /\ slots' = Released(SlidSlots, r, res[r])
      /\ res' = [SlidRes EXCEPT ![r].state = "Deleted"]
  BY DEF DeleteActive, Kept, SlidKept
<1>3. \A s \in SlidKept \ {r} : res'[s] = res[s]
  <2>1. SlidRes \in [Reservations -> ReservationType] BY <1>1, SlideType
  <2>2. SlidKept \subseteq Reservations BY <1>1, SlideType, SpanTypes
  <2>3. \A s \in SlidKept : SlidRes[s] = res[s] BY <1>1, SpanTypes
  <2> QED BY <1>2, <2>1, <2>2, <2>3
<1>4. ASSUME NEW i \in Window(NewStart)
      PROVE  \/ slots'[Ring(i)].ids = SlidSlots[Ring(i)].ids \ {r}
             \/ slots'[Ring(i)].ids = SlidSlots[Ring(i)].ids /\ r \notin slots'[Ring(i)].ids
  <2>1. SlidSlots[Ring(i)].ids = {s \in SlidKept : i \in Span(NewStart, res[s])}
    BY SlideKeepsBookings
  <2>2. slots'[Ring(i)].ids = IF i \in Span(NewStart, res[r])
                              THEN SlidSlots[Ring(i)].ids \ {r}
                              ELSE SlidSlots[Ring(i)].ids
    BY <1>1, <1>2, ReleasedIds DEF TypeOK
  <2> QED BY <2>1, <2>2
<1> QED BY <1>2, <1>3, <1>4, RemovalKeepsCalendar

LEMMA CalendarNext ==
  ASSUME Simulated, CalendarInv, [Next]_vars
  PROVE  CalendarInv'
<1> DEFINE calendar == RigidStore' /\ WindowBehind' /\ CalendarParts'
<1>1. TypeOK /\ RigidStore /\ WindowBehind BY DEF CalendarInv
<1>2. TypeOK' BY <1>1, NextType
<1>3. /\ NewStart \in Nat
      /\ SlidSlots \in [RingIndex -> SlotType]
      /\ SlidActive \subseteq Reservations
      /\ SlidRes \in [Reservations -> ReservationType]
  BY <1>1, SlideType
<1>4. SlidKept \subseteq Reservations /\ \A r \in SlidKept : SlidRes[r] = res[r]
  BY <1>1, <1>3, SpanTypes
<1>5. \A r \in Reservations : /\ res[r] \in ReservationType
                              /\ SlidRes[r].moldable = res[r].moldable
                              /\ SlidRes[r].duration = res[r].duration
                              /\ SlidRes[r].capacity = res[r].capacity
  BY <1>1 DEF TypeOK, SlidRes, ReservationType
<1>6. ASSUME Slide PROVE WindowBehind'
  BY <1>6, <1>3 DEF Slide, WindowBehind, NewStart
<1>7. ASSUME UNCHANGED <<slots, start, active, rebooked>>, WindowBehind', RigidStore',
             \A r \in active : SameTimes(res'[r], res[r])
      PROVE  calendar
  <2>1. Kept' = Kept /\ Kept \subseteq active BY <1>7 DEF Kept
  <2>2. \A r \in active : /\ FirstSlot(res'[r]) = FirstSlot(res[r])
                          /\ LastSlot(res'[r]) = LastSlot(res[r])
                          /\ Span(start, res'[r]) = Span(start, res[r])
    BY <1>7 DEF SameTimes, FirstSlot, LastSlot, Span
  <2>3. InsideWindow' BY <1>7, <2>1, <2>2 DEF CalendarInv, InsideWindow
  <2>4. ExpiredAreDeleted' BY <1>7, <2>1, <2>2 DEF CalendarInv, ExpiredAreDeleted, Kept
  <2>5. BookedExactly'
    <3> SUFFICES ASSUME NEW i \in Window(start)
                 PROVE  slots[Ring(i)].ids = {r \in Kept : i \in Span(start, res'[r])}
      BY <1>7, <2>1 DEF BookedExactly, Kept
    <3> QED BY <2>1, <2>2 DEF CalendarInv, BookedExactly, Kept
  <2>6. Pinned' BY <1>7, <2>1 DEF CalendarInv, Pinned, SameTimes
  <2> QED BY <1>7, <2>3, <2>4, <2>5, <2>6 DEF CalendarParts
<1> HIDE DEF calendar
<1>8. ASSUME Tick PROVE calendar
  <2>1. WindowBehind'
    <3>1. SlotIndex(clock) <= SlotIndex(clock')
      BY <1>1, <1>8, TimeAssumption, SlotIndexMonotone DEF Tick, TypeOK
    <3>2. SlotIndex(clock) \in Int /\ SlotIndex(clock') \in Int /\ start \in Int
      BY <1>1, <1>2, SlotIndexType DEF TypeOK
    <3> QED BY <1>1, <1>8, <3>1, <3>2 DEF Tick, WindowBehind, NewStart
  <2> QED BY <1>1, <1>7, <1>8, <2>1 DEF Tick, RigidStore, SameTimes
<1>9. ASSUME Update PROVE calendar
  <2>1. RigidStore' BY <1>1, <1>5, <1>9 DEF Update, RigidStore
  <2>2. CalendarParts'
    BY <1>4, <1>9, SlidCalendar DEF Update, SameTimes
  <2> QED BY <1>6, <1>9, <2>1, <2>2 DEF Update, calendar
<1>10. ASSUME Clear PROVE calendar
  <2>1. Kept' = {} BY <1>10 DEF Clear, Kept
  <2>2. RigidStore' /\ Pinned' /\ InsideWindow' /\ ExpiredAreDeleted'
    BY <1>1, <1>10, <2>1
    DEF Clear, RigidStore, Pinned, InsideWindow, ExpiredAreDeleted, Kept
  <2>3. BookedExactly'
    <3> SUFFICES ASSUME NEW i \in Window(NewStart)
                 PROVE  slots'[Ring(i)].ids = {}
      BY <1>10 DEF Clear, Slide, BookedExactly
    <3>1. Ring(i) \in RingIndex BY <1>3, GridAssumption, RingDivision DEF Window
    <3> QED BY <1>1, <1>10, <3>1, SlotResetType DEF Clear, TypeOK
  <2> QED BY <1>6, <1>10, <2>2, <2>3 DEF Clear, calendar, CalendarParts
<1>11. ASSUME NEW r \in Reservations, Probe(r) \/ ReserveFails(r) PROVE calendar
  <2>1. PICK state \in ReservationState : res' = [SlidRes EXCEPT ![r].state = state]
    BY <1>11 DEF Probe, ReserveFails, ReservationState
  <2>2. \A s \in Reservations : /\ SameTimes(res'[s], SlidRes[s])
                                /\ res'[s].moldable = SlidRes[s].moldable
                                /\ res'[s].capacity = SlidRes[s].capacity
    BY <1>3, <2>1 DEF SameTimes, ReservationType
  <2>3. RigidStore' BY <1>1, <1>5, <2>2 DEF RigidStore, SameTimes
  <2>4. \A s \in SlidKept : SameTimes(res'[s], res[s]) BY <1>4, <2>2
  <2>5. CalendarParts' BY <1>11, <2>4, SlidCalendar DEF Probe, ReserveFails
  <2> QED BY <1>6, <1>11, <2>3, <2>5 DEF Probe, ReserveFails, calendar
<1>12. ASSUME NEW r \in Reservations, ReserveSucceeds(r) PROVE calendar
  <2>1. PICK c : res' = [SlidRes EXCEPT ![r] = Promoted(res[r], c)]
    BY <1>12 DEF ReserveSucceeds
  <2>2. /\ Promoted(res[r], c).moldable = res[r].moldable
        /\ Promoted(res[r], c).duration = res[r].duration
        /\ Promoted(res[r], c).capacity = res[r].capacity
    BY <1>5 DEF Promoted, ReservationType
  <2>3. res'[r] = Promoted(res[r], c) /\ \A s \in Reservations \ {r} : res'[s] = SlidRes[s]
    BY <1>3, <2>1
  <2>4. RigidStore' BY <1>1, <1>5, <2>2, <2>3 DEF RigidStore
  <2>5. CalendarParts'
    BY <1>12, BookingKeepsCalendar, RebookingKeepsCalendar
  <2> QED BY <1>6, <1>12, <2>4, <2>5 DEF ReserveSucceeds, calendar
<1>13. ASSUME NEW r \in Reservations, DeleteUnknown(r) PROVE calendar
  <2>1. RigidStore' BY <1>1, <1>5, <1>13 DEF DeleteUnknown, RigidStore, TypeOK, ReservationType
  <2>2. \A s \in active : SameTimes(res'[s], res[s])
    BY <1>1, <1>13 DEF DeleteUnknown, TypeOK, SameTimes
  <2>3. WindowBehind' BY <1>1, <1>13 DEF DeleteUnknown, WindowBehind, NewStart
  <2> QED BY <1>7, <1>13, <2>1, <2>2, <2>3 DEF DeleteUnknown
<1>14. ASSUME NEW r \in Reservations, DeleteEnded(r) PROVE calendar
  BY <1>9, <1>14 DEF DeleteEnded
<1>15. ASSUME NEW r \in Reservations, DeleteActive(r) PROVE calendar
  <2>1. res' = [SlidRes EXCEPT ![r].state = "Deleted"]
    BY <1>15 DEF DeleteActive
  <2>2. RigidStore' BY <1>1, <1>3, <1>5, <2>1 DEF RigidStore, ReservationType
  <2>3. CalendarParts' BY <1>15, ReleaseKeepsCalendar
  <2> QED BY <1>6, <1>15, <2>2, <2>3 DEF DeleteActive, calendar
<1>16. ASSUME NEW r \in Reservations, Commit(r) \/ Finish(r) \/ Reopen(r) PROVE calendar
  <2>1. /\ UNCHANGED <<clock, slots, start, active, rebooked>>
        /\ \E state \in {"Committed", "Finished", "Open"} :
              res' = [res EXCEPT ![r].state = state]
    BY <1>16 DEF Commit, Finish, Reopen
  <2>2. \A s \in Reservations : /\ SameTimes(res'[s], res[s])
                                /\ res'[s].moldable = res[s].moldable
                                /\ res'[s].duration = res[s].duration
                                /\ res'[s].capacity = res[s].capacity
    BY <1>1, <2>1 DEF TypeOK, ReservationType, SameTimes
  <2>3. RigidStore' BY <1>1, <2>2 DEF RigidStore
  <2>4. WindowBehind' BY <1>1, <2>1 DEF WindowBehind, NewStart
  <2>5. \A s \in active : s \in Reservations BY <1>1 DEF TypeOK
  <2> QED BY <1>7, <2>1, <2>2, <2>3, <2>4, <2>5
<1>17. ASSUME UNCHANGED vars PROVE calendar
  BY <1>1, <1>7, <1>17 DEF vars, RigidStore, WindowBehind, NewStart, SameTimes
<1>18. calendar
  BY <1>8, <1>9, <1>10, <1>11, <1>12, <1>13, <1>14, <1>15, <1>16, <1>17
  DEF Next, Simulated
<1> QED BY <1>2, <1>18 DEF CalendarInv, calendar, CalendarParts

LEMMA CalendarInit ==
  ASSUME Rigid, Init
  PROVE  CalendarInv
<1>1. TypeOK BY InitType
<1>2. RigidStore BY DEF Rigid, Init, RigidStore, Submitted
<1>3. start = NewStart /\ start \in Nat BY <1>1 DEF Init, NewStart, TypeOK
<1>4. BookedExactly
  <2> SUFFICES ASSUME NEW i \in Window(start) PROVE slots[Ring(i)].ids = {}
    BY DEF BookedExactly, Init
  <2>1. Ring(i) \in RingIndex BY <1>3, GridAssumption, RingDivision DEF Window
  <2> QED BY <2>1 DEF Init
<1>5. Pinned /\ InsideWindow /\ ExpiredAreDeleted
  BY DEF Init, Pinned, InsideWindow, ExpiredAreDeleted, Kept
<1> QED BY <1>1, <1>2, <1>3, <1>4, <1>5 DEF CalendarInv, WindowBehind

\* The ring of real slots is as good as an endless calendar: whatever the
\* clock, the reserves and the deletes do, a slot of the window holds exactly
\* the active reservations that span it, and nothing of those that were
\* reserved a second time while they were active (update,
\* reserve_without_check, delete_reservation of SlottedScheduleContext).
THEOREM RingIsCalendar ==
  ASSUME Simulated, Rigid
  PROVE  Spec => []BookedExactly
<1>1. Init => CalendarInv BY CalendarInit
<1>2. CalendarInv /\ [Next]_vars => CalendarInv' BY CalendarNext
<1>3. CalendarInv => BookedExactly BY DEF CalendarInv
<1> QED BY <1>1, <1>2, <1>3, PTL DEF Spec

\* update deletes every reservation whose last slot has left the window,
\* unless it was reserved a second time while it was active.
THEOREM NothingExpiredIsActive ==
  ASSUME Simulated, Rigid
  PROVE  Spec => []ExpiredAreDeleted
<1>1. Init => CalendarInv BY CalendarInit
<1>2. CalendarInv /\ [Next]_vars => CalendarInv' BY CalendarNext
<1>3. CalendarInv => ExpiredAreDeleted BY DEF CalendarInv
<1> QED BY <1>1, <1>2, <1>3, PTL DEF Spec

-----------------------------------------------------------------------------
(* The booking interval is kept *)

\* The slots that are searched for a request in time lie between the start of
\* its booking interval and its latest start.
LEMMA SearchedSlots ==
  ASSUME TypeOK, NEW q \in ReservationType, InTime(q), 0 <= BookingStart(q),
         NEW i \in EarliestSlot(q) .. LatestSlot(q)
  PROVE  /\ i \in Nat /\ NewStart <= i /\ i <= WindowEnd(NewStart)
         /\ BookingStart(q) \in Nat /\ BookingEnd(q) \in Int /\ q.duration \in Int
         /\ StartIn(q, i) \in Int
         /\ BookingStart(q) <= StartIn(q, i)
         /\ StartIn(q, i) + q.duration <= BookingEnd(q)
<1>1. /\ NewStart \in Nat /\ NumberOfSlots \in Nat \ {0} /\ SlotWidth \in Nat \ {0}
      /\ WindowEnd(NewStart) \in Int /\ NewStart <= WindowEnd(NewStart)
  BY GridAssumption, SlideType DEF WindowEnd
<1> DEFINE b == BookingStart(q)
           last == BookingEnd(q) - q.duration
<1>2. /\ q.bookingStart \in Int /\ q.duration \in Int /\ BookingEnd(q) \in Int
      /\ b \in Nat /\ last \in Int /\ b <= last
      /\ b = IF q.bookingStart = MinInt THEN 0 ELSE q.bookingStart
  BY TimeAssumption DEF BookingStart, BookingEnd, ReservationType, InTime
<1>3. SlotIndex(b) \in Nat /\ SlotIndex(last) \in Nat /\ SlotIndex(last) >= NewStart
  BY <1>2, SlotIndexType DEF InTime
<1> HIDE DEF b
<1>4. EarliestSlot(q) \in Int /\ EarliestSlot(q) >= NewStart
  BY <1>1, <1>3 DEF EarliestSlot, Effective, b
<1>5. /\ LatestSlot(q) \in Int /\ LatestSlot(q) <= WindowEnd(NewStart)
      /\ LatestSlot(q) <= SlotIndex(last)
  BY <1>1, <1>3 DEF LatestSlot, Effective
<1>6. i \in Nat /\ NewStart <= i /\ i <= WindowEnd(NewStart) /\ i <= SlotIndex(last)
  BY <1>1, <1>3, <1>4, <1>5
<1> HIDE DEF last
<1>7. i * SlotWidth <= last
  <2>1. SlotIndex(last) = last \div SlotWidth BY <1>2 DEF SlotIndex
  <2>2. SlotWidth * (last \div SlotWidth) <= last BY <1>1, <1>2
  <2>3. i * SlotWidth <= SlotWidth * (last \div SlotWidth) BY <1>1, <1>2, <1>3, <1>6, <2>1
  <2> QED BY <1>1, <1>2, <1>3, <1>6, <2>1, <2>2, <2>3
<1>8. i * SlotWidth \in Nat BY <1>1, <1>6
<1>9. StartIn(q, i) \in Int /\ b <= StartIn(q, i) /\ StartIn(q, i) <= last
  BY <1>2, <1>7, <1>8, TimeAssumption DEF StartIn
<1> QED BY <1>2, <1>6, <1>9 DEF b, last

\* A reserve that comes in time keeps the booking interval, for rigid and for
\* moldable requests: calculate_schedule starts no later than the latest slot,
\* and the end of a reservation that shrank is compared with the interval's.
THEOREM IntervalIsKept == Spec => DeadlineKept
<1>1. ASSUME TypeOK, NEW r \in Reservations, ReserveSucceeds(r), InTime(res[r])
      PROVE  /\ BookingStart(res[r]) <= res'[r].assignedStart
             /\ res'[r].assignedEnd <= BookingEnd(res[r])
  <2> DEFINE q == res[r]
  <2>1. q \in ReservationType /\ SlidRes \in [Reservations -> ReservationType]
    BY <1>1, SlideType DEF TypeOK
  <2>2. PICK c \in Candidates(SlidSlots, q) : res' = [SlidRes EXCEPT ![r] = Promoted(q, c)]
    BY <1>1 DEF ReserveSucceeds, EarliestOf
  <2>3. res'[r].assignedStart = c.begin /\ res'[r].assignedEnd = c.end
    BY <2>1, <2>2 DEF Promoted, ReservationType
  <2>4. 0 <= BookingStart(q) BY <2>2 DEF Candidates, Searchable
  <2>5. PICK i \in EarliestSlot(q) .. LatestSlot(q) :
           \E e \in Ends(SlidSlots, q, i) : c = [begin |-> StartIn(q, i), end |-> e]
    BY <2>2 DEF Candidates
  <2>6. PICK e \in Ends(SlidSlots, q, i) : c = [begin |-> StartIn(q, i), end |-> e]
    BY <2>5
  <2>7. /\ BookingStart(q) <= StartIn(q, i)
        /\ StartIn(q, i) + q.duration <= BookingEnd(q)
    BY <1>1, <2>1, <2>4, SearchedSlots
  <2>8. e <= BookingEnd(q)
    <3>1. CASE ~ q.moldable BY <2>6, <2>7, <3>1 DEF Ends
    <3>2. CASE q.moldable
      <4>1. e \in MoldableEnds(SlidSlots, q, i) BY <2>6, <3>2 DEF Ends
      <4> QED BY <2>7, <4>1 DEF MoldableEnds
    <3> QED BY <3>1, <3>2
  <2> QED BY <2>3, <2>6, <2>7, <2>8
<1>2. TypeOK /\ [Next]_vars
      => [\A r \in Reservations :
            InTime(res[r]) /\ ReserveSucceeds(r) =>
              /\ BookingStart(res[r]) <= res'[r].assignedStart
              /\ res'[r].assignedEnd <= BookingEnd(res[r])]_vars
  BY <1>1
<1> QED BY <1>2, ScheduleTyped, PTL DEF Spec, DeadlineKept

-----------------------------------------------------------------------------
(* The search finds the earliest place *)

\* Requests ask for something, and for a time that is not before the epoch.
Proper ==
  \A request \in Requests : /\ request.duration >= 1 /\ request.capacity >= 1
                            /\ request.start = MinInt \/ request.start >= 0

ProperStore ==
  \A r \in Reservations : /\ res[r].duration >= 1 /\ res[r].capacity >= 1
                          /\ res[r].bookingStart = MinInt \/ res[r].bookingStart >= 0

Uniform == \A k \in RingIndex : slots[k].capacity = Capacity

SearchInv == LoadInv /\ ProperStore /\ Uniform

\* A candidate starts in the window, so not before the epoch.
LEMMA CandidateStart ==
  ASSUME TypeOK, NEW r \in Reservations, NEW c \in Candidates(SlidSlots, res[r])
  PROVE  c.begin \in Nat
<1> DEFINE q == res[r]
<1>1. q \in ReservationType /\ q.bookingStart \in Int BY DEF TypeOK, ReservationType
<1>2. NewStart \in Nat /\ SlotWidth \in Nat \ {0} /\ WindowEnd(NewStart) \in Nat
      /\ NewStart <= WindowEnd(NewStart)
  BY SlideType, GridAssumption DEF WindowEnd
<1>3. PICK i \in EarliestSlot(q) .. LatestSlot(q) :
         \E e \in Ends(SlidSlots, q, i) : c = [begin |-> StartIn(q, i), end |-> e]
  BY DEF Candidates
<1>4. i \in Nat
  <2>1. BookingStart(q) \in Int
    BY <1>1, TimeAssumption DEF BookingStart
  <2>2. EarliestSlot(q) \in Int /\ EarliestSlot(q) >= NewStart
    BY <1>2, <2>1, SlotIndexType DEF EarliestSlot, Effective
  <2> QED BY <1>2, <1>3, <2>2
<1>5. i * SlotWidth \in Nat BY <1>2, <1>4
<1>6. StartIn(q, i) \in Nat BY <1>1, <1>5 DEF StartIn
<1> QED BY <1>3, <1>6

\* Without a sync every slot keeps the capacity it was made with.
LEMMA UniformNext ==
  ASSUME Simulated, TypeOK, Uniform, [Next]_vars
  PROVE  Uniform'
<1>1. /\ SlidSlots \in [RingIndex -> SlotType]
      /\ slots \in [RingIndex -> SlotType]
      /\ \A r \in Reservations : res[r] \in ReservationType
  BY SlideType DEF TypeOK
<1>2. \A k \in RingIndex : SlidSlots[k].capacity = Capacity
  BY <1>1, SlotResetType DEF SlidSlots, Uniform
<1>3. ASSUME UNCHANGED slots \/ slots' = SlidSlots PROVE Uniform'
  BY <1>2, <1>3 DEF Uniform
<1>4. ASSUME Clear PROVE Uniform'
  BY <1>1, <1>4, SlotResetType DEF Clear, Uniform
<1>5. ASSUME NEW k \in RingIndex, NEW r \in Reservations, NEW q \in ReservationType
      PROVE  /\ Booked(SlidSlots, r, q)[k].capacity = Capacity
             /\ Released(SlidSlots, r, q)[k].capacity = Capacity
  <2>1. /\ SlotInsert(SlidSlots[k], r, q) \in SlotType
        /\ SlotInsert(SlidSlots[k], r, q).capacity = Capacity
    BY <1>1, <1>2, SlotInsertType
  <2>2. /\ SlotDelete(SlotInsert(SlidSlots[k], r, q), r, q).capacity = Capacity
        /\ SlotDelete(SlidSlots[k], r, q).capacity = Capacity
    BY <1>1, <1>2, <2>1, SlotDeleteType
  <2> QED BY <1>2, <2>1, <2>2 DEF Booked, Released
<1>6. ASSUME NEW r \in Reservations, ReserveSucceeds(r) PROVE Uniform'
  <2>1. PICK c \in Candidates(SlidSlots, res[r]) :
           slots' = Booked(SlidSlots, r, Promoted(res[r], c))
    BY <1>6 DEF ReserveSucceeds, EarliestOf
  <2>2. Promoted(res[r], c) \in ReservationType BY CandidateType, PromotedType
  <2> QED BY <1>5, <2>1, <2>2 DEF Uniform
<1>7. ASSUME NEW r \in Reservations, DeleteActive(r) PROVE Uniform'
  BY <1>1, <1>5, <1>7 DEF DeleteActive, Uniform
<1>8. ASSUME NEW r \in Reservations, Probe(r) \/ ReserveFails(r) \/ DeleteEnded(r)
      PROVE  Uniform'
  BY <1>3, <1>8 DEF Probe, ReserveFails, DeleteEnded, Update
<1>9. ASSUME NEW r \in Reservations,
             DeleteUnknown(r) \/ Commit(r) \/ Finish(r) \/ Reopen(r)
      PROVE  Uniform'
  BY <1>3, <1>9 DEF DeleteUnknown, Commit, Finish, Reopen
<1>10. CASE Tick \/ Update \/ UNCHANGED vars BY <1>3, <1>10 DEF Tick, Update, vars
<1> QED BY <1>4, <1>6, <1>7, <1>8, <1>9, <1>10 DEF Next, Simulated

LEMMA SearchNext ==
  ASSUME Simulated, SearchInv, [Next]_vars
  PROVE  SearchInv'
<1> USE DEF SearchInv, LoadInv
<1>1. LoadInv' BY LoadNext
<1>2. /\ SlidSlots \in [RingIndex -> SlotType]
      /\ SlidRes \in [Reservations -> ReservationType]
      /\ slots \in [RingIndex -> SlotType]
      /\ \A r \in Reservations : res[r] \in ReservationType
  BY SlideType DEF TypeOK
<1>3. Uniform' BY UniformNext
<1>4. ProperStore'
  <2> DEFINE SameRequest(f) ==
               \A r \in Reservations : /\ f[r].duration = res[r].duration
                                       /\ f[r].capacity = res[r].capacity
                                       /\ f[r].bookingStart = res[r].bookingStart
  <2>1. SameRequest(SlidRes) BY <1>2 DEF SlidRes, ReservationType
  <2>2. ASSUME SameRequest(res') PROVE ProperStore' BY <2>2 DEF ProperStore
  <2>3. CASE UNCHANGED res BY <2>2, <2>3
  <2>4. CASE Update BY <2>1, <2>2, <2>4 DEF Update
  <2>5. ASSUME NEW r \in Reservations, Probe(r) \/ ReserveFails(r) \/ DeleteActive(r)
        PROVE  ProperStore'
    BY <1>2, <2>1, <2>2, <2>5 DEF Probe, ReserveFails, DeleteActive, ReservationType
  <2>6. ASSUME NEW r \in Reservations, ReserveSucceeds(r) PROVE ProperStore'
    <3>1. PICK c \in Candidates(SlidSlots, res[r]) :
             res' = [SlidRes EXCEPT ![r] = Promoted(res[r], c)]
      BY <2>6 DEF ReserveSucceeds, EarliestOf
    <3>2. /\ Promoted(res[r], c).duration = res[r].duration
          /\ Promoted(res[r], c).capacity = res[r].capacity
          /\ Promoted(res[r], c).bookingStart = c.begin
      BY <1>2 DEF Promoted, ReservationType
    <3>3. c.begin \in Nat BY CandidateStart
    <3> QED BY <1>2, <2>1, <3>1, <3>2, <3>3 DEF ProperStore
  <2>7. ASSUME NEW r \in Reservations,
               DeleteUnknown(r) \/ Commit(r) \/ Finish(r) \/ Reopen(r)
        PROVE  ProperStore'
    <3>1. PICK state \in ReservationState : res' = [res EXCEPT ![r].state = state]
      BY <2>7 DEF DeleteUnknown, Commit, Finish, Reopen, ReservationState
    <3>2. SameRequest(res')
      BY <1>2, <3>1 DEF TypeOK, ReservationType
    <3> QED BY <2>2, <3>2
  <2>8. ASSUME NEW r \in Reservations, DeleteEnded(r) PROVE ProperStore'
    BY <2>4, <2>8 DEF DeleteEnded
  <2>9. CASE Tick \/ Clear \/ UNCHANGED vars BY <2>3, <2>9 DEF Tick, Clear, vars
  <2> HIDE DEF SameRequest
  <2> QED BY <2>4, <2>5, <2>6, <2>7, <2>8, <2>9 DEF Next, Simulated
<1> QED BY <1>1, <1>3, <1>4

\* No slot carries less than nothing.
LEMMA SlidLoads ==
  ASSUME SearchInv
  PROVE  \A k \in RingIndex : /\ SlidSlots[k].load \in Nat
                              /\ SlidSlots[k].capacity = Capacity
<1> SUFFICES ASSUME NEW k \in RingIndex
             PROVE  SlidSlots[k].load \in Nat /\ SlidSlots[k].capacity = Capacity
  OBVIOUS
<1>1. TypeOK /\ slots[k] \in SlotType /\ slots[k].capacity = Capacity
  BY DEF SearchInv, LoadInv, TypeOK, Uniform
<1>2. slots[k].load \in Nat
  <2>1. slots[k].ids \subseteq Reservations /\ IsFiniteSet(slots[k].ids)
    BY <1>1, ReservationsAssumption, FS_Subset DEF SlotType
  <2>2. \A r \in slots[k].ids : Capacities[r] \in Nat
    BY <1>1, <2>1 DEF Capacities, SearchInv, ProperStore, TypeOK, ReservationType
  <2>3. CapacityOf(slots[k].ids) \in Nat BY <2>1, <2>2, SumNat DEF CapacityOf
  <2> QED BY <2>3 DEF SearchInv, LoadInv, LoadIsBooked
<1> QED BY <1>1, <1>2, SlotResetType DEF SlidSlots

\* A second at which the request fits is no earlier than the start of a
\* candidate.
LEMMA RoomIsOffered ==
  ASSUME SearchInv, NEW r \in Reservations, ~ res[r].moldable, InTime(res[r]),
         NEW t \in PossibleStarts(res[r])
  PROVE  \E c \in Candidates(SlidSlots, res[r]) : c.begin <= t
<1> DEFINE q == res[r]
           i == SlotIndex(t)
           b == StartIn(q, i)
<1>1. /\ TypeOK /\ q \in ReservationType /\ q.duration \in Int /\ q.capacity \in Int
      /\ q.bookingStart \in Int /\ q.duration >= 1 /\ q.capacity >= 1
      /\ q.bookingStart = MinInt \/ q.bookingStart >= 0
  BY DEF SearchInv, LoadInv, TypeOK, ProperStore, ReservationType
<1>2. /\ NewStart \in Nat /\ NumberOfSlots \in Nat \ {0} /\ SlotWidth \in Nat \ {0}
      /\ WindowEnd(NewStart) \in Nat /\ NewStart <= WindowEnd(NewStart)
      /\ WindowEnd(NewStart) = NewStart + NumberOfSlots - 1
  BY <1>1, SlideType, GridAssumption DEF WindowEnd
<1>3. /\ t \in WindowTimes(NewStart) /\ BookingStart(q) <= t
      /\ t + q.duration <= BookingEnd(q) /\ RoomAt(q, t)
  BY DEF PossibleStarts
<1>4. /\ BookingStart(q) \in Nat /\ BookingEnd(q) \in Int
      /\ BookingStart(q) = IF q.bookingStart = MinInt THEN 0 ELSE q.bookingStart
  BY <1>1, TimeAssumption DEF BookingStart, BookingEnd, ReservationType
<1>5. t \in Nat /\ NewStart * SlotWidth <= t
  BY <1>2, <1>3 DEF WindowTimes
<1>6. i \in Nat /\ i * SlotWidth <= t /\ NewStart <= i
  <2>1. i = t \div SlotWidth BY <1>5 DEF SlotIndex
  <2>2. t \div SlotWidth \in Nat /\ SlotWidth * (t \div SlotWidth) <= t BY <1>2, <1>5
  <2>3. NewStart <= i BY <1>2, <1>5, SlotIndexLower
  <2> QED BY <1>2, <2>1, <2>2, <2>3
<1> HIDE DEF q, i
<1>7. b \in Nat /\ b <= t /\ i * SlotWidth <= b
  <2>1. i * SlotWidth \in Nat BY <1>2, <1>6
  <2> QED BY <1>1, <1>3, <1>4, <1>5, <1>6, <2>1, TimeAssumption DEF StartIn
<1> HIDE DEF b
<1> DEFINE lastOfT == SlotIndex(t + q.duration - 1)
           lastOfB == SlotIndex(b + q.duration - 1)
<1>8. lastOfT \in Nat /\ lastOfB \in Nat /\ i <= lastOfT /\ lastOfB <= lastOfT
  <2>1. t + q.duration - 1 \in Int /\ b + q.duration - 1 \in Int /\ t <= t + q.duration - 1
        /\ b + q.duration - 1 <= t + q.duration - 1
    BY <1>1, <1>5, <1>7
  <2> QED BY <1>5, <2>1, SlotIndexType, SlotIndexMonotone DEF i
<1>9. ASSUME NEW j \in i .. lastOfT
      PROVE  /\ j \in Window(NewStart) /\ j \in Int
             /\ SlidSlots[Ring(j)].load + q.capacity <= SlidSlots[Ring(j)].capacity
             /\ SlidSlots[Ring(j)].load \in Nat /\ SlidSlots[Ring(j)].capacity = Capacity
             /\ SlidSlots[Ring(j)].capacity \in Nat
  <2>1. j \in Int BY <1>6, <1>8
  <2>2. Ring(j) \in RingIndex BY <2>1, RingDivision
  <2> QED BY <1>3, <2>1, <2>2, SlidLoads, GridAssumption DEF RoomAt, i, lastOfT
<1>10. Searchable(SlidSlots, q)
  <2>1. BookingStart(q) <= BookingEnd(q) BY <1>1, <1>3, <1>4, <1>5
  <2>2. q.capacity <= Capacity
    BY <1>1, <1>6, <1>8, <1>9, GridAssumption
  <2>3. SlidSlots[0].capacity = Capacity
    BY <1>2, SlidLoads DEF RingIndex
  <2> QED BY <1>4, <2>1, <2>2, <2>3 DEF Searchable
<1>11. i \in EarliestSlot(q) .. LatestSlot(q)
  <2> DEFINE e == SlotIndex(BookingStart(q))
             l == SlotIndex(BookingEnd(q) - q.duration)
  <2>1. e \in Nat /\ e <= i
    BY <1>3, <1>4, <1>5, SlotIndexType, SlotIndexMonotone DEF i
  <2>2. l \in Nat /\ i <= l /\ NewStart <= l
    <3>1. BookingEnd(q) - q.duration \in Int /\ t <= BookingEnd(q) - q.duration
      BY <1>1, <1>3, <1>4, <1>5
    <3> QED BY <1>5, <3>1, SlotIndexType, SlotIndexMonotone DEF InTime, i, q
  <2>3. i <= WindowEnd(NewStart)
    <3>1. i \in Window(NewStart) BY <1>6, <1>8, <1>9
    <3> QED BY <1>2, <1>6, <3>1 DEF Window
  <2> HIDE DEF e, l
  <2>4. EarliestSlot(q) \in Int /\ EarliestSlot(q) <= i
    BY <1>2, <1>6, <2>1, <2>3 DEF EarliestSlot, Effective, e
  <2>5. LatestSlot(q) \in Int /\ i <= LatestSlot(q)
    BY <1>2, <1>6, <2>2, <2>3 DEF LatestSlot, Effective, l
  <2> QED BY <1>6, <2>4, <2>5
<1>12. RigidFits(SlidSlots, q, i)
  <2> SUFFICES ASSUME NEW j \in i .. lastOfB
               PROVE  Available(SlidSlots, j, q.capacity) = q.capacity
    BY DEF RigidFits, lastOfB, b
  <2>1. j \in i .. lastOfT BY <1>6, <1>8
  <2>2. SlidSlots[Ring(j)].capacity - SlidSlots[Ring(j)].load >= q.capacity
    BY <1>1, <1>9, <2>1
  <2> QED BY <1>9, <2>1, <2>2 DEF Available
<1>13. [begin |-> b, end |-> b + q.duration] \in Candidates(SlidSlots, q)
  <2>1. Ends(SlidSlots, q, i) = {b + q.duration} BY <1>12 DEF Ends, q, b
  <2> QED BY <1>10, <1>11, <2>1 DEF Candidates, b
<1> QED BY <1>7, <1>13 DEF q

\* A candidate of a rigid request in time starts at a second at which it fits.
LEMMA OfferedIsRoom ==
  ASSUME SearchInv, NEW r \in Reservations, ~ res[r].moldable, InTime(res[r]),
         NEW c \in Candidates(SlidSlots, res[r])
  PROVE  c.begin \in PossibleStarts(res[r])
<1> DEFINE q == res[r]
<1>1. /\ TypeOK /\ q \in ReservationType /\ q.duration \in Int /\ q.capacity \in Int
      /\ q.duration >= 1 /\ q.capacity >= 1
  BY DEF SearchInv, LoadInv, TypeOK, ProperStore, ReservationType
<1>2. /\ NewStart \in Nat /\ NumberOfSlots \in Nat \ {0} /\ SlotWidth \in Nat \ {0}
      /\ WindowEnd(NewStart) \in Nat
  BY <1>1, SlideType, GridAssumption DEF WindowEnd
<1>3. PICK i \in EarliestSlot(q) .. LatestSlot(q) :
         \E e \in Ends(SlidSlots, q, i) : c = [begin |-> StartIn(q, i), end |-> e]
  BY DEF Candidates
<1>4. 0 <= BookingStart(q) BY DEF Candidates, Searchable
<1> DEFINE b == StartIn(q, i)
           last == SlotIndex(b + q.duration - 1)
<1>5. /\ i \in Nat /\ NewStart <= i /\ i <= WindowEnd(NewStart)
      /\ b \in Nat /\ BookingStart(q) <= b /\ b + q.duration <= BookingEnd(q)
  BY <1>1, <1>3, <1>4, SearchedSlots
<1>6. RigidFits(SlidSlots, q, i) /\ c.begin = b
  BY <1>3 DEF Ends
<1>7. i * SlotWidth <= b
  <2>1. q.bookingStart \in Int /\ i * SlotWidth \in Nat BY <1>1, <1>2, <1>5 DEF ReservationType
  <2> QED BY <2>1 DEF StartIn
<1> HIDE DEF q, b
<1>8. /\ SlotIndex(b) \in Nat /\ i <= SlotIndex(b)
      /\ last \in Nat /\ SlotIndex(b) <= last
  <2>1. b \in Int /\ b + q.duration - 1 \in Int /\ b <= b + q.duration - 1 BY <1>1, <1>5
  <2> QED BY <1>5, <1>7, <2>1, SlotIndexType, SlotIndexMonotone, SlotIndexLower
<1>9. ASSUME NEW j \in i .. last
      PROVE  /\ j \in Window(NewStart)
             /\ SlidSlots[Ring(j)].load + q.capacity <= SlidSlots[Ring(j)].capacity
  <2>1. Available(SlidSlots, j, q.capacity) = q.capacity
    BY <1>6 DEF RigidFits, last, b
  <2>2. j \in Window(NewStart) BY <1>1, <2>1 DEF Available
  <2>3. j \in Int BY <1>5, <1>8
  <2>4. SlidSlots[Ring(j)].load \in Nat /\ SlidSlots[Ring(j)].capacity \in Nat
    BY <2>3, RingDivision, SlidLoads, GridAssumption
  <2>5. SlidSlots[Ring(j)].capacity - SlidSlots[Ring(j)].load >= q.capacity
    BY <1>1, <2>1, <2>2, <2>4 DEF Available
  <2> QED BY <1>1, <2>2, <2>4, <2>5
<1>10. RoomAt(q, b)
  BY <1>5, <1>8, <1>9 DEF RoomAt, last
<1>11. b \in WindowTimes(NewStart)
  <2>1. SlotIndex(b) <= WindowEnd(NewStart)
    <3>1. SlotIndex(b) \in Window(NewStart) BY <1>5, <1>8, <1>9
    <3> QED BY <1>2, <1>8, <3>1 DEF Window, WindowEnd
  <2>2. SlotIndex(b) = b \div SlotWidth BY <1>5 DEF SlotIndex
  <2>3. b < SlotWidth * (b \div SlotWidth) + SlotWidth
    BY <1>2, <1>5
  <2>4. SlotWidth * (b \div SlotWidth) <= SlotWidth * WindowEnd(NewStart)
    BY <1>2, <1>8, <2>1, <2>2
  <2>5. NewStart * SlotWidth <= i * SlotWidth BY <1>2, <1>5
  <2>6. NewStart * SlotWidth \in Nat /\ i * SlotWidth \in Nat
        /\ SlotWidth * WindowEnd(NewStart) \in Nat
        /\ SlotWidth * WindowEnd(NewStart) = WindowEnd(NewStart) * SlotWidth
        /\ SlotWidth * (b \div SlotWidth) \in Nat
    BY <1>2, <1>5, <1>8, <2>2
  <2>7. NewStart * SlotWidth <= b BY <1>5, <1>7, <2>5, <2>6
  <2>8. b <= WindowEnd(NewStart) * SlotWidth + SlotWidth - 1
    BY <1>2, <1>5, <2>3, <2>4, <2>6
  <2> QED BY <1>2, <1>5, <2>6, <2>7, <2>8 DEF WindowTimes
<1> QED BY <1>5, <1>6, <1>10, <1>11 DEF PossibleStarts, q

\* calculate_schedule and the EST comparator: a rigid request in time is
\* rejected only if there is no second at which it fits, and otherwise gets
\* the earliest one, although the search tries one start per slot.
THEOREM SearchIsComplete ==
  ASSUME Simulated, Proper
  PROVE  Spec => SearchIsExact
<1> DEFINE exact(r) ==
             ~ res[r].moldable /\ InTime(res[r]) =>
               /\ ReserveFails(r) => PossibleStarts(res[r]) = {}
               /\ ReserveSucceeds(r) => res'[r].assignedStart = Min(PossibleStarts(res[r]))
<1>1. Init => SearchInv
  <2> SUFFICES ASSUME Init PROVE SearchInv
    OBVIOUS
  <2>1. TypeOK BY InitType
  <2>2. LoadIsBooked BY <2>1, CapacityOfSets DEF Init, LoadIsBooked
  <2>3. ProperStore BY DEF Init, Proper, ProperStore, Submitted
  <2>4. Uniform BY DEF Init, Uniform
  <2> QED BY <2>1, <2>2, <2>3, <2>4 DEF SearchInv, LoadInv
<1>2. SearchInv /\ [Next]_vars => SearchInv' BY SearchNext
<1>3. ASSUME SearchInv, NEW r \in Reservations, ~ res[r].moldable, InTime(res[r])
      PROVE  /\ ReserveFails(r) => PossibleStarts(res[r]) = {}
             /\ ReserveSucceeds(r) => res'[r].assignedStart = Min(PossibleStarts(res[r]))
  <2>1. ASSUME ReserveFails(r) PROVE PossibleStarts(res[r]) = {}
    BY <1>3, <2>1, RoomIsOffered DEF ReserveFails
  <2>2. ASSUME ReserveSucceeds(r)
        PROVE  res'[r].assignedStart = Min(PossibleStarts(res[r]))
    <3> DEFINE starts == PossibleStarts(res[r])
    <3>1. TypeOK /\ res[r] \in ReservationType /\ SlidRes \in [Reservations -> ReservationType]
      BY <1>3, SlideType DEF SearchInv, LoadInv, TypeOK
    <3>2. PICK c \in EarliestOf(Candidates(SlidSlots, res[r])) :
             res' = [SlidRes EXCEPT ![r] = Promoted(res[r], c)]
      BY <2>2 DEF ReserveSucceeds
    <3>3. c \in Candidates(SlidSlots, res[r]) BY <3>2 DEF EarliestOf
    <3>4. res'[r].assignedStart = c.begin
      BY <3>1, <3>2 DEF Promoted, ReservationType
    <3>5. c.begin \in starts BY <1>3, <3>3, OfferedIsRoom
    <3>6. starts \subseteq Int
      <4>1. NewStart \in Nat BY <3>1, SlideType
      <4> QED BY <4>1, GridAssumption DEF PossibleStarts, WindowTimes, WindowEnd
    <3>7. ASSUME NEW t \in starts PROVE c.begin <= t
      <4>1. PICK d \in Candidates(SlidSlots, res[r]) : d.begin <= t
        BY <1>3, RoomIsOffered
      <4>2. c.begin <= d.begin BY <3>2, <4>1 DEF EarliestOf
      <4>3. c.begin \in Int /\ d.begin \in Int BY <3>1, <3>3, CandidateType
      <4> QED BY <3>6, <4>1, <4>2, <4>3
    <3> HIDE DEF starts
    <3>8. \A t \in starts : (\A u \in starts : t <= u) => t = c.begin
      <4> SUFFICES ASSUME NEW t \in starts, \A u \in starts : t <= u PROVE t = c.begin
        OBVIOUS
      <4>1. t <= c.begin /\ c.begin <= t /\ t \in Int /\ c.begin \in Int
        BY <3>5, <3>6, <3>7
      <4> QED BY <4>1
    <3>9. Min(starts) = c.begin BY <3>5, <3>7, <3>8 DEF Min
    <3> QED BY <3>4, <3>9 DEF starts
  <2> QED BY <2>1, <2>2
<1>4. SearchInv /\ [Next]_vars => [\A r \in Reservations : exact(r)]_vars
  BY <1>3
<1>5. [\A r \in Reservations : exact(r)]_vars
      => [\A r \in Reservations :
             LET q == res[r]
             IN  ~ q.moldable /\ InTime(q) =>
                   /\ ReserveFails(r) => PossibleStarts(q) = {}
                   /\ ReserveSucceeds(r) => res'[r].assignedStart = Min(PossibleStarts(q))]_vars
  OBVIOUS
<1> QED BY <1>1, <1>2, <1>4, <1>5, PTL DEF Spec, SearchIsExact

-----------------------------------------------------------------------------
(* The schedule is a calendar *)

\* The sum is the same one in the abstract module.
LEMMA CalendarSum ==
  ASSUME NEW w, NEW S
  PROVE  Calendar!SumFunctionOnSet(w, S) = SumFunctionOnSet(w, S)
BY DEF Calendar!SumFunctionOnSet, Calendar!FoldFunctionOnSet, Calendar!MapThenFoldSet,
       SumFunctionOnSet, FoldFunctionOnSet, MapThenFoldSet

ImplInv == CalendarInv /\ LoadInv /\ Uniform

\* The bookings that an operation finds, once it has let the time pass.
LEMMA CurrentIs ==
  ASSUME CalendarInv
  PROVE  Calendar!Current(NewStart) = [r \in SlidKept |-> BookingOf(res[r])]
<1>1. \A r \in active : LastSlot(res[r]) \in Int /\ NewStart \in Int
  BY SpanTypes DEF CalendarInv, TypeOK
<1>2. {r \in Kept : NewStart <= LastSlot(res[r])} = SlidKept
  <2>1. ASSUME NEW r \in Kept, NewStart <= LastSlot(res[r]) PROVE r \notin Expired
    <3> SUFFICES ASSUME NEW i \in LeavingSlots, LastSlot(res[r]) = i PROVE FALSE
      BY DEF Expired
    <3>1. i < NewStart BY DEF LeavingSlots
    <3> QED BY <1>1, <2>1, <3>1 DEF Kept
  <2>2. SlidKept = Kept \ Expired BY SpanTypes DEF CalendarInv
  <2>3. \A r \in SlidKept : r \in Kept /\ NewStart <= LastSlot(res[r])
    BY <1>1, <2>2, SlideKeepsBookings DEF Kept
  <2> QED BY <2>1, <2>2, <2>3
<1>3. \A r \in Kept : Bookings[r] = BookingOf(res[r]) /\ Bookings[r].last = LastSlot(res[r])
  BY DEF Bookings, BookingOf, Kept
<1>4. DOMAIN Bookings = Kept BY DEF Bookings, Kept
<1>5. {r \in DOMAIN Bookings : NewStart <= Bookings[r].last} = SlidKept
  BY <1>2, <1>3, <1>4
<1>6. Calendar!Current(NewStart) = [x \in SlidKept |-> Bookings[x]]
  BY <1>5 DEF Calendar!Current, Calendar!Restrict
<1>7. SlidKept \subseteq Kept BY SpanTypes DEF CalendarInv
<1> QED BY <1>3, <1>6, <1>7

\* The load of a slot is what the calendar adds up.
LEMMA LoadInCalendar ==
  ASSUME ImplInv, NEW i \in Window(NewStart)
  PROVE  /\ Calendar!Load([r \in SlidKept |-> BookingOf(res[r])], i) = SlidSlots[Ring(i)].load
         /\ SlidSlots[Ring(i)].load \in Nat
         /\ SlidSlots[Ring(i)].capacity = Capacity
<1> DEFINE book == [r \in SlidKept |-> BookingOf(res[r])]
           units == [r \in DOMAIN book |-> book[r].units]
           at == {r \in DOMAIN book : book[r].first <= i /\ i <= book[r].last}
           k == Ring(i)
<1>1. TypeOK /\ RigidStore BY DEF ImplInv, CalendarInv
<1>2. k \in RingIndex
  <2>1. i \in Int BY <1>1, SlideType, GridAssumption DEF Window
  <2> QED BY <2>1, RingDivision
<1>3. \A r \in SlidKept : /\ book[r].first = FirstSlot(res[r])
                          /\ book[r].last = LastSlot(res[r])
                          /\ book[r].units = res[r].capacity
  BY DEF BookingOf
<1>4. DOMAIN book = SlidKept OBVIOUS
<1> HIDE DEF book
<1>5. at = SlidSlots[k].ids
  <2>1. SlidSlots[k].ids = {r \in SlidKept : i \in Span(NewStart, res[r])}
    BY SlideKeepsBookings DEF ImplInv
  <2>2. \A r \in SlidKept :
          i \in Span(NewStart, res[r]) <=> FirstSlot(res[r]) <= i /\ i <= LastSlot(res[r])
    BY DEF Span
  <2> QED BY <1>3, <1>4, <2>1, <2>2
<1>6. at \subseteq Reservations /\ IsFiniteSet(at) /\ at \subseteq SlidKept
  <2>1. SlidKept \subseteq Reservations BY <1>1, SlideType, SpanTypes
  <2>2. at \subseteq SlidKept BY <1>4
  <2> HIDE DEF at
  <2> QED BY <2>1, <2>2, ReservationsAssumption, FS_Subset
<1>7. \A r \in at : units[r] = Capacities[r] /\ Capacities[r] \in Nat
  <2>1. ASSUME NEW r \in at PROVE units[r] = res[r].capacity
    BY <1>3, <1>4
  <2>2. ASSUME NEW r \in at PROVE Capacities[r] = res[r].capacity /\ res[r].capacity \in Nat
    <3>1. r \in Reservations BY <1>6
    <3>2. res[r].capacity \in Int /\ res[r].capacity >= 1
      BY <1>1, <3>1 DEF TypeOK, RigidStore, ReservationType
    <3> QED BY <3>1, <3>2 DEF Capacities
  <2> HIDE DEF at, units
  <2> QED BY <2>1, <2>2
<1>8. Calendar!Load(book, i) = SumFunctionOnSet(units, at)
  BY CalendarSum DEF Calendar!Load
<1> HIDE DEF at, units, k
<1>9. SumFunctionOnSet(units, at) = CapacityOf(at) /\ CapacityOf(at) \in Nat
  BY <1>6, <1>7, SumEqual, SumNat DEF CapacityOf
<1>10. /\ Balanced(SlidSlots[k]) /\ SlidSlots[k].capacity = Capacity
  <2>1. slots[k] \in SlotType /\ Balanced(slots[k]) /\ slots[k].capacity = Capacity
    BY <1>1, <1>2 DEF ImplInv, LoadInv, TypeOK, LoadIsBooked, Balanced, Uniform
  <2>2. SlidSlots[k] \in {slots[k], SlotReset(slots[k])} BY <1>2 DEF SlidSlots
  <2> QED BY <1>1, <2>1, <2>2, SlotOperationsBalance, SlotResetType
<1>11. SlidSlots[k].load = CapacityOf(at) BY <1>5, <1>10 DEF Balanced
<1> QED BY <1>8, <1>9, <1>10, <1>11 DEF book, k

\* A reserve of what is not active enters a booking where the calendar has room.
LEMMA ReserveBooks ==
  ASSUME ImplInv, NEW r \in Reservations, ReserveSucceeds(r), r \notin SlidActive
  PROVE  Calendar!Book(r)
<1> DEFINE book == [x \in SlidKept |-> BookingOf(res[x])]
<1>1. TypeOK /\ RigidStore BY DEF ImplInv, CalendarInv
<1>2. start' = NewStart /\ active' \ rebooked' = SlidKept \union {r}
  <2>1. r \notin SlidRebooked BY <1>1, SlideType
  <2> QED BY <2>1 DEF ReserveSucceeds, Slide, SlidKept
<1>3. PICK c \in Candidates(SlidSlots, res[r]) : res' = [SlidRes EXCEPT ![r] = Promoted(res[r], c)]
  BY DEF ReserveSucceeds, EarliestOf
<1> DEFINE q == Promoted(res[r], c)
<1>4. q \in ReservationType BY <1>1, CandidateType, PromotedType
<1>5. /\ NewStart <= FirstSlot(q) /\ FirstSlot(q) <= LastSlot(q)
      /\ LastSlot(q) <= WindowEnd(NewStart)
      /\ \A j \in Span(NewStart, q) :
            SlidSlots[Ring(j)].load + q.capacity <= SlidSlots[Ring(j)].capacity
  BY <1>1, RigidCandidateFits
<1>6. r \notin SlidKept BY <1>1, SpanTypes
<1>7. /\ res'[r] = q /\ \A x \in SlidKept : res'[x] = res[x]
  <2>1. SlidRes \in [Reservations -> ReservationType] BY <1>1, SlideType
  <2>2. SlidKept \subseteq Reservations BY <1>1, SlideType, SpanTypes
  <2>3. \A x \in SlidKept : SlidRes[x] = res[x] BY <1>1, SpanTypes
  <2> QED BY <1>3, <1>6, <2>1, <2>2, <2>3
<1>8. q.capacity = res[r].capacity /\ q.capacity \in Int /\ q.capacity >= 1
  BY <1>1 DEF Promoted, TypeOK, RigidStore, ReservationType
<1> HIDE DEF q
<1> DEFINE first == FirstSlot(q)
           last == LastSlot(q)
           units == q.capacity
<1>9. /\ first \in Nat /\ last \in Nat /\ NewStart \in Nat /\ NumberOfSlots \in Nat \ {0}
      /\ WindowEnd(NewStart) = NewStart + NumberOfSlots - 1
  <2>1. q.assignedStart \in Int /\ q.assignedEnd - 1 \in Int BY <1>4 DEF ReservationType
  <2> QED BY <1>1, <2>1, SlotIndexType, SlideType, GridAssumption
      DEF FirstSlot, LastSlot, WindowEnd
<1>10. ASSUME NEW i \in first .. last
       PROVE  Calendar!Load(book, i) + units <= Capacity /\ Calendar!Load(book, i) \in Nat
  <2>1. i \in Window(NewStart) /\ i \in Span(NewStart, q)
    BY <1>5, <1>9 DEF Window, Span
  <2>2. SlidSlots[Ring(i)].load + q.capacity <= SlidSlots[Ring(i)].capacity
    BY <1>5, <2>1
  <2> QED BY <2>1, <2>2, LoadInCalendar
<1>11. /\ last \in start' .. start' + NumberOfSlots - 1 /\ first \in start' .. last
  BY <1>2, <1>5, <1>9
<1>12. units \in 1 .. Capacity
  <2>1. first \in first .. last BY <1>5, <1>9
  <2>2. Calendar!Load(book, first) + units <= Capacity /\ Calendar!Load(book, first) \in Nat
    BY <1>10, <2>1
  <2> QED BY <1>8, <2>2, GridAssumption
<1>13. Calendar!Current(start') = book BY <1>2, CurrentIs DEF ImplInv
<1>14. DOMAIN book = SlidKept /\ \A x \in SlidKept : book[x] = BookingOf(res[x])
  OBVIOUS
<1>15. BookingOf(q) = [first |-> first, last |-> last, units |-> units]
  BY DEF BookingOf
<1>16. Bookings' = [x \in SlidKept \union {r} |-> BookingOf(res'[x])]
  BY <1>2 DEF Bookings
<1> HIDE DEF first, last, units, book
<1>17. Bookings' = [x \in DOMAIN book \union {r} |->
                      IF x = r THEN [first |-> first, last |-> last, units |-> units]
                      ELSE book[x]]
  BY <1>6, <1>7, <1>14, <1>15, <1>16
<1>18. Calendar!Room(book, first, last, units) BY <1>10 DEF Calendar!Room
<1> QED BY <1>6, <1>11, <1>12, <1>13, <1>14, <1>17, <1>18 DEF Calendar!Book

LEMMA CalendarStep ==
  ASSUME Simulated, ImplInv, [Next]_vars
  PROVE  [Calendar!Next]_(Calendar!vars)
<1>1. /\ TypeOK /\ start \in Nat /\ NewStart \in Nat /\ start <= NewStart
      /\ SlidKept \subseteq Reservations
      /\ SlidKept \subseteq SlidActive
      /\ SlidRes \in [Reservations -> ReservationType]
      /\ \A r \in SlidActive : SlidRes[r] = res[r]
  BY SlideType, SpanTypes DEF ImplInv, CalendarInv, WindowBehind, TypeOK
<1>2. Calendar!Current(NewStart) = [r \in SlidKept |-> BookingOf(res[r])]
  BY CurrentIs DEF ImplInv
<1>3. ASSUME UNCHANGED <<start, active, rebooked>>,
             \A r \in active : BookingOf(res'[r]) = BookingOf(res[r])
      PROVE  UNCHANGED Calendar!vars
  BY <1>3 DEF Calendar!vars, Bookings
<1>4. ASSUME Slide, active' \ rebooked' = SlidKept,
             \A r \in SlidKept : BookingOf(res'[r]) = BookingOf(res[r])
      PROVE  Calendar!Next
  <2>1. Bookings' = Calendar!Current(NewStart) BY <1>2, <1>4 DEF Bookings
  <2> QED BY <1>1, <1>4, <2>1 DEF Calendar!Next, Calendar!Pass, Slide
<1>5. CASE Update
  BY <1>1, <1>4, <1>5 DEF Update, SlidKept
<1>6. CASE Clear
  <2>1. Bookings' = [r \in {} |-> {}] BY <1>6 DEF Clear, Bookings
  <2> QED BY <1>1, <1>6, <2>1 DEF Clear, Slide, Calendar!Next, Calendar!Clear, Calendar!NoBookings
<1>7. ASSUME NEW r \in Reservations, Probe(r) \/ ReserveFails(r) PROVE Calendar!Next
  <2>1. PICK state \in ReservationState : res' = [SlidRes EXCEPT ![r].state = state]
    BY <1>7 DEF Probe, ReserveFails, ReservationState
  <2>2. \A x \in Reservations : /\ res'[x].assignedStart = SlidRes[x].assignedStart
                                /\ res'[x].assignedEnd = SlidRes[x].assignedEnd
                                /\ res'[x].capacity = SlidRes[x].capacity
    BY <1>1, <2>1 DEF ReservationType
  <2>3. \A x \in SlidKept : BookingOf(res'[x]) = BookingOf(res[x])
    BY <1>1, <2>2 DEF BookingOf, FirstSlot, LastSlot
  <2> QED BY <1>4, <1>7, <2>3 DEF Probe, ReserveFails, SlidKept
<1>8. ASSUME NEW r \in Reservations, ReserveSucceeds(r) PROVE Calendar!Next
  <2>1. Slide /\ start' = NewStart BY <1>8 DEF ReserveSucceeds, Slide
  <2>2. CASE r \notin SlidActive
    BY <1>1, <1>8, <2>1, <2>2, ReserveBooks DEF Calendar!Next
  <2>3. CASE r \in SlidActive
    <3>1. active' \ rebooked' = SlidKept \ {r}
      BY <1>8, <2>3 DEF ReserveSucceeds, SlidKept
    <3>2. \A x \in SlidKept \ {r} : res'[x] = res[x]
      BY <1>1, <1>8 DEF ReserveSucceeds
    <3>3. CASE r \in SlidKept
      <4>1. Bookings' = [x \in SlidKept \ {r} |-> BookingOf(res[x])]
        BY <3>1, <3>2 DEF Bookings
      <4>2. Calendar!Cancel(r)
        BY <1>2, <2>1, <3>3, <4>1 DEF Calendar!Cancel, Calendar!Restrict
      <4> QED BY <1>1, <2>1, <4>2 DEF Calendar!Next
    <3>4. CASE r \notin SlidKept
      <4>1. SlidKept \ {r} = SlidKept BY <3>4
      <4> QED BY <1>4, <2>1, <3>1, <3>2, <4>1
    <3> QED BY <3>3, <3>4
  <2> QED BY <2>2, <2>3
<1>9. ASSUME NEW r \in Reservations, DeleteEnded(r) PROVE Calendar!Next
  BY <1>1, <1>4, <1>9 DEF DeleteEnded, Update, SlidKept
<1>10. ASSUME NEW r \in Reservations, DeleteActive(r) PROVE Calendar!Next
  <2>1. /\ Slide /\ start' = NewStart
        /\ active' \ rebooked' = SlidKept \ {r}
        /\ res' = [SlidRes EXCEPT ![r].state = "Deleted"]
    BY <1>10 DEF DeleteActive, Slide, SlidKept
  <2>2. \A x \in SlidKept \ {r} : res'[x] = res[x] BY <1>1, <2>1
  <2>3. CASE r \in SlidKept
    <3>1. Bookings' = [x \in SlidKept \ {r} |-> BookingOf(res[x])]
      BY <2>1, <2>2 DEF Bookings
    <3>2. Calendar!Cancel(r)
      BY <1>2, <2>1, <2>3, <3>1 DEF Calendar!Cancel, Calendar!Restrict
    <3> QED BY <1>1, <2>1, <3>2 DEF Calendar!Next
  <2>4. CASE r \notin SlidKept
    <3>1. SlidKept \ {r} = SlidKept BY <2>4
    <3> QED BY <1>4, <2>1, <2>2, <3>1
  <2> QED BY <2>3, <2>4
<1>11. ASSUME NEW r \in Reservations,
              DeleteUnknown(r) \/ Commit(r) \/ Finish(r) \/ Reopen(r)
       PROVE  UNCHANGED Calendar!vars
  <2>1. \A x \in Reservations : /\ res'[x].assignedStart = res[x].assignedStart
                                /\ res'[x].assignedEnd = res[x].assignedEnd
                                /\ res'[x].capacity = res[x].capacity
    BY <1>1, <1>11 DEF DeleteUnknown, Commit, Finish, Reopen, TypeOK, ReservationType
  <2>2. \A x \in active : BookingOf(res'[x]) = BookingOf(res[x])
    BY <1>1, <2>1 DEF BookingOf, FirstSlot, LastSlot, TypeOK
  <2>3. UNCHANGED <<start, active, rebooked>> BY <1>11 DEF DeleteUnknown, Commit, Finish, Reopen
  <2> QED BY <1>3, <2>2, <2>3
<1>12. CASE Tick \/ UNCHANGED vars
  BY <1>3, <1>12 DEF Tick, vars
<1> QED BY <1>5, <1>6, <1>7, <1>8, <1>9, <1>10, <1>11, <1>12 DEF Next, Simulated

\* Ring, window and search implement a calendar without an end: a booking is
\* made only where there is room in each of its slots, and stays as it is until
\* it is cancelled, the schedule is cleared, or its last slot is past.
THEOREM ScheduleIsCalendar ==
  ASSUME Simulated, Rigid
  PROVE  Spec => IsCalendar
<1>1. Init => ImplInv
  <2> SUFFICES ASSUME Init PROVE ImplInv
    OBVIOUS
  <2>1. TypeOK BY InitType
  <2>2. LoadIsBooked BY <2>1, CapacityOfSets DEF Init, LoadIsBooked
  <2>3. Uniform BY DEF Init, Uniform
  <2> QED BY <2>1, <2>2, <2>3, CalendarInit DEF ImplInv, LoadInv
<1>2. ImplInv /\ [Next]_vars => ImplInv'
  BY CalendarNext, LoadNext, UniformNext DEF ImplInv, LoadInv
<1>3. Init => Calendar!Init
  <2> SUFFICES ASSUME Init PROVE Calendar!Init
    OBVIOUS
  <2>1. start \in Nat BY InitType DEF TypeOK
  <2>2. Bookings = [r \in {} |-> {}] BY DEF Init, Bookings
  <2> QED BY <2>1, <2>2 DEF Calendar!Init, Calendar!NoBookings
<1>4. ImplInv /\ [Next]_vars => [Calendar!Next]_(Calendar!vars)
  BY CalendarStep
<1> QED BY <1>1, <1>2, <1>3, <1>4, PTL DEF Spec, IsCalendar, Calendar!Spec

=============================================================================
