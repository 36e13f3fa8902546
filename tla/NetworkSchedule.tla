--------------------------- MODULE NetworkSchedule ---------------------------
(***************************************************************************)
(* The network of one site: the paths that NetworkTopology finds between   *)
(* the grid access points when the site is built, and the schedule         *)
(* (SlottedScheduleContext with the LinkStrategy) that books reservations  *)
(* of bandwidth on them.  Each link has a schedule of its own, which the   *)
(* LinkStrategy reads and fills, slot by slot.                             *)
(*                                                                         *)
(* The unit of time is the slot: which slots an interval in seconds        *)
(* touches is a matter of SlottedSchedule.  The schedule is built at       *)
(* time 0, where a simulation begins.                                      *)
(***************************************************************************)
EXTENDS Integers, Sequences, SequencesExt, FiniteSets, FiniteSetsExt, Functions

CONSTANTS
    Routers,
    AccessPoints,       \* the routers of grid nodes
    Elsewhere,          \* names of no router
    Links,
    Source, Target,     \* the ends of each link
    Bandwidth,          \* capacity of each link
    K,                  \* K_NUMBER_OF_PATHS
    Reservations,
    Requests,           \* what may be asked of the network
    NumberOfSlots,
    MaxTime             \* bound of the clock

ASSUME TopologyAssumption ==
    /\ IsFiniteSet(Routers)
    /\ AccessPoints \subseteq Routers /\ Elsewhere \intersect Routers = {}
    /\ Source \in [Links -> Routers] /\ Target \in [Links -> Routers]
    /\ \A l \in Links : Source[l] # Target[l]
    /\ Bandwidth \in [Links -> Nat]
    /\ IsFiniteSet(Links) /\ K \in Nat \ {0}

RequestType ==
    [from : Routers \union Elsewhere, to : Routers \union Elsewhere,
     start : Nat, end : Nat, duration : Nat \ {0}, capacity : Nat \ {0}, moldable : BOOLEAN]

ASSUME RequestsAssumption ==
    /\ Requests \subseteq RequestType
    /\ NumberOfSlots \in Nat \ {0} /\ MaxTime \in Nat

VARIABLES
    pairs,          \* pairs of access points not yet looked at
    pair,           \* the pair whose paths are being searched
    queue,          \* paths from its source that lead on
    found,          \* found_solutions
    pathCache,      \* path_cache
    maxBandwidth,   \* max_bandwidth_all_paths
    clock,
    start,          \* start_slot_index of the network's schedule
    active,         \* active_reservations
    res,            \* the reservations in the ReservationStore
    held,           \* the reservations in each slot of the network's schedule
    carried,        \* the same for the schedule of each link
    reservedPaths,  \* reserved_paths
    rebooked        \* history: reserved again while they were active

topology == <<pairs, pair, queue, found, pathCache, maxBandwidth>>
schedule == <<start, active, res, held, carried, reservedPaths, rebooked>>
vars == <<topology, clock, schedule>>

AllPairs == {q \in AccessPoints \X AccessPoints : q[1] # q[2]}

NoPair == <<>>

\* All slots the clock can bring into the window
Slots == 0 .. MaxTime + NumberOfSlots - 1

Unused == -1

\* begin and end are the booking interval: that of the request until it is
\* booked, and from then on the one that is booked.
ReservationType ==
    [ask : Requests, state : {"Open", "ReserveAnswer", "Rejected", "Deleted"},
     begin : Int, end : Int]

TypeOK ==
    /\ pairs \subseteq AllPairs /\ pair \in AllPairs \union {NoPair}
    /\ queue \in Seq(Seq(Links)) /\ found \in Seq(Seq(Links))
    /\ pathCache \in [AllPairs -> Seq(Seq(Links))]
    /\ maxBandwidth \in Nat \union {Unused}
    /\ clock \in 0 .. MaxTime /\ start \in 0 .. clock
    /\ active \subseteq Reservations
    /\ res \in [Reservations -> ReservationType]
    /\ held \in [Slots -> SUBSET Reservations]
    /\ carried \in [Links -> [Slots -> SUBSET Reservations]]
    /\ reservedPaths \in [Reservations -> [Slots -> Seq(Links)]]
    /\ rebooked \subseteq active

-----------------------------------------------------------------------------
(* calc_all_paths: breadth-first, over sets whose order is that of a hash  *)
(* map.                                                                    *)

Adjacency(r) == {l \in Links : Source[l] = r}

\* The ways on from the end of p
Extensions(p) ==
    {l \in Adjacency(Target[Last(p)]) : \A i \in DOMAIN p : Source[p[i]] # Target[l]}

Bottleneck(p) == Min({Bandwidth[p[i]] : i \in DOMAIN p})

Begin ==
    /\ pair = NoPair
    /\ \E q \in pairs :
          /\ pair' = q /\ pairs' = pairs \ {q}
          /\ \E o \in SetToSeqs(Adjacency(q[1])) : queue' = [i \in DOMAIN o |-> <<o[i]>>]
    /\ found' = <<>>
    /\ UNCHANGED <<pathCache, maxBandwidth, clock, schedule>>

Searching == pair # NoPair /\ queue # <<>> /\ Len(found) < K

Arrived == Target[Last(Head(queue))] = pair[2]

PathFound ==
    /\ Searching /\ Arrived
    /\ found' = Append(found, Head(queue))
    /\ queue' = Tail(queue)
    /\ UNCHANGED <<pairs, pair, pathCache, maxBandwidth, clock, schedule>>

\* Mutant: depth first.
ExtendDepth ==
    /\ Searching /\ ~ Arrived
    /\ \E o \in SetToSeqs(Extensions(Head(queue))) :
          queue' = [i \in DOMAIN o |-> Append(Head(queue), o[i])] \o Tail(queue)
    /\ UNCHANGED <<pairs, pair, found, pathCache, maxBandwidth, clock, schedule>>

Extend ==
    /\ Searching /\ ~ Arrived
    /\ \E o \in SetToSeqs(Extensions(Head(queue))) :
          queue' = Tail(queue) \o [i \in DOMAIN o |-> Append(Head(queue), o[i])]
    /\ UNCHANGED <<pairs, pair, found, pathCache, maxBandwidth, clock, schedule>>

\* A pair without a path gets no entry.
Cache ==
    /\ pair # NoPair /\ ~ Searching
    /\ pathCache' = [pathCache EXCEPT ![pair] = found]
    /\ maxBandwidth' = Max({maxBandwidth} \union {Bottleneck(found[i]) : i \in DOMAIN found})
    /\ pair' = NoPair /\ queue' = <<>> /\ found' = <<>>
    /\ UNCHANGED <<pairs, clock, schedule>>

Built == pairs = {} /\ pair = NoPair

-----------------------------------------------------------------------------
(* One slot.  Only the window of the network's schedule slides; those of   *)
(* the links are what they were when the site was built.                   *)

Window == clock .. clock + NumberOfSlots - 1

LinkWindow == 0 .. NumberOfSlots - 1

Booked(r) == res[r].begin .. res[r].end - 1

\* Mutant: what was deleted counts no more, but is still carried.
LoadOfActive(l, s) ==
    SumFunctionOnSet([r \in Reservations |-> res[r].ask.capacity], carried[l][s] \intersect active)

Load(l, s) == SumFunctionOnSet([r \in Reservations |-> res[r].ask.capacity], carried[l][s])

\* NodeStrategy::adjust_requirement_to_slot_capacity, for a link
Left(l, s) == IF s \in LinkWindow THEN Bandwidth[l] - Load(l, s) ELSE 0

PathsOf(r) ==
    LET q == <<res[r].ask.from, res[r].ask.to>>
    IN  IF q \in AllPairs THEN ToSet(pathCache[q]) ELSE {}

\* What slot s can give r: all that the best of its paths has left, however
\* little was asked for.  Mutant: what the last link has left counts.
AvailableLast(r, s) ==
    Max({0} \union {Min({maxBandwidth, Left(Last(p), s)}) : p \in PathsOf(r)})

Available(r, s) ==
    Max({0} \union {Min({maxBandwidth} \union {Left(p[i], s) : i \in DOMAIN p}) : p \in PathsOf(r)})

Free(p, r, s) == \A i \in DOMAIN p : res[r].ask.capacity <= Left(p[i], s)

\* Slot::insert_reservation, for slot s of link l, which looks once more
Loaded(l, r, s) ==
    IF res[r].ask.capacity <= Left(l, s) THEN carried[l][s] \union {r} ELSE carried[l][s]

-----------------------------------------------------------------------------
(* update: expired reservations are deleted, slots that leave are emptied. *)

LastSlot(r) == res[r].end - 1

Leaving == {s \in Slots : start <= s /\ s < clock}

Expired == {r \in active : LastSlot(r) \in Leaving /\ r \in held[LastSlot(r)]}

SlidActive == active \ Expired

SlidRebooked == rebooked \ Expired

SlidHeld == [s \in Slots |-> IF s \in Leaving THEN {} ELSE held[s]]

SlidRes == [r \in Reservations |->
               IF r \in Expired THEN [res[r] EXCEPT !.state = "Deleted"] ELSE res[r]]

-----------------------------------------------------------------------------
(* calculate_schedule *)

Nearest(s) == IF s < clock THEN clock ELSE IF s > Max(Window) THEN Max(Window) ELSE s

Later(s, t) == IF s > t THEN s ELSE t

\* A rigid request fits where exactly its capacity is left.
RigidFits(r, s) ==
    \A t \in s .. Later(s, res[r].begin) + res[r].ask.duration - 1 :
        Available(r, t) = res[r].ask.capacity

\* try_fit_reservation for a moldable request begun in slot s: its capacity
\* and duration when the search comes to slot t.
Molded(r, s) ==
    LET shape[t \in s .. Max(Window) + 1] ==
            IF t = s THEN [capacity |-> res[r].ask.capacity, duration |-> res[r].ask.duration]
            ELSE LET m == shape[t - 1]
                     units == Available(r, t - 1)
                 IN  IF units >= m.capacity THEN m
                     ELSE [capacity |-> units,
                           duration |-> IF units = 0 THEN 1
                                        ELSE Max({1, (m.capacity * m.duration) \div units})]
    IN  shape

MoldableEnds(r, s) ==
    LET shape == Molded(r, s)
        begin == Later(s, res[r].begin)
        done == {t \in DOMAIN shape : begin + shape[t].duration <= t}
        final == shape[Min(done)]
    IN  IF done = {} \/ final.capacity = 0 THEN {}
        ELSE {begin + final.duration} \intersect
                 (IF final.capacity = res[r].ask.capacity THEN Nat ELSE Window \intersect 0 .. res[r].end)

Ends(r, s) ==
    IF res[r].ask.moldable THEN MoldableEnds(r, s)
    ELSE IF RigidFits(r, s) THEN {Later(s, res[r].begin) + res[r].ask.duration} ELSE {}

\* can_handle_link_request, which the AcI asks first
CanHandle(q) ==
    \/ q.from = q.to
    \/ q.from \in Elsewhere /\ q.to \in Elsewhere
    \/ <<q.from, q.to>> \in AllPairs
       /\ \E p \in ToSet(pathCache[<<q.from, q.to>>]) :
             q.moldable \/ q.capacity <= Bottleneck(p)

Candidates(r) ==
    LET q == res[r].ask
        earliest == res[r].begin
        latest == res[r].end - q.duration
    IN  IF res[r].end < earliest \/ (~ q.moldable /\ 0 < maxBandwidth /\ maxBandwidth < q.capacity) THEN {}
        ELSE UNION {{[begin |-> Later(s, earliest), end |-> e] : e \in Ends(r, s)} :
                       s \in Nearest(earliest) .. Nearest(latest)}

-----------------------------------------------------------------------------
(* Operations, each of them under the lock of the network's schedule *)

\* Mutant: the current slot has left the window.
SlideNext == start' = clock + 1 /\ active' = SlidActive /\ rebooked' = SlidRebooked

Slide == start' = clock /\ active' = SlidActive /\ rebooked' = SlidRebooked

\* insert_reservation_into_slot: the first path that is free, if there is one
ChosenPath(r, s) ==
    LET q == <<res[r].ask.from, res[r].ask.to>>
        free == {i \in DOMAIN pathCache[q] : Free(pathCache[q][i], r, s)}
    IN  IF q \notin AllPairs \/ free = {} THEN <<>> ELSE pathCache[q][Min(free)]

\* reserve, of a reservation in whatever state: a commit of something that is
\* not waiting for it reserves first (AcI::commit).  What is booked has the
\* capacity that was asked for.  A reservation that is active already is taken
\* out of the slots it was put into, but not off the links.
Reserve(r) ==
    /\ Built /\ CanHandle(res[r].ask)
    /\ LET fitting == Candidates(r)
       IN  \E c \in fitting :
          /\ \A d \in fitting : c.begin <= d.begin
          /\ LET span == c.begin .. c.end - 1
                 path == [s \in Slots |-> IF s \in span THEN ChosenPath(r, s) ELSE <<>>]
             IN  /\ reservedPaths' = [reservedPaths EXCEPT ![r] =
                        [s \in Slots |-> IF path[s] # <<>> THEN path[s] ELSE @[s]]]
                 /\ carried' = [l \in Links |-> [s \in Slots |->
                        IF \E i \in DOMAIN path[s] : path[s][i] = l
                        THEN Loaded(l, r, s) ELSE carried[l][s]]]
                 /\ held' = [s \in Slots |->
                        IF r \in SlidActive /\ s \in span THEN SlidHeld[s] \ {r}
                        ELSE IF path[s] # <<>> THEN SlidHeld[s] \union {r}
                        ELSE SlidHeld[s]]
          /\ res' = [SlidRes EXCEPT ![r] =
                        [@ EXCEPT !.state = "ReserveAnswer", !.begin = c.begin, !.end = c.end]]
    /\ start' = clock
    /\ active' = SlidActive \union {r}
    /\ rebooked' = SlidRebooked \union ({r} \intersect SlidActive)
    /\ UNCHANGED <<topology, clock>>

\* The AcI asks before it reserves, and rejects even what is active.
Infeasible(r) ==
    /\ Built /\ ~ CanHandle(res[r].ask)
    /\ res' = [res EXCEPT ![r].state = "Rejected"]
    /\ UNCHANGED <<topology, clock, start, active, held, carried, reservedPaths, rebooked>>

\* A reserve that fails rejects an active reservation and leaves it booked.
ReserveFails(r) ==
    /\ Built /\ CanHandle(res[r].ask)
    /\ Candidates(r) = {}
    /\ Slide
    /\ res' = [SlidRes EXCEPT ![r].state = "Rejected"]
    /\ held' = SlidHeld
    /\ UNCHANGED <<topology, clock, carried, reservedPaths>>

\* Mutant: the slots are left as they are.
DeleteKept(r) ==
    /\ Built /\ r \in active
    /\ start' = clock
    /\ LET gone == IF res[r].end <= clock THEN {} ELSE {r}
       IN  /\ active' = SlidActive \ gone /\ rebooked' = SlidRebooked \ gone
           /\ res' = [x \in Reservations |->
                  IF x \in gone THEN [res[x] EXCEPT !.state = "Deleted"] ELSE SlidRes[x]]
    /\ held' = SlidHeld
    /\ UNCHANGED <<topology, clock, carried, reservedPaths>>

\* delete_reservation: the slots of the links keep what they carry, since
\* LinkStrategy::on_delete_reservation is called by nobody.
Delete(r) ==
    /\ Built /\ r \in active
    /\ start' = clock
    /\ LET gone == IF res[r].end <= clock THEN {} ELSE {r}
       IN  /\ active' = SlidActive \ gone /\ rebooked' = SlidRebooked \ gone
           /\ res' = [x \in Reservations |->
                  IF x \in gone THEN [res[x] EXCEPT !.state = "Deleted"] ELSE SlidRes[x]]
           /\ held' = [s \in Slots |-> IF s \in Booked(r) THEN SlidHeld[s] \ gone ELSE SlidHeld[s]]
    /\ UNCHANGED <<topology, clock, carried, reservedPaths>>

DeleteUnknown(r) ==
    /\ Built /\ r \notin active /\ res[r].state # "Rejected"
    /\ res' = [res EXCEPT ![r].state = "Rejected"]
    /\ UNCHANGED <<topology, clock, start, active, held, carried, reservedPaths, rebooked>>

Tick ==
    /\ Built /\ clock < MaxTime
    /\ clock' = clock + 1
    /\ UNCHANGED <<topology, schedule>>

\* The load queries begin with an update.
Update ==
    /\ Built
    /\ Slide
    /\ res' = SlidRes /\ held' = SlidHeld
    /\ UNCHANGED <<topology, clock, carried, reservedPaths>>

Init ==
    /\ pairs = AllPairs /\ pair = NoPair /\ queue = <<>> /\ found = <<>>
    /\ pathCache = [q \in AllPairs |-> <<>>]
    /\ maxBandwidth = Unused
    /\ clock = 0 /\ start = 0 /\ active = {}
    /\ res \in [Reservations -> {[ask |-> q, state |-> "Open", begin |-> q.start, end |-> q.end] : q \in Requests}]
    /\ held = [s \in Slots |-> {}]
    /\ carried = [l \in Links |-> [s \in Slots |-> {}]]
    /\ reservedPaths = [r \in Reservations |-> [s \in Slots |-> <<>>]]
    /\ rebooked = {}

Next ==
    \/ Begin \/ PathFound \/ Extend \/ Cache
    \/ Tick \/ Update
    \/ \E r \in Reservations : Reserve(r) \/ Infeasible(r) \/ ReserveFails(r) \/ Delete(r) \/ DeleteUnknown(r)

Spec == Init /\ [][Next]_vars

-----------------------------------------------------------------------------
(* Properties *)

IsPath(p, q) ==
    /\ Source[p[1]] = q[1] /\ Target[Last(p)] = q[2]
    /\ \A i \in 1 .. Len(p) - 1 : Target[p[i]] = Source[p[i + 1]]

VisitsNoRouterTwice(p) ==
    /\ \A i, j \in DOMAIN p : Source[p[i]] = Source[p[j]] => i = j
    /\ \A i \in DOMAIN p : Source[p[i]] # Target[Last(p)]

\* All walks along a router at most once, listed for TLC to keep
Loopfree ==
    {p \in {w : w \in UNION {[1 .. n -> Links] : n \in 1 .. Cardinality(Routers) - 1}} :
        VisitsNoRouterTwice(p)}

\* Every way between two access points, by definition
SimplePaths == [q \in AllPairs |-> {p \in Loopfree : IsPath(p, q)}]

\* The cache has the K shortest loop-free paths of each pair, or all of them,
\* the shortest first, in whatever order the sets are read
\* (calc_k_shortest_paths).
KShortest ==
    \A q \in AllPairs \ (pairs \union {pair}) :
        LET cached == ToSet(pathCache[q])
        IN  /\ cached \subseteq SimplePaths[q]
            /\ Cardinality(cached) = Len(pathCache[q])
            /\ Len(pathCache[q]) = Min({K, Cardinality(SimplePaths[q])})
            /\ \A p \in SimplePaths[q] \ cached, c \in cached : Len(c) <= Len(p)
            /\ \A i, j \in DOMAIN pathCache[q] :
                  i < j => Len(pathCache[q][i]) <= Len(pathCache[q][j])

\* No link carries more than it can, although paths share links, every slot
\* is routed on its own, and a moldable reservation is booked with more than
\* the search had found for it (insert_reservation_into_slot).
NoLinkOverbooked ==
    \A l \in Links, s \in Slots :
        SumFunctionOnSet([r \in Reservations |-> res[r].ask.capacity], carried[l][s]) <= Bandwidth[l]

\* A rigid reservation has, in every slot of its interval that is still to
\* come, one path between its ends, and all links of the path carry it: what
\* the search saw is there when the slots are filled
\* (adjust_requirement_to_slot_capacity, insert_reservation_into_slot).  One
\* that was reserved again while it was active has lost its slots
\* (schedule_base.rs:169).
RigidIsRouted ==
    \A r \in active \ rebooked :
        ~ res[r].ask.moldable =>
            \A s \in Slots : start <= s /\ s \in Booked(r) =>
                LET p == reservedPaths[r][s]
                IN  /\ r \in held[s]
                    /\ p # <<>> /\ IsPath(p, <<res[r].ask.from, res[r].ask.to>>)
                    /\ \A i \in DOMAIN p : r \in carried[p[i]][s]

\* A rigid reservation holds slots only while it is active, only inside the
\* interval it is booked for, and none any more once it was reserved a second
\* time: no slot keeps what was deleted, has expired or was moved
\* (delete_reservation and update, which go by the interval in the store).
\* A moldable one can be moved to a shorter interval by a second reserve, and
\* then keeps the slots behind it.
HeldIsBooked ==
    \A s \in Slots : \A r \in held[s] :
        ~ res[r].ask.moldable => r \in active \ rebooked /\ start <= s /\ s \in Booked(r)

\* "Deletes the reserved capacity of the booked path form all affected Links"
\* (link_strategy.rs:214): no link keeps room for what was deleted before its
\* time.  It does not hold.
LinksAreReleased ==
    \A l \in Links, s \in Slots :
        clock <= s => \A r \in carried[l][s] : res[r].state # "Deleted"

=============================================================================
