------------------------- MODULE MCNetworkSchedule -------------------------
(* Two grid nodes, gate and host, and two routers in between.  Three ways   *)
(* lead from gate to host, of which K = 2 are kept, and these share their   *)
(* first link; one way leads back.                                          *)
EXTENDS NetworkSchedule, TLC

CONSTANTS gate, host, midR, midS, nowhere, first, left, right, detour, last, back

MCLinks == {first, left, right, detour, last, back}

MCSource ==
    (first :> gate) @@ (last :> midS) @@ (back :> host) @@ [l \in {left, right, detour} |-> midR]

MCTarget ==
    (first :> midR) @@ (detour :> midS) @@ (back :> gate) @@ [l \in {left, right, last} |-> host]

MCBandwidth == (first :> 3) @@ [l \in MCLinks \ {first} |-> 2]

Ask(start_, end_, duration_, capacity_, moldable_) ==
    [from |-> gate, to |-> host, start |-> start_, end |-> end_, duration |-> duration_,
     capacity |-> capacity_, moldable |-> moldable_]

\* Rigid requests for all that a path has and for what may be left of it; a
\* transfer that shrinks where others are; and one to a router that is not there.
MCRequests ==
    {Ask(0, 2, 2, 2, FALSE), Ask(0, 3, 1, 1, FALSE), Ask(0, 3, 1, 2, TRUE),
     [Ask(0, 3, 1, 1, TRUE) EXCEPT !.to = nowhere]}

Symmetry == Permutations(Reservations)
=============================================================================
