---------------------------- MODULE SlotCalendar ----------------------------
(***************************************************************************)
(* What a schedule is to its callers: a calendar without an end, in which  *)
(* a booking takes units of every slot from its first to its last.  It is  *)
(* made only where there is room, in the slots that can be seen from       *)
(* today, and stays as it was made until it is cancelled, everything is    *)
(* cleared, or its last slot is past.  Every operation may find that time  *)
(* has passed.                                                             *)
(***************************************************************************)
EXTENDS Integers, Functions

CONSTANTS
    Reservations,
    Capacity,   \* units of every slot
    Horizon     \* the number of slots that can be seen

VARIABLES
    today,      \* the first slot that can be booked
    booked      \* bookings of reservations: first and last slot, and units

vars == <<today, booked>>

NoBookings == [r \in {} |-> {}]

\* What is not past on a day
Current(day) == Restrict(booked, {r \in DOMAIN booked : day <= booked[r].last})

Load(book, i) ==
    SumFunctionOnSet([r \in DOMAIN book |-> book[r].units],
                     {r \in DOMAIN book : book[r].first <= i /\ i <= book[r].last})

Room(book, first, last, units) ==
    \A i \in first .. last : Load(book, i) + units <= Capacity

Pass == booked' = Current(today')

Book(r) ==
    LET book == Current(today')
    IN  /\ r \notin DOMAIN book
        /\ \E last \in today' .. today' + Horizon - 1 : \E first \in today' .. last :
           \E units \in 1 .. Capacity :
              /\ Room(book, first, last, units)
              /\ booked' = [x \in DOMAIN book \union {r} |->
                    IF x = r THEN [first |-> first, last |-> last, units |-> units]
                    ELSE book[x]]

Cancel(r) ==
    LET book == Current(today')
    IN  /\ r \in DOMAIN book
        /\ booked' = Restrict(book, DOMAIN book \ {r})

Clear == booked' = NoBookings

Init == today \in Nat /\ booked = NoBookings

Next ==
    /\ today' \in Nat /\ today <= today'
    /\ \/ Pass \/ Clear
       \/ \E r \in Reservations : Book(r) \/ Cancel(r)

Spec == Init /\ [][Next]_vars
=============================================================================
