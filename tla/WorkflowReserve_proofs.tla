----------------------- MODULE WorkflowReserve_proofs -----------------------
(***************************************************************************)
(* What an ADC guarantees for every workflow, every set of components and  *)
(* every expiry in the middle of a call: bookings can be found again, data *)
(* arrives before it is needed, and the answer stands for all tasks or for *)
(* none (AtomicWorkflow).                                                  *)
(***************************************************************************)
EXTENDS WorkflowReserve, TLAPS

\* The tasks that this reserve has got a booking for so far, even if it has
\* expired since.
Placed ==
  {t \in Tasks : \/ Group(t) < group
                 \/ phase = "Members" /\ Group(t) = group /\ t \notin todo}

Scheduling == phase \in {"First", "Members"}

\* Which phases belong to which state of the workflow.
Course ==
  /\ phase \in {"First", "Members", "Cancel"} => workflow = "Open"
  /\ phase = "Commit" => workflow = "ReserveAnswer"
  /\ phase = "Delete" => workflow \in {"Open", "ReserveAnswer", "Committed"}
  /\ phase = "Members" =>
       group <= Len(Groups) /\ todo \subseteq Groups[group] \ {First[group]}

\* What is known of the bookings in every phase.
Bookings ==
  /\ BookingsTracked
  /\ \A t \in Booked : state[t] = "ReserveAnswer"
  /\ Scheduling =>
       \A t \in Tasks :
          /\ database[t] # None <=> t \in Placed
          /\ t \in Placed => t \in Booked \/ state[t] = "Deleted"
          /\ \A c \in Components : t \in held[c] => database[t] = c
  /\ workflow = "Open" /\ phase \in {"Idle", "Delete"} => Booked = {}
  /\ phase \in {"Cancel", "Delete"} => Booked \subseteq todo
  /\ phase = "Commit" => Booked \intersect Entry \subseteq todo

NotBefore(t, g) == window[First[g]][1] <= window[t][1]

\* When the co-allocations that have been booked begin.
Timed ==
  /\ Scheduling =>
       \A g \in DOMAIN Groups :
          /\ First[g] \in Placed => InTime(g, window[First[g]][1])
          /\ \A t \in Groups[g] \intersect Placed : NotBefore(t, g)
  /\ Answered =>
       \A g \in DOMAIN Groups :
          /\ InTime(g, window[First[g]][1])
          /\ \A t \in Groups[g] : NotBefore(t, g)

IInv == TypeOK /\ Course /\ Bookings /\ Timed


-----------------------------------------------------------------------------
(* Tables and states *)

Whole == Tasks \union Jobs

LEMMA AddIs ==
  ASSUME NEW table \in [Components -> SUBSET Whole], NEW c \in Components, NEW t \in Whole
  PROVE  /\ Add(table, c, t) \in [Components -> SUBSET Whole]
         /\ Add(table, c, t)[c] = table[c] \union {t}
         /\ \A k \in Components : k # c => Add(table, c, t)[k] = table[k]
BY DEF Add

LEMMA DropIs ==
  ASSUME NEW table \in [Components -> SUBSET Whole], NEW c \in Components, NEW t
  PROVE  /\ Drop(table, c, t) \in [Components -> SUBSET Whole]
         /\ Drop(table, c, t)[c] = table[c] \ {t}
         /\ \A k \in Components : k # c => Drop(table, c, t)[k] = table[k]
BY DEF Drop

LEMMA SetStateIs ==
  ASSUME state \in [Reservations -> ReservationState],
         NEW rs, NEW s \in ReservationState, SetState(rs, s)
  PROVE  /\ state' \in [Reservations -> ReservationState]
         /\ \A r \in Reservations : state'[r] = IF r \in rs THEN s ELSE state[r]
BY DEF SetState

LEMMA StatesAre ==
  /\ "Rejected" \in ReservationState /\ "Deleted" \in ReservationState
  /\ "Open" \in ReservationState /\ "ReserveAnswer" \in ReservationState
  /\ "Committed" \in ReservationState
BY DEF ReservationState

LEMMA Disjoint ==
  /\ Tasks \subseteq Reservations /\ Jobs \subseteq Reservations /\ Links \subseteq Reservations
  /\ \A t \in Tasks : t \notin Links /\ t \notin Jobs
  /\ \A j \in Jobs : j \notin Links
BY WorkflowAssumption DEF Reservations

LEMMA GroupsAre ==
  /\ Len(Groups) \in Nat /\ DOMAIN Groups = 1 .. Len(Groups)
  /\ \A g \in DOMAIN Groups : Groups[g] \subseteq Tasks /\ First[g] \in Groups[g] /\ First[g] \in Tasks
BY RankedAssumption

LEMMA GroupOf ==
  ASSUME NEW t \in Tasks
  PROVE  /\ Group(t) \in DOMAIN Groups /\ t \in Groups[Group(t)]
         /\ \A g \in DOMAIN Groups : t \in Groups[g] => g = Group(t)
<1>1. \E g \in DOMAIN Groups : t \in Groups[g]
  BY RankedAssumption
<1>2. Group(t) \in DOMAIN Groups /\ t \in Groups[Group(t)]
  BY <1>1 DEF Group
<1>3. \A g, h \in DOMAIN Groups : g # h => Groups[g] \intersect Groups[h] = {}
  BY RankedAssumption
<1> QED  BY <1>2, <1>3

-----------------------------------------------------------------------------
(* What the larger steps do, point by point *)

LEMMA BookSets ==
  ASSUME TypeOK, NEW t \in Tasks, NEW c \in Components, NEW w \in Interval, Book(t, c, w)
  PROVE  /\ state' \in [Reservations -> ReservationState]
         /\ state'[t] = "ReserveAnswer"
         /\ \A r \in Reservations : r # t => state'[r] = state[r]
         /\ window' \in [Tasks -> Interval] /\ window'[t] = w
         /\ \A u \in Tasks : u # t => window'[u] = window[u]
         /\ database' \in [Tasks -> MaybeComponent] /\ database'[t] = c
         /\ \A u \in Tasks : u # t => database'[u] = database[u]
         /\ resTo' \in [Whole -> MaybeComponent] /\ resTo'[t] = c
         /\ \A u \in Whole : u # t => resTo'[u] = resTo[u]
         /\ notCommitted' \in [Whole -> MaybeComponent] /\ notCommitted'[t] = c
         /\ \A u \in Whole : u # t => notCommitted'[u] = notCommitted[u]
         /\ held' \in [Components -> SUBSET Whole] /\ held'[c] = held[c] \union {t}
         /\ \A k \in Components : k # c => held'[k] = held[k]
         /\ view' \in [Components -> SUBSET Whole] /\ view'[c] = view[c] \union {t}
         /\ \A k \in Components : k # c => view'[k] = view[k]
         /\ UNCHANGED <<workflow, segments, committed, running>>
<1>1. t \in Whole /\ c \in MaybeComponent /\ t \in Reservations
  BY Disjoint DEF Whole, MaybeComponent
<1>2. /\ state' \in [Reservations -> ReservationState]
      /\ state'[t] = "ReserveAnswer"
      /\ \A r \in Reservations : r # t => state'[r] = state[r]
  <2>1. SetState({t}, "ReserveAnswer") /\ state \in [Reservations -> ReservationState]
    BY DEF Book, TypeOK
  <2> QED  BY <1>1, <2>1, SetStateIs, StatesAre
<1>3. /\ window' \in [Tasks -> Interval] /\ window'[t] = w
      /\ \A u \in Tasks : u # t => window'[u] = window[u]
  BY DEF Book, TypeOK
<1>4. /\ database' \in [Tasks -> MaybeComponent] /\ database'[t] = c
      /\ \A u \in Tasks : u # t => database'[u] = database[u]
  BY <1>1 DEF Book, TypeOK
<1>5. /\ resTo' \in [Whole -> MaybeComponent] /\ resTo'[t] = c
      /\ \A u \in Whole : u # t => resTo'[u] = resTo[u]
  BY <1>1 DEF Book, TypeOK, Whole
<1>6. /\ notCommitted' \in [Whole -> MaybeComponent] /\ notCommitted'[t] = c
      /\ \A u \in Whole : u # t => notCommitted'[u] = notCommitted[u]
  BY <1>1 DEF Book, TypeOK, Whole
<1>7. /\ held' = Add(held, c, t) /\ held \in [Components -> SUBSET Whole]
      /\ view' = Add(view, c, t) /\ view \in [Components -> SUBSET Whole]
  BY DEF Book, TypeOK, Whole
<1>8. /\ held' \in [Components -> SUBSET Whole] /\ held'[c] = held[c] \union {t}
      /\ \A k \in Components : k # c => held'[k] = held[k]
  BY <1>1, <1>7, AddIs
<1>9. /\ view' \in [Components -> SUBSET Whole] /\ view'[c] = view[c] \union {t}
      /\ \A k \in Components : k # c => view'[k] = view[k]
  BY <1>1, <1>7, AddIs
<1>10. UNCHANGED <<workflow, segments, committed, running>>
  BY DEF Book
<1> QED  BY <1>2, <1>3, <1>4, <1>5, <1>6, <1>8, <1>9, <1>10

LEMMA NotBookedSets ==
  ASSUME TypeOK, NEW t \in Whole, NotBooked(t)
  PROVE  /\ state' \in [Reservations -> ReservationState]
         /\ \A r \in Reservations : r # t => state'[r] = state[r]
         /\ resTo' \in [Whole -> MaybeComponent]
         /\ \A u \in Whole : u # t => resTo'[u] = resTo[u]
<1>1. state' \in [Reservations -> ReservationState] /\ \A r \in Reservations : r # t => state'[r] = state[r]
  <2>1. SetState({t}, "Rejected") /\ state \in [Reservations -> ReservationState]
    BY DEF NotBooked, TypeOK
  <2> QED  BY <2>1, SetStateIs, StatesAre
<1>2. PICK c \in Components \union {resTo[t]} : resTo' = [resTo EXCEPT ![t] = c]
  BY DEF NotBooked
<1>3. resTo \in [Whole -> MaybeComponent] /\ c \in MaybeComponent
  BY DEF TypeOK, MaybeComponent, Whole
<1> QED  BY <1>1, <1>2, <1>3

\* A deletion that fails gives nothing back, and one that succeeds everything.
LEMMA DeleteSets ==
  ASSUME TypeOK, BookingsTracked, NEW t \in Tasks, DeleteAtComponent(t)
  PROVE  /\ state' \in [Reservations -> ReservationState]
         /\ \A r \in Reservations : r # t => state'[r] = state[r]
         /\ resTo' \in [Whole -> MaybeComponent]
         /\ \A u \in Whole : u # t => resTo'[u] = resTo[u]
         /\ held' \in [Components -> SUBSET Whole] /\ view' \in [Components -> SUBSET Whole]
         /\ \A c \in Components : t \notin held'[c]
         /\ \A c \in Components, u \in Whole :
               u # t => (u \in held'[c] <=> u \in held[c]) /\ (u \in view'[c] <=> u \in view[c])
         /\ UNCHANGED <<window, database, notCommitted, committed, running>>
<1>1. state' \in [Reservations -> ReservationState] /\ \A r \in Reservations : r # t => state'[r] = state[r]
  <2>1. \E s \in {"Deleted", "Rejected"} : SetState({t}, s)
    BY DEF DeleteAtComponent
  <2>2. state \in [Reservations -> ReservationState]
    BY DEF TypeOK
  <2> QED  BY <2>1, <2>2, SetStateIs, StatesAre
<1>2. /\ resTo \in [Whole -> MaybeComponent] /\ t \in Whole
      /\ held \in [Components -> SUBSET Whole] /\ view \in [Components -> SUBSET Whole]
  BY DEF TypeOK, Whole
<1>3. CASE Deletable(t)
  <2> DEFINE c == resTo[t]
  <2>1. c \in Components /\ None \in MaybeComponent
    BY <1>2, <1>3 DEF Deletable, MaybeComponent
  <2>2. /\ held' = Drop(held, c, t) /\ view' = Drop(view, c, t)
        /\ resTo' = [resTo EXCEPT ![t] = None]
    BY <1>3 DEF DeleteAtComponent
  <2>3. \A k \in Components : t \in held[k] => c = k
    BY DEF BookingsTracked
  <2> HIDE DEF c
  <2>4. /\ held' \in [Components -> SUBSET Whole] /\ held'[c] = held[c] \ {t}
        /\ \A k \in Components : k # c => held'[k] = held[k]
    BY <1>2, <2>1, <2>2, DropIs
  <2>5. /\ view' \in [Components -> SUBSET Whole] /\ view'[c] = view[c] \ {t}
        /\ \A k \in Components : k # c => view'[k] = view[k]
    BY <1>2, <2>1, <2>2, DropIs
  <2>6. resTo' \in [Whole -> MaybeComponent] /\ \A u \in Whole : u # t => resTo'[u] = resTo[u]
    BY <1>2, <2>1, <2>2
  <2>7. \A k \in Components : t \notin held'[k]
    BY <2>3, <2>4
  <2>8. \A k \in Components, u \in Whole :
           u # t => (u \in held'[k] <=> u \in held[k]) /\ (u \in view'[k] <=> u \in view[k])
    BY <2>4, <2>5
  <2> QED  BY <1>1, <2>4, <2>5, <2>6, <2>7, <2>8 DEF DeleteAtComponent
<1>4. CASE ~ Deletable(t)
  <2>1. UNCHANGED <<held, view, resTo>>
    BY <1>4 DEF DeleteAtComponent
  <2>2. \A c \in Components : t \notin held[c]
    <3> SUFFICES ASSUME NEW c \in Components, t \in held[c] PROVE FALSE
      OBVIOUS
    <3>1. resTo[t] = c /\ c # None
      BY WorkflowAssumption DEF BookingsTracked
    <3> QED  BY <1>4, <3>1 DEF Deletable
  <2> QED  BY <1>1, <1>2, <2>1, <2>2 DEF DeleteAtComponent
<1> QED  BY <1>3, <1>4

\* What one component gives up, no component holds any more.
LEMMA GivenUp ==
  ASSUME TypeOK, BookingsTracked, NEW t \in Tasks, NEW c \in Components, t \in held[c],
         held' = Drop(held, c, t)
  PROVE  /\ held' \in [Components -> SUBSET Whole]
         /\ \A k \in Components : t \notin held'[k]
         /\ \A k \in Components, u \in Whole : u # t => (u \in held'[k] <=> u \in held[k])
<1>1. held \in [Components -> SUBSET Whole]
  BY DEF TypeOK, Whole
<1>2. /\ held' \in [Components -> SUBSET Whole] /\ held'[c] = held[c] \ {t}
      /\ \A k \in Components : k # c => held'[k] = held[k]
  BY <1>1, DropIs
<1>3. \A k \in Components : t \in held[k] => k = c
  BY DEF BookingsTracked
<1> QED  BY <1>2, <1>3

LEMMA ViewDrops ==
  ASSUME TypeOK, NEW t \in Tasks, NEW c \in Components, view' \in {view, Drop(view, c, t)}
  PROVE  /\ view' \in [Components -> SUBSET Whole]
         /\ \A k \in Components, u \in Whole : u # t => (u \in view'[k] <=> u \in view[k])
<1>1. view \in [Components -> SUBSET Whole]
  BY DEF TypeOK, Whole
<1>2. CASE view' = view
  BY <1>1, <1>2
<1>3. CASE view' = Drop(view, c, t)
  <2>1. /\ view' \in [Components -> SUBSET Whole] /\ view'[c] = view[c] \ {t}
        /\ \A k \in Components : k # c => view'[k] = view[k]
    BY <1>1, <1>3, DropIs
  <2> QED  BY <2>1
<1> QED  BY <1>2, <1>3

LEMMA ExpireSets ==
  ASSUME TypeOK, BookingsTracked, NEW t \in Tasks, Expire(t)
  PROVE  /\ t \in Booked
         /\ state' \in [Reservations -> ReservationState]
         /\ state'[t] = "Deleted"
         /\ \A r \in Reservations : r # t => state'[r] = state[r]
         /\ held' \in [Components -> SUBSET Whole] /\ view' \in [Components -> SUBSET Whole]
         /\ \A c \in Components : t \notin held'[c]
         /\ \A c \in Components, u \in Whole :
               u # t => (u \in held'[c] <=> u \in held[c]) /\ (u \in view'[c] <=> u \in view[c])
         /\ UNCHANGED <<workflow, window, segments, control, tracking, running>>
<1>1. PICK c \in Holders(t) :
        /\ SetState({t}, "Deleted")
        /\ held' = Drop(held, c, t)
        /\ view' \in {view, Drop(view, c, t)}
        /\ UNCHANGED <<workflow, window, segments, control, tracking, running>>
  BY DEF Expire
<1>2. c \in Components /\ t \in held[c] /\ t \in Booked
  BY DEF Holders, Booked
<1>3. state \in [Reservations -> ReservationState] /\ t \in Reservations
  BY Disjoint DEF TypeOK
<1>4. /\ state' \in [Reservations -> ReservationState] /\ state'[t] = "Deleted"
      /\ \A r \in Reservations : r # t => state'[r] = state[r]
  BY <1>1, <1>3, SetStateIs, StatesAre
<1>5. /\ held' \in [Components -> SUBSET Whole]
      /\ \A k \in Components : t \notin held'[k]
      /\ \A k \in Components, u \in Whole : u # t => (u \in held'[k] <=> u \in held[k])
  BY <1>1, <1>2, GivenUp
<1>6. /\ view' \in [Components -> SUBSET Whole]
      /\ \A k \in Components, u \in Whole : u # t => (u \in view'[k] <=> u \in view[k])
  BY <1>1, <1>2, ViewDrops
<1> QED  BY <1>1, <1>2, <1>4, <1>5, <1>6

LEMMA WaitingIsNoted ==
  ASSUME TypeOK, NEW t \in Tasks, Waiting(t)
  PROVE  notCommitted[t] \in Components
BY DEF TypeOK, Waiting, MaybeComponent

\* Handing a task over takes it from the component and notes who runs it.
LEMMA HandedOver ==
  ASSUME TypeOK, NEW t \in Tasks, NEW c \in Components,
         running' = Add(running, c, t),
         notCommitted' = [notCommitted EXCEPT ![t] = None],
         committed' = [committed EXCEPT ![t] = c]
  PROVE  /\ running' \in [Components -> SUBSET Whole]
         /\ Started' = Started \union {t}
         /\ notCommitted' \in [Whole -> MaybeComponent]
         /\ \A u \in Whole : u # t => notCommitted'[u] = notCommitted[u]
         /\ committed' \in [Whole -> MaybeComponent]
<1>1. /\ running \in [Components -> SUBSET Whole] /\ t \in Whole
      /\ None \in MaybeComponent /\ c \in MaybeComponent
      /\ notCommitted \in [Whole -> MaybeComponent] /\ committed \in [Whole -> MaybeComponent]
  BY DEF TypeOK, Whole, MaybeComponent
<1>2. /\ running' \in [Components -> SUBSET Whole] /\ running'[c] = running[c] \union {t}
      /\ \A k \in Components : k # c => running'[k] = running[k]
  BY <1>1, AddIs
<1>3. Started' = Started \union {t}
  BY <1>2 DEF Started
<1> QED  BY <1>1, <1>2, <1>3

LEMMA CommitSets ==
  ASSUME TypeOK, BookingsTracked, NEW t \in Tasks, Waiting(t),
         CommitAtComponent(t, notCommitted[t])
  PROVE  /\ t \in Booked
         /\ state' \in [Reservations -> ReservationState]
         /\ \A r \in Reservations : r # t => state'[r] = state[r]
         /\ held' \in [Components -> SUBSET Whole] /\ running' \in [Components -> SUBSET Whole]
         /\ \A k \in Components : t \notin held'[k]
         /\ \A k \in Components, u \in Whole : u # t => (u \in held'[k] <=> u \in held[k])
         /\ Started' = Started \union {t}
         /\ notCommitted' \in [Whole -> MaybeComponent]
         /\ \A u \in Whole : u # t => notCommitted'[u] = notCommitted[u]
         /\ committed' \in [Whole -> MaybeComponent]
         /\ UNCHANGED <<workflow, window, segments, database, resTo, view>>
<1> DEFINE c == notCommitted[t]
<1>1. c \in Components
  BY WaitingIsNoted
<1>2. /\ t \in held[c] /\ SetState({t}, "Committed") /\ held' = Drop(held, c, t)
      /\ running' = Add(running, c, t)
      /\ notCommitted' = [notCommitted EXCEPT ![t] = None]
      /\ committed' = [committed EXCEPT ![t] = c]
      /\ UNCHANGED <<workflow, window, segments, database, resTo, view>>
  BY DEF CommitAtComponent
<1> HIDE DEF c
<1>3. t \in Booked
  BY <1>1, <1>2 DEF Booked, Holders
<1>4. state' \in [Reservations -> ReservationState] /\ \A r \in Reservations : r # t => state'[r] = state[r]
  <2>1. state \in [Reservations -> ReservationState]
    BY DEF TypeOK
  <2> QED  BY <1>2, <2>1, SetStateIs, StatesAre
<1>5. /\ held' \in [Components -> SUBSET Whole]
      /\ \A k \in Components : t \notin held'[k]
      /\ \A k \in Components, u \in Whole : u # t => (u \in held'[k] <=> u \in held[k])
  BY <1>1, <1>2, GivenUp
<1>6. /\ running' \in [Components -> SUBSET Whole]
      /\ Started' = Started \union {t}
      /\ notCommitted' \in [Whole -> MaybeComponent]
      /\ \A u \in Whole : u # t => notCommitted'[u] = notCommitted[u]
      /\ committed' \in [Whole -> MaybeComponent]
  BY <1>1, <1>2, HandedOver
<1> QED  BY <1>2, <1>3, <1>4, <1>5, <1>6

\* A failed commit: the task is lost to the ADC, whether it runs or not, and
\* the ADC dies.
LEMMA FailureSets ==
  ASSUME TypeOK, BookingsTracked, NEW t \in Tasks, Waiting(t), NEW f \in Tasks,
         CommitFails(t, notCommitted[t], f)
  PROVE  /\ t \in Booked
         /\ phase' = "Dead" /\ todo' = {}
         /\ state' \in [Reservations -> ReservationState]
         /\ \A r \in Reservations : r = t \/ r = f \/ state'[r] = state[r]
         /\ held' \in [Components -> SUBSET Whole] /\ running' \in [Components -> SUBSET Whole]
         /\ view' \in [Components -> SUBSET Whole]
         /\ \A k \in Components : t \notin held'[k]
         /\ \A k \in Components, u \in Whole :
               u # t => (u \in held'[k] <=> u \in held[k]) /\ (u \in view'[k] <=> u \in view[k])
         /\ Started' = Started \/ Started' = Started \union {t}
         /\ notCommitted' \in [Whole -> MaybeComponent]
         /\ \A u \in Whole : u # t => notCommitted'[u] = notCommitted[u]
         /\ committed' \in [Whole -> MaybeComponent]
         /\ UNCHANGED <<workflow, window, segments, group, refused, database, resTo>>
<1> DEFINE c == notCommitted[t]
<1>1. c \in Components
  BY WaitingIsNoted
<1>2. CommitRefused(t, c, f) \/ CommitUnconfirmed(t, c, f)
  BY DEF CommitFails
<1> HIDE DEF c
<1>3. /\ t \in held[c] /\ held' = Drop(held, c, t)
      /\ phase' = "Dead" /\ todo' = {}
      /\ view' \in {view, Drop(view, c, t)}
      /\ UNCHANGED <<workflow, window, segments, group, refused, database, resTo>>
  BY <1>2 DEF CommitRefused, CommitUnconfirmed, CommitFailure, GoTo, tracking
<1>4. SetState({t, f}, "Rejected") \/ SetState({f}, "Rejected")
  BY <1>2 DEF CommitRefused, CommitUnconfirmed, CommitFailure
<1>5. /\ state' \in [Reservations -> ReservationState]
      /\ \A r \in Reservations : r = t \/ r = f \/ state'[r] = state[r]
  <2>1. state \in [Reservations -> ReservationState]
    BY DEF TypeOK
  <2> QED  BY <1>4, <2>1, SetStateIs, StatesAre
<1>6. /\ held' \in [Components -> SUBSET Whole]
      /\ \A k \in Components : t \notin held'[k]
      /\ \A k \in Components, u \in Whole : u # t => (u \in held'[k] <=> u \in held[k])
  BY <1>1, <1>3, GivenUp
<1>7. /\ view' \in [Components -> SUBSET Whole]
      /\ \A k \in Components, u \in Whole : u # t => (u \in view'[k] <=> u \in view[k])
  BY <1>1, <1>3, ViewDrops
<1>8. /\ running' \in [Components -> SUBSET Whole]
      /\ Started' = Started \/ Started' = Started \union {t}
      /\ notCommitted' \in [Whole -> MaybeComponent]
      /\ \A u \in Whole : u # t => notCommitted'[u] = notCommitted[u]
      /\ committed' \in [Whole -> MaybeComponent]
  <2>1. CASE CommitRefused(t, c, f)
    BY <2>1 DEF CommitRefused, tracking, Started, TypeOK, Whole
  <2>2. CASE CommitUnconfirmed(t, c, f)
    <3>1. /\ running' = Add(running, c, t)
          /\ notCommitted' = [notCommitted EXCEPT ![t] = None]
          /\ committed' = [committed EXCEPT ![t] = c]
      BY <2>2 DEF CommitUnconfirmed
    <3> QED  BY <1>1, <3>1, HandedOver
  <2> QED  BY <1>2, <2>1, <2>2
<1>9. t \in Booked
  BY <1>1, <1>3 DEF Booked, Holders
<1> QED  BY <1>3, <1>5, <1>6, <1>7, <1>8, <1>9

LEMMA JobSets ==
  ASSUME TypeOK, NEW j \in Jobs, NEW c \in Components, JobBooked(j, c)
  PROVE  /\ Idle /\ phase' = "Dead" /\ todo' = {}
         /\ state' \in [Reservations -> ReservationState]
         /\ \A r \in Reservations : r # j => state'[r] = state[r]
         /\ resTo' \in [Whole -> MaybeComponent] /\ notCommitted' \in [Whole -> MaybeComponent]
         /\ \A u \in Whole : u # j => resTo'[u] = resTo[u] /\ notCommitted'[u] = notCommitted[u]
         /\ held' \in [Components -> SUBSET Whole]
         /\ \A k \in Components, u \in Whole : u # j => (u \in held'[k] <=> u \in held[k])
         /\ UNCHANGED <<workflow, window, segments, group, refused, database, committed,
                        running, view>>
<1>1. /\ Idle /\ SetState({j}, "ReserveAnswer") /\ phase' = "Dead" /\ todo' = {}
      /\ resTo' = [resTo EXCEPT ![j] = c]
      /\ notCommitted' = [notCommitted EXCEPT ![j] = c]
      /\ held' = Add(held, c, j)
      /\ UNCHANGED <<workflow, window, segments, group, refused, database, committed,
                     running, view>>
  BY DEF JobBooked, GoTo
<1>2. /\ resTo \in [Whole -> MaybeComponent] /\ notCommitted \in [Whole -> MaybeComponent]
      /\ held \in [Components -> SUBSET Whole] /\ state \in [Reservations -> ReservationState]
      /\ j \in Whole /\ c \in MaybeComponent
  BY DEF TypeOK, Whole, MaybeComponent
<1>3. state' \in [Reservations -> ReservationState] /\ \A r \in Reservations : r # j => state'[r] = state[r]
  BY <1>1, <1>2, SetStateIs, StatesAre
<1>4. /\ held' \in [Components -> SUBSET Whole] /\ held'[c] = held[c] \union {j}
      /\ \A k \in Components : k # c => held'[k] = held[k]
  BY <1>1, <1>2, AddIs
<1>5. \A k \in Components, u \in Whole : u # j => (u \in held'[k] <=> u \in held[k])
  BY <1>4
<1>6. /\ resTo' \in [Whole -> MaybeComponent] /\ notCommitted' \in [Whole -> MaybeComponent]
      /\ \A u \in Whole : u # j => resTo'[u] = resTo[u] /\ notCommitted'[u] = notCommitted[u]
  BY <1>1, <1>2
<1> QED  BY <1>1, <1>3, <1>4, <1>5, <1>6

-----------------------------------------------------------------------------
(* Types, and the course of a call *)

LEMMA IntervalsAre == Intervals \subseteq Interval
BY WorkflowAssumption DEF Intervals, Interval

LEMMA EntriesAre == Entry \subseteq Tasks
BY DEF Entry

LEMMA StepTyped ==
  ASSUME TypeOK, Course, BookingsTracked, [Next]_vars
  PROVE  TypeOK' /\ Course'
<1> USE Disjoint DEF TypeOK, Course, Phases, Whole, Idle, GoTo
<1>1. CASE UNCHANGED vars
  BY <1>1 DEF vars, store, control, tracking, components
<1>2. CASE Reserve \/ ReserveInfeasible
  <2>1. 1 \in 1 .. Len(Groups) + 1
    BY GroupsAre
  <2>2. "Rejected" \in ReservationState /\ None \in MaybeComponent
    BY StatesAre DEF MaybeComponent
  <2> QED
    BY <1>2, <2>1, <2>2 DEF Reserve, ReserveInfeasible, store, control, tracking, components
<1>3. ASSUME NEW c \in Components, NEW w \in Intervals, BookFirst(c, w)
      PROVE  TypeOK' /\ Course'
  <2>1. group \in DOMAIN Groups /\ group <= Len(Groups) /\ w \in Interval /\ phase = "First"
    BY <1>3, GroupsAre, IntervalsAre DEF BookFirst
  <2>2. First[group] \in Tasks /\ Groups[group] \subseteq Tasks
    BY <2>1, GroupsAre
  <2>3. Book(First[group], c, w)
    BY <1>3 DEF BookFirst
  <2>4. /\ state' \in [Reservations -> ReservationState]
        /\ window' \in [Tasks -> Interval]
        /\ database' \in [Tasks -> MaybeComponent]
        /\ resTo' \in [Tasks \union Jobs -> MaybeComponent]
        /\ notCommitted' \in [Tasks \union Jobs -> MaybeComponent]
        /\ held' \in [Components -> SUBSET (Tasks \union Jobs)]
        /\ view' \in [Components -> SUBSET (Tasks \union Jobs)]
        /\ UNCHANGED <<workflow, segments, committed, running>>
    BY <2>1, <2>2, <2>3, BookSets
  <2>5. /\ phase' = "Members" /\ todo' = Groups[group] \ {First[group]}
        /\ UNCHANGED <<group, refused>>
    BY <1>3 DEF BookFirst
  <2> QED  BY <2>1, <2>2, <2>4, <2>5
<1>4. ASSUME NEW c \in Components, NEW w \in Intervals, NEW t \in Tasks, BookMember(t, c, w)
      PROVE  TypeOK' /\ Course'
  <2>1. w \in Interval /\ phase = "Members" /\ Book(t, c, w)
    BY <1>4, IntervalsAre DEF BookMember
  <2>2. /\ state' \in [Reservations -> ReservationState]
        /\ window' \in [Tasks -> Interval]
        /\ database' \in [Tasks -> MaybeComponent]
        /\ resTo' \in [Tasks \union Jobs -> MaybeComponent]
        /\ notCommitted' \in [Tasks \union Jobs -> MaybeComponent]
        /\ held' \in [Components -> SUBSET (Tasks \union Jobs)]
        /\ view' \in [Components -> SUBSET (Tasks \union Jobs)]
        /\ UNCHANGED <<workflow, segments, committed, running>>
    BY <2>1, BookSets
  <2>3. phase' = "Members" /\ todo' = todo \ {t} /\ UNCHANGED <<group, refused>>
    BY <1>4 DEF BookMember
  <2> QED  BY <2>1, <2>2, <2>3
<1>5. ASSUME NEW t \in Tasks, NotBooked(t), Cancel, phase \in {"First", "Members"}
      PROVE  TypeOK' /\ Course'
  <2>1. /\ state' \in [Reservations -> ReservationState]
        /\ resTo' \in [Tasks \union Jobs -> MaybeComponent]
    BY <1>5, NotBookedSets
  <2>2. phase' = "Cancel" /\ todo' \subseteq Tasks /\ UNCHANGED <<group, refused>>
    BY <1>5 DEF Cancel
  <2>3. UNCHANGED <<workflow, window, segments, database, notCommitted, committed,
                    held, running, view>>
    BY <1>5 DEF NotBooked, components
  <2> QED  BY <1>5, <2>1, <2>2, <2>3
<1>6. CASE FirstFails
  <2>1. group \in DOMAIN Groups
    BY <1>6, GroupsAre DEF FirstFails
  <2> QED  BY <1>5, <1>6, <2>1, GroupsAre DEF FirstFails
<1>7. ASSUME NEW t \in Tasks, MemberFails(t) PROVE TypeOK' /\ Course'
  BY <1>5, <1>7 DEF MemberFails
<1>8. CASE TooLate
  BY <1>8 DEF TooLate, Cancel, store, tracking, components
<1>9. CASE RouteLinks
  <2>1. /\ phase' = "First" /\ todo' = {} /\ group' = group + 1 /\ phase = "Members"
        /\ UNCHANGED <<workflow, window, refused, tracking, components>>
    BY <1>9 DEF RouteLinks
  <2>2. group' \in 1 .. Len(Groups) + 1
    BY <2>1, GroupsAre
  <2>3. state' \in [Reservations -> ReservationState]
    BY <1>9, StatesAre DEF RouteLinks, LinkState
  <2>4. segments' \in [Links -> Nat]
    BY <1>9 DEF RouteLinks, AddVirtuals, ChainLength
  <2> QED  BY <2>1, <2>2, <2>3, <2>4 DEF tracking, components
<1>10. CASE Answer
  <2>1. /\ resTo' \in [Tasks \union Jobs -> MaybeComponent]
        /\ UNCHANGED <<state, window, segments, group, refused, database, notCommitted,
                       committed, components>>
    BY <1>10 DEF Answer
  <2>2. \/ phase' = "Idle" /\ todo' = {} /\ workflow' = "ReserveAnswer"
        \/ phase' = "Dead" /\ todo' = {} /\ UNCHANGED workflow
    BY <1>10 DEF Answer
  <2> QED  BY <2>1, <2>2, StatesAre DEF components
<1>11. ASSUME NEW t \in Tasks, CancelTask(t) \/ DeleteTask(t) PROVE TypeOK' /\ Course'
  <2>1. DeleteAtComponent(t)
    BY <1>11 DEF CancelTask, DeleteTask
  <2>2. /\ state' \in [Reservations -> ReservationState]
        /\ resTo' \in [Tasks \union Jobs -> MaybeComponent]
        /\ held' \in [Components -> SUBSET (Tasks \union Jobs)]
        /\ view' \in [Components -> SUBSET (Tasks \union Jobs)]
        /\ UNCHANGED <<window, database, notCommitted, committed, running>>
    BY <2>1, DeleteSets
  <2>3. segments' \in [Links -> Nat] /\ refused' \in BOOLEAN
    BY <1>11 DEF CancelTask, DeleteTask, CascadeDelete
  <2>4. phase' = phase /\ todo' = todo \ {t} /\ UNCHANGED <<workflow, group>>
        /\ phase \in {"Cancel", "Delete"}
    BY <1>11 DEF CancelTask, DeleteTask
  <2> QED  BY <2>2, <2>3, <2>4
<1>12. CASE Rejected \/ Deleted
  <2>1. /\ phase' = "Idle" /\ todo' = {} /\ workflow' \in {"Rejected", "Deleted"}
        /\ UNCHANGED <<window, segments, group, refused, resTo, notCommitted, committed, components>>
    BY <1>12 DEF Rejected, Deleted, tracking
  <2>2. state' \in [Reservations -> ReservationState]
    BY <1>12, SetStateIs, StatesAre DEF Rejected, Deleted
  <2>3. database' \in [Tasks -> MaybeComponent]
    BY <1>12 DEF Rejected, Deleted, tracking, MaybeComponent
  <2> QED  BY <2>1, <2>2, <2>3, StatesAre DEF components
<1>13. CASE Delete \/ Commit
  BY <1>13, EntriesAre DEF Delete, Commit, store, tracking, components
<1>14. CASE Committed
  BY <1>14, StatesAre DEF Committed, tracking, components
<1>15. ASSUME NEW t \in Tasks, Waiting(t), CommitAtComponent(t, notCommitted[t]),
              phase' = phase, todo' \subseteq todo, UNCHANGED <<group, refused>>,
              phase \in {"Idle", "Commit"}
       PROVE  TypeOK' /\ Course'
  <2>1. /\ state' \in [Reservations -> ReservationState]
        /\ held' \in [Components -> SUBSET (Tasks \union Jobs)]
        /\ running' \in [Components -> SUBSET (Tasks \union Jobs)]
        /\ notCommitted' \in [Tasks \union Jobs -> MaybeComponent]
        /\ committed' \in [Tasks \union Jobs -> MaybeComponent]
        /\ UNCHANGED <<workflow, window, segments, database, resTo, view>>
    BY <1>15, CommitSets
  <2> QED  BY <1>15, <2>1
<1>16. ASSUME NEW t \in Tasks, Waiting(t), NEW f \in Tasks, CommitFails(t, notCommitted[t], f)
       PROVE  TypeOK' /\ Course'
  <2>1. /\ phase' = "Dead" /\ todo' = {}
        /\ state' \in [Reservations -> ReservationState]
        /\ held' \in [Components -> SUBSET (Tasks \union Jobs)]
        /\ running' \in [Components -> SUBSET (Tasks \union Jobs)]
        /\ view' \in [Components -> SUBSET (Tasks \union Jobs)]
        /\ notCommitted' \in [Tasks \union Jobs -> MaybeComponent]
        /\ committed' \in [Tasks \union Jobs -> MaybeComponent]
        /\ UNCHANGED <<workflow, window, segments, group, refused, database, resTo>>
    BY <1>16, FailureSets
  <2> QED  BY <2>1
<1>17. ASSUME NEW t \in Tasks, CommitEntry(t) \/ CommitTask(t) PROVE TypeOK' /\ Course'
  <2>1. Waiting(t) /\ phase \in {"Idle", "Commit"}
    BY <1>17 DEF CommitEntry, CommitTask
  <2>2. CASE CommitAtComponent(t, notCommitted[t]) /\ phase' = phase /\ todo' \subseteq todo
             /\ UNCHANGED <<group, refused>>
    BY <1>15, <2>1, <2>2
  <2>3. CASE \E f \in Tasks : CommitFails(t, notCommitted[t], f)
    BY <1>16, <2>1, <2>3
  <2> QED  BY <1>17, <2>2, <2>3, EntriesAre DEF CommitEntry, CommitTask, control
<1>18. ASSUME NEW t \in Tasks, SkipEntry(t) PROVE TypeOK' /\ Course'
  BY <1>18 DEF SkipEntry, store, tracking, components
<1>19. ASSUME NEW j \in Jobs, JobRejected(j) PROVE TypeOK' /\ Course'
  <2>1. /\ state' \in [Reservations -> ReservationState]
        /\ resTo' \in [Tasks \union Jobs -> MaybeComponent]
    BY <1>19, NotBookedSets DEF JobRejected
  <2>2. UNCHANGED <<workflow, window, segments, database, notCommitted, committed,
                    held, running, view, phase, group, todo, refused>>
    BY <1>19 DEF JobRejected, NotBooked, components, control
  <2> QED  BY <2>1, <2>2
<1>20. ASSUME NEW j \in Jobs, NEW c \in Components, JobBooked(j, c) PROVE TypeOK' /\ Course'
  <2>1. /\ phase' = "Dead" /\ todo' = {}
        /\ state' \in [Reservations -> ReservationState]
        /\ resTo' \in [Tasks \union Jobs -> MaybeComponent]
        /\ notCommitted' \in [Tasks \union Jobs -> MaybeComponent]
        /\ held' \in [Components -> SUBSET (Tasks \union Jobs)]
        /\ UNCHANGED <<workflow, window, segments, group, refused, database, committed,
                       running, view>>
    BY <1>20, JobSets
  <2> QED  BY <2>1
<1>21. ASSUME NEW t \in Tasks, Expire(t) PROVE TypeOK' /\ Course'
  <2>1. /\ state' \in [Reservations -> ReservationState]
        /\ held' \in [Components -> SUBSET (Tasks \union Jobs)]
        /\ view' \in [Components -> SUBSET (Tasks \union Jobs)]
        /\ UNCHANGED <<workflow, window, segments, control, tracking, running>>
    BY <1>21, ExpireSets
  <2> QED  BY <2>1 DEF control, tracking
<1> QED
  BY <1>1, <1>2, <1>3, <1>4, <1>6, <1>7, <1>8, <1>9, <1>10, <1>11, <1>12, <1>13, <1>14,
     <1>17, <1>18, <1>19, <1>20, <1>21 DEF Next

-----------------------------------------------------------------------------
(* The bookings *)

LEMMA BookedAre ==
  /\ Booked \subseteq Tasks
  /\ \A t \in Tasks : t \in Booked <=> \E c \in Components : t \in held[c]
BY DEF Booked, Holders

LEMMA HeldIsBooked ==
  ASSUME NEW t \in Tasks, NEW c \in Components, t \in held[c]
  PROVE  t \in Booked
BY BookedAre

\* A step that books nothing and leaves alone what is known of what stays.
Shrinks ==
  \A c \in Components, u \in Tasks :
     u \in held'[c] =>
       /\ u \in held[c]
       /\ resTo'[u] = resTo[u] /\ notCommitted'[u] = notCommitted[u]
       /\ state'[u] = state[u]
       /\ u \in view[c] => u \in view'[c]

LEMMA Shrunk ==
  ASSUME Bookings, Shrinks
  PROVE  /\ BookingsTracked'
         /\ \A t \in Booked' : state'[t] = "ReserveAnswer"
         /\ Booked' \subseteq Booked
<1>1. Booked' \subseteq Booked
  BY DEF Booked, Holders, Shrinks
<1>2. \A t \in Booked' : state'[t] = state[t]
  BY DEF Booked, Holders, Shrinks
<1>3. BookingsTracked'
  BY DEF Bookings, BookingsTracked, Shrinks
<1> QED  BY <1>1, <1>2, <1>3 DEF Bookings

\* Outside of a running reserve the rest of Bookings is about Booked and todo.
LEMMA ShrunkOutside ==
  ASSUME Bookings, Shrinks, ~ Scheduling',
         workflow' = "Open" /\ phase' \in {"Idle", "Delete"} => Booked' = {},
         phase' \in {"Cancel", "Delete"} => Booked' \subseteq todo',
         phase' = "Commit" => Booked' \intersect Entry \subseteq todo'
  PROVE  Bookings'
<1>1. /\ BookingsTracked'
      /\ \A t \in Booked' : state'[t] = "ReserveAnswer"
  BY Shrunk
<1>2. Entry' = Entry
  BY DEF Entry
<1> QED  BY <1>1, <1>2 DEF Bookings

\* The next booking of a running reserve is that of a task without any.
LEMMA BookKeeps ==
  ASSUME TypeOK, Bookings, Scheduling, NEW t \in Tasks \ Placed, NEW c \in Components,
         NEW w \in Interval, Book(t, c, w), phase' = "Members", Placed' = Placed \union {t}
  PROVE  Bookings'
<1>1. /\ state'[t] = "ReserveAnswer" /\ \A r \in Reservations : r # t => state'[r] = state[r]
      /\ database'[t] = c /\ \A u \in Tasks : u # t => database'[u] = database[u]
      /\ resTo'[t] = c /\ \A u \in Whole : u # t => resTo'[u] = resTo[u]
      /\ notCommitted'[t] = c /\ \A u \in Whole : u # t => notCommitted'[u] = notCommitted[u]
      /\ held'[c] = held[c] \union {t} /\ \A k \in Components : k # c => held'[k] = held[k]
      /\ view'[c] = view[c] \union {t} /\ \A k \in Components : k # c => view'[k] = view[k]
  BY BookSets
<1>2. c # None /\ \A u \in Tasks : u \in Whole /\ u \in Reservations
  BY WorkflowAssumption, Disjoint DEF Whole
<1>3. \A u \in Tasks :
         /\ database[u] # None <=> u \in Placed
         /\ u \in Placed => u \in Booked \/ state[u] = "Deleted"
         /\ \A k \in Components : u \in held[k] => database[u] = k
  BY DEF Bookings
<1>4. \A k \in Components : t \notin held[k]
  BY <1>3, WorkflowAssumption
<1>5. \A k \in Components : t \in held'[k] <=> k = c
  BY <1>1, <1>4
<1>6. \A k \in Components, u \in Tasks :
         u # t => (u \in held'[k] <=> u \in held[k]) /\ (u \in view[k] => u \in view'[k])
  BY <1>1
<1>7. Booked' = Booked \union {t}
  BY <1>5, <1>6 DEF Booked, Holders
<1>8. BookingsTracked'
  <2> SUFFICES ASSUME NEW u \in Tasks, NEW k \in Components, u \in held'[k]
               PROVE  resTo'[u] = k /\ notCommitted'[u] = k /\ u \in view'[k]
    BY DEF BookingsTracked
  <2>1. CASE u = t
    BY <1>1, <1>5, <2>1
  <2>2. CASE u # t
    BY <1>1, <1>2, <1>6, <2>2 DEF Bookings, BookingsTracked
  <2> QED  BY <2>1, <2>2
<1>9. \A u \in Booked' : state'[u] = "ReserveAnswer"
  BY <1>1, <1>2, <1>7, BookedAre DEF Bookings
<1>10. \A u \in Tasks :
         /\ database'[u] # None <=> u \in Placed'
         /\ u \in Placed' => u \in Booked' \/ state'[u] = "Deleted"
         /\ \A k \in Components : u \in held'[k] => database'[u] = k
  <2> SUFFICES ASSUME NEW u \in Tasks
               PROVE  /\ database'[u] # None <=> u \in Placed'
                      /\ u \in Placed' => u \in Booked' \/ state'[u] = "Deleted"
                      /\ \A k \in Components : u \in held'[k] => database'[u] = k
    OBVIOUS
  <2>1. CASE u = t
    BY <1>1, <1>2, <1>5, <1>7, <2>1
  <2>2. CASE u # t
    BY <1>1, <1>2, <1>3, <1>6, <1>7, <2>2
  <2> QED  BY <2>1, <2>2
<1> QED  BY <1>8, <1>9, <1>10 DEF Bookings

\* Where the loops stand, and what has been placed then.
LEMMA FirstIsNext ==
  ASSUME TypeOK, phase = "First", group <= Len(Groups)
  PROVE  /\ group \in DOMAIN Groups /\ First[group] \in Tasks \ Placed
         /\ phase' = "Members" /\ todo' = Groups[group] \ {First[group]} /\ group' = group =>
              Placed' = Placed \union {First[group]}
<1>1. group \in DOMAIN Groups /\ group \in Nat
  BY GroupsAre DEF TypeOK
<1>2. First[group] \in Tasks /\ Group(First[group]) = group
  BY <1>1, GroupsAre, GroupOf
<1>3. First[group] \notin Placed
  BY <1>1, <1>2 DEF Placed
<1>4. ASSUME phase' = "Members", todo' = Groups[group] \ {First[group]}, group' = group
      PROVE  Placed' = Placed \union {First[group]}
  <2>1. \A u \in Tasks : Group(u) = group /\ u \notin todo' <=> u = First[group]
    BY <1>1, <1>2, <1>4, GroupOf
  <2>2. \A u \in Tasks : u \in Placed' <=> Group(u) < group \/ u = First[group]
    BY <1>4, <2>1 DEF Placed, Group
  <2>3. \A u \in Tasks : u \in Placed <=> Group(u) < group
    BY DEF Placed
  <2> QED  BY <1>2, <2>2, <2>3 DEF Placed
<1> QED  BY <1>1, <1>2, <1>3, <1>4

LEMMA MemberIsNext ==
  ASSUME TypeOK, Course, phase = "Members", NEW t \in todo
  PROVE  /\ group \in DOMAIN Groups /\ t \in Tasks \ Placed /\ Group(t) = group
         /\ phase' = "Members" /\ todo' = todo \ {t} /\ group' = group =>
              Placed' = Placed \union {t}
<1>1. group \in DOMAIN Groups /\ group \in Nat
  BY GroupsAre DEF TypeOK, Course
<1>2. t \in Tasks /\ Group(t) = group
  BY <1>1, GroupsAre, GroupOf DEF Course
<1>3. t \notin Placed
  BY <1>1, <1>2 DEF Placed
<1>4. ASSUME phase' = "Members", todo' = todo \ {t}, group' = group
      PROVE  Placed' = Placed \union {t}
  <2>1. \A u \in Tasks : u \in Placed' <=> Group(u) < group \/ (Group(u) = group /\ u \notin todo \ {t})
    BY <1>4 DEF Placed, Group
  <2>2. \A u \in Tasks : u \in Placed <=> Group(u) < group \/ (Group(u) = group /\ u \notin todo)
    BY DEF Placed
  <2> QED  BY <1>2, <2>1, <2>2 DEF Placed
<1> QED  BY <1>1, <1>2, <1>3, <1>4

LEMMA NextGroup ==
  ASSUME TypeOK, phase = "Members", todo = {}, phase' = "First", group' = group + 1
  PROVE  Placed' = Placed
<1>1. \A u \in Tasks : Group(u) \in Nat
  BY GroupOf, GroupsAre
<1>2. group \in Nat
  BY DEF TypeOK
<1>3. \A u \in Tasks : u \in Placed' <=> Group(u) < group + 1
  BY DEF Placed, Group
<1>4. \A u \in Tasks : u \in Placed <=> Group(u) < group \/ Group(u) = group
  BY DEF Placed
<1>5. \A u \in Tasks : Group(u) < group + 1 <=> Group(u) < group \/ Group(u) = group
  BY <1>1, <1>2
<1> QED  BY <1>3, <1>4, <1>5 DEF Placed

LEMMA FailKeeps ==
  ASSUME TypeOK, Bookings, Scheduling, NEW t \in Tasks \ Placed, NotBooked(t), Cancel
  PROVE  Bookings'
<1>1. /\ \A r \in Reservations : r # t => state'[r] = state[r]
      /\ \A u \in Whole : u # t => resTo'[u] = resTo[u]
  BY NotBookedSets DEF Whole
<1>2. UNCHANGED <<held, view, notCommitted>>
  BY DEF NotBooked, components
<1>3. \A u \in Tasks, k \in Components : u \in held[k] => database[u] # None /\ u # t
  BY WorkflowAssumption DEF Bookings
<1>4. Shrinks
  BY <1>1, <1>2, <1>3, Disjoint DEF Shrinks, Whole
<1>5. phase' = "Cancel" /\ todo' = {u \in Tasks : database[u] # None}
  BY DEF Cancel, GoTo
<1>6. Booked' \subseteq todo'
  BY <1>2, <1>3, <1>5 DEF Booked, Holders
<1> QED  BY <1>4, <1>5, <1>6, ShrunkOutside DEF Scheduling

\* A step that leaves the bookings as they are.
LEMMA SameShrinks ==
  ASSUME UNCHANGED <<held, view>>,
         \A u \in Booked : /\ resTo'[u] = resTo[u] /\ notCommitted'[u] = notCommitted[u]
                           /\ state'[u] = state[u]
  PROVE  Shrinks /\ Booked' = Booked
BY HeldIsBooked DEF Shrinks, Booked, Holders

\* A step that takes one task from its component.
LEMMA OneLess ==
  ASSUME NEW t \in Tasks,
         \A c \in Components : t \notin held'[c],
         \A c \in Components, u \in Whole :
            u # t => (u \in held'[c] <=> u \in held[c]) /\ (u \in view'[c] <=> u \in view[c]),
         \A u \in Booked \ {t} : /\ resTo'[u] = resTo[u] /\ notCommitted'[u] = notCommitted[u]
                                 /\ state'[u] = state[u]
  PROVE  Shrinks /\ Booked' = Booked \ {t}
<1>1. Booked' = Booked \ {t}
  BY DEF Booked, Holders, Whole
<1>2. ASSUME NEW c \in Components, NEW u \in Tasks, u \in held'[c]
      PROVE  /\ u \in held[c] /\ u \in Booked \ {t}
             /\ u \in view[c] => u \in view'[c]
  BY <1>2, HeldIsBooked DEF Whole
<1>3. Shrinks
  BY <1>2 DEF Shrinks
<1> QED  BY <1>1, <1>3

LEMMA StepBookings ==
  ASSUME TypeOK, Course, Bookings, [Next]_vars
  PROVE  Bookings'
<1> USE Disjoint, BookedAre DEF Scheduling, Idle, GoTo
<1>0. BookingsTracked
  BY DEF Bookings
<1>1. CASE UNCHANGED vars
  <2>1. UNCHANGED <<state, database, resTo, notCommitted, held, view, workflow, phase, todo, group>>
    BY <1>1 DEF vars, store, control, tracking, components
  <2>2. Booked' = Booked /\ Entry' = Entry /\ Placed' = Placed /\ BookingsTracked'
    BY <2>1, <1>0 DEF Booked, Holders, Entry, Placed, Group, BookingsTracked
  <2> QED  BY <2>1, <2>2 DEF Bookings
<1>2. CASE Reserve
  <2>1. /\ UNCHANGED <<held, view, state, notCommitted, resTo, workflow>>
        /\ phase = "Idle" /\ workflow = "Open" /\ phase' = "First" /\ group' = 1
        /\ database' = [t \in Tasks |-> None]
    BY <1>2 DEF Reserve, store, components
  <2>2. Booked = {} /\ Booked' = {}
    BY <2>1 DEF Bookings, Booked, Holders
  <2>3. \A u \in Tasks : u \notin Placed'
    <3>1. \A u \in Tasks : Group(u) \in 1 .. Len(Groups)
      BY GroupOf, GroupsAre
    <3>2. \A u \in Tasks : u \in Placed' => Group(u) < 1
      BY <2>1 DEF Placed, Group
    <3> QED  BY <3>1, <3>2
  <2>4. BookingsTracked'
    BY <2>1, <1>0 DEF BookingsTracked
  <2>5. \A t \in Tasks, c \in Components : t \notin held'[c]
    BY <2>1, <2>2
  <2> QED  BY <2>1, <2>2, <2>3, <2>4, <2>5 DEF Bookings
<1>3. CASE ReserveInfeasible
  <2>1. UNCHANGED <<held, view, state, notCommitted, resTo, phase>> /\ phase = "Idle" /\ workflow' = "Rejected"
    BY <1>3 DEF ReserveInfeasible, control, tracking, components
  <2> QED  BY <2>1, SameShrinks, ShrunkOutside
<1>4. ASSUME NEW c \in Components, NEW w \in Intervals, BookFirst(c, w)
      PROVE  Bookings'
  <2>1. /\ phase = "First" /\ group <= Len(Groups) /\ Book(First[group], c, w)
        /\ phase' = "Members" /\ todo' = Groups[group] \ {First[group]} /\ group' = group
    BY <1>4 DEF BookFirst
  <2>2. First[group] \in Tasks \ Placed /\ Placed' = Placed \union {First[group]}
    BY <2>1, FirstIsNext
  <2> QED  BY <2>1, <2>2, IntervalsAre, BookKeeps
<1>5. ASSUME NEW c \in Components, NEW w \in Intervals, NEW t \in Tasks, BookMember(t, c, w)
      PROVE  Bookings'
  <2>1. /\ phase = "Members" /\ t \in todo /\ Book(t, c, w)
        /\ phase' = "Members" /\ todo' = todo \ {t} /\ group' = group
    BY <1>5 DEF BookMember
  <2>2. t \in Tasks \ Placed /\ Placed' = Placed \union {t}
    BY <2>1, MemberIsNext
  <2> QED  BY <2>1, <2>2, IntervalsAre, BookKeeps
<1>6. CASE FirstFails
  <2>1. phase = "First" /\ group <= Len(Groups) /\ NotBooked(First[group]) /\ Cancel
    BY <1>6 DEF FirstFails
  <2>2. First[group] \in Tasks \ Placed
    BY <2>1, FirstIsNext
  <2> QED  BY <2>1, <2>2, FailKeeps
<1>7. ASSUME NEW t \in Tasks, MemberFails(t) PROVE Bookings'
  <2>1. phase = "Members" /\ t \in todo /\ NotBooked(t) /\ Cancel
    BY <1>7 DEF MemberFails
  <2>2. t \in Tasks \ Placed
    BY <2>1, MemberIsNext
  <2> QED  BY <2>1, <2>2, FailKeeps
<1>8. CASE TooLate
  <2>1. /\ UNCHANGED <<held, view, state, notCommitted, resTo>>
        /\ phase' = "Cancel" /\ todo' = {t \in Tasks : database[t] # None} /\ phase = "First"
    BY <1>8 DEF TooLate, Cancel, store, tracking, components
  <2>2. Shrinks /\ Booked' = Booked
    BY <2>1, SameShrinks
  <2>3. Booked \subseteq todo'
    BY <2>1, WorkflowAssumption DEF Bookings
  <2> QED  BY <2>1, <2>2, <2>3, ShrunkOutside
<1>9. CASE RouteLinks
  <2>1. /\ phase = "Members" /\ todo = {} /\ phase' = "First" /\ group' = group + 1
        /\ UNCHANGED <<held, view, notCommitted, resTo, database>>
    BY <1>9 DEF RouteLinks, tracking, components
  <2>2. \A u \in Tasks : state'[u] = state[u]
    BY <1>9 DEF RouteLinks, Arriving, Scheduled
  <2>3. Placed' = Placed
    BY <2>1, NextGroup
  <2>4. Shrinks /\ Booked' = Booked
    BY <2>1, <2>2, SameShrinks
  <2>5. BookingsTracked' /\ \A t \in Booked' : state'[t] = "ReserveAnswer"
    BY <2>4, Shrunk
  <2>6. \A u \in Tasks :
          /\ database'[u] # None <=> u \in Placed'
          /\ u \in Placed' => u \in Booked' \/ state'[u] = "Deleted"
          /\ \A c \in Components : u \in held'[c] => database'[u] = c
    BY <2>1, <2>2, <2>3, <2>4 DEF Bookings
  <2> QED  BY <2>1, <2>5, <2>6 DEF Bookings
<1>10. CASE Answer
  <2>1. /\ phase = "First"
        /\ UNCHANGED <<held, view, state, notCommitted>>
        /\ phase' = "Dead" \/ (phase' = "Idle" /\ workflow' = "ReserveAnswer")
    BY <1>10 DEF Answer, components
  <2>2. \A u \in Tasks : database[u] # None => resTo'[u] = database[u]
    BY <1>10 DEF Answer
  <2>3. Booked' = Booked
    BY <2>1 DEF Booked, Holders
  <2>4. \A u \in Tasks, c \in Components : u \in held[c] => database[u] = c /\ c # None
    BY <2>1, WorkflowAssumption DEF Bookings
  <2>5. BookingsTracked'
    BY <2>1, <2>2, <2>4, <1>0 DEF BookingsTracked
  <2> QED  BY <2>1, <2>3, <2>5 DEF Bookings
<1>11. ASSUME NEW t \in Tasks, CancelTask(t) \/ DeleteTask(t) PROVE Bookings'
  <2>1. DeleteAtComponent(t)
    BY <1>11 DEF CancelTask, DeleteTask
  <2>2. phase \in {"Cancel", "Delete"} /\ phase' = phase /\ todo' = todo \ {t} /\ workflow' = workflow
    BY <1>11 DEF CancelTask, DeleteTask
  <2>3. /\ \A c \in Components : t \notin held'[c]
        /\ \A c \in Components, u \in Whole :
              u # t => (u \in held'[c] <=> u \in held[c]) /\ (u \in view'[c] <=> u \in view[c])
    BY <2>1, <1>0, DeleteSets
  <2>4. /\ \A r \in Reservations : r # t => state'[r] = state[r]
        /\ \A u \in Whole : u # t => resTo'[u] = resTo[u]
        /\ notCommitted' = notCommitted
    BY <2>1, <1>0, DeleteSets
  <2>5. Shrinks /\ Booked' = Booked \ {t}
    BY <2>3, <2>4, OneLess DEF Whole
  <2>6. Booked' \subseteq todo'
    BY <2>2, <2>5 DEF Bookings
  <2>7. workflow' = "Open" /\ phase' = "Delete" => Booked' = {}
    BY <2>2, <2>5 DEF Bookings
  <2> QED  BY <2>2, <2>5, <2>6, <2>7, ShrunkOutside
<1>12. CASE Rejected \/ Deleted
  <2>1. /\ phase \in {"Cancel", "Delete"} /\ todo = {} /\ phase' = "Idle"
        /\ workflow' \in {"Rejected", "Deleted"}
        /\ UNCHANGED <<held, view>>
    BY <1>12 DEF Rejected, Deleted, components
  <2>2. Booked = {}
    BY <2>1 DEF Bookings
  <2>3. Shrinks /\ Booked' = {}
    BY <2>1, <2>2, SameShrinks
  <2> QED  BY <2>1, <2>3, ShrunkOutside
<1>13. CASE Delete \/ Commit \/ Committed
  <2>1. /\ UNCHANGED <<held, view, state, notCommitted, resTo>>
        /\ \/ phase = "Idle" /\ phase' = "Delete" /\ todo' = Tasks /\ workflow' = workflow
           \/ phase' = "Commit" /\ todo' = Entry
           \/ phase' = "Idle" /\ workflow' = "Committed"
    BY <1>13 DEF Delete, Commit, Committed, store, tracking, components
  <2>2. Shrinks /\ Booked' = Booked
    BY <2>1, SameShrinks
  <2>3. workflow' = "Open" /\ phase' \in {"Idle", "Delete"} => Booked' = {}
    BY <2>1, <2>2 DEF Bookings
  <2> QED  BY <2>1, <2>2, <2>3, ShrunkOutside
<1>14. ASSUME NEW t \in Tasks, Waiting(t), CommitAtComponent(t, notCommitted[t]),
              \/ phase = "Idle" /\ workflow = "Committed" /\ phase' = "Idle"
              \/ phase = "Commit" /\ phase' = "Commit" /\ todo' = todo \ {t}
       PROVE  Bookings'
  <2>1. workflow' = workflow
    BY <1>14 DEF CommitAtComponent
  <2>2. /\ \A c \in Components : t \notin held'[c]
        /\ \A c \in Components, u \in Whole : u # t => (u \in held'[c] <=> u \in held[c])
        /\ \A r \in Reservations : r # t => state'[r] = state[r]
        /\ \A u \in Whole : u # t => notCommitted'[u] = notCommitted[u]
        /\ UNCHANGED <<resTo, view>>
    BY <1>14, <1>0, CommitSets
  <2>3. Shrinks /\ Booked' = Booked \ {t}
    BY <2>2, OneLess DEF Whole
  <2>4. phase' = "Commit" => Booked' \intersect Entry \subseteq todo'
    BY <2>3, <1>14 DEF Bookings
  <2> QED  BY <2>1, <2>3, <2>4, <1>14, ShrunkOutside
<1>15. ASSUME NEW t \in Tasks, Waiting(t), NEW f \in Tasks, CommitFails(t, notCommitted[t], f),
              f = t \/ f \notin Booked
       PROVE  Bookings'
  <2>1. phase' = "Dead"
    BY <1>15, <1>0, FailureSets
  <2>2. /\ \A c \in Components : t \notin held'[c]
        /\ \A c \in Components, u \in Whole :
              u # t => (u \in held'[c] <=> u \in held[c]) /\ (u \in view'[c] <=> u \in view[c])
    BY <1>15, <1>0, FailureSets
  <2>3. /\ \A r \in Reservations : r = t \/ r = f \/ state'[r] = state[r]
        /\ \A u \in Whole : u # t => notCommitted'[u] = notCommitted[u]
        /\ resTo' = resTo
    BY <1>15, <1>0, FailureSets
  <2>4. Shrinks
    BY <1>15, <2>2, <2>3, OneLess DEF Whole
  <2> QED  BY <2>1, <2>4, ShrunkOutside
<1>16. ASSUME NEW t \in Tasks, CommitEntry(t) PROVE Bookings'
  <2>1. phase = "Commit" /\ t \in todo /\ Waiting(t)
    BY <1>16 DEF CommitEntry
  <2>2. CASE CommitAtComponent(t, notCommitted[t]) /\ phase' = "Commit" /\ todo' = todo \ {t}
    BY <1>14, <2>1, <2>2
  <2>3. CASE \E f \in IF todo = Entry THEN {t} ELSE Entry \ todo : CommitFails(t, notCommitted[t], f)
    <3>1. PICK f \in Tasks : CommitFails(t, notCommitted[t], f) /\ (f = t \/ f \in Entry \ todo)
      BY <2>3, EntriesAre
    <3>2. f = t \/ f \notin Booked
      BY <2>1, <3>1 DEF Bookings
    <3> QED  BY <1>15, <2>1, <3>1, <3>2
  <2> QED  BY <1>16, <2>1, <2>2, <2>3 DEF CommitEntry
<1>17. ASSUME NEW t \in Tasks, CommitTask(t) PROVE Bookings'
  <2>1. CASE CommitAtComponent(t, notCommitted[t]) /\ phase' = phase
    BY <1>14, <1>17, <2>1 DEF CommitTask
  <2>2. CASE CommitFails(t, notCommitted[t], t)
    BY <1>15, <1>17, <2>2 DEF CommitTask
  <2> QED  BY <1>17, <2>1, <2>2 DEF CommitTask, control
<1>18. ASSUME NEW t \in Tasks, SkipEntry(t) PROVE Bookings'
  <2>1. /\ phase = "Commit" /\ phase' = "Commit" /\ todo' = todo \ {t} /\ state[t] # "ReserveAnswer"
        /\ UNCHANGED <<held, view, state, notCommitted, resTo>>
    BY <1>18 DEF SkipEntry, store, tracking, components
  <2>2. Shrinks /\ Booked' = Booked
    BY <2>1, SameShrinks
  <2>3. t \notin Booked
    BY <2>1 DEF Bookings
  <2> QED  BY <2>1, <2>2, <2>3, ShrunkOutside DEF Bookings
<1>19. ASSUME NEW j \in Jobs, JobRejected(j) PROVE Bookings'
  <2>1. /\ \A r \in Reservations : r # j => state'[r] = state[r]
        /\ \A u \in Whole : u # j => resTo'[u] = resTo[u]
    BY <1>19, NotBookedSets DEF JobRejected, Whole
  <2>2. /\ UNCHANGED <<held, view, notCommitted, workflow, phase>> /\ phase = "Idle"
    BY <1>19 DEF JobRejected, NotBooked, components, control
  <2>3. Shrinks /\ Booked' = Booked
    BY <2>1, <2>2, SameShrinks DEF Whole
  <2> QED  BY <2>2, <2>3, ShrunkOutside DEF Bookings
<1>20. ASSUME NEW j \in Jobs, NEW c \in Components, JobBooked(j, c) PROVE Bookings'
  <2>1. /\ phase' = "Dead" /\ view' = view
        /\ \A r \in Reservations : r # j => state'[r] = state[r]
        /\ \A u \in Whole : u # j => resTo'[u] = resTo[u] /\ notCommitted'[u] = notCommitted[u]
        /\ \A k \in Components, u \in Whole : u # j => (u \in held'[k] <=> u \in held[k])
    BY <1>20, JobSets
  <2>2. Shrinks
    BY <2>1 DEF Shrinks, Whole
  <2> QED  BY <2>1, <2>2, ShrunkOutside
<1>21. ASSUME NEW t \in Tasks, Expire(t) PROVE Bookings'
  <2>1. /\ \A r \in Reservations : r # t => state'[r] = state[r]
        /\ state'[t] = "Deleted"
        /\ UNCHANGED <<workflow, phase, group, todo, database, resTo, notCommitted>>
    BY <1>21, <1>0, ExpireSets DEF control, tracking
  <2>2. /\ \A c \in Components : t \notin held'[c]
        /\ \A c \in Components, u \in Whole :
              u # t => (u \in held'[c] <=> u \in held[c]) /\ (u \in view'[c] <=> u \in view[c])
    BY <1>21, <1>0, ExpireSets
  <2>3. Shrinks /\ Booked' = Booked \ {t}
    BY <2>1, <2>2, OneLess
  <2>4. BookingsTracked' /\ \A u \in Booked' : state'[u] = "ReserveAnswer"
    BY <2>3, Shrunk
  <2>5. Placed' = Placed /\ Entry' = Entry
    BY <2>1 DEF Placed, Group, Entry
  <2>6. \A u \in Tasks, c \in Components : u \in held'[c] => u \in held[c]
    BY <2>3 DEF Shrinks
  <2>7. Scheduling' =>
          \A u \in Tasks :
            /\ database'[u] # None <=> u \in Placed'
            /\ u \in Placed' => u \in Booked' \/ state'[u] = "Deleted"
            /\ \A c \in Components : u \in held'[c] => database'[u] = c
    BY <2>1, <2>3, <2>5, <2>6 DEF Bookings
  <2>8. /\ workflow' = "Open" /\ phase' \in {"Idle", "Delete"} => Booked' = {}
        /\ phase' \in {"Cancel", "Delete"} => Booked' \subseteq todo'
        /\ phase' = "Commit" => Booked' \intersect Entry' \subseteq todo'
    BY <2>1, <2>3, <2>5 DEF Bookings
  <2> QED  BY <2>4, <2>7, <2>8 DEF Bookings
<1> QED
  BY <1>1, <1>2, <1>3, <1>4, <1>5, <1>6, <1>7, <1>8, <1>9, <1>10, <1>11, <1>12, <1>13,
     <1>16, <1>17, <1>18, <1>19, <1>20, <1>21 DEF Next

-----------------------------------------------------------------------------
(* The intervals *)

\* Where a member has been placed, the first one has been, and all sources.
LEMMA SourcesFirst ==
  ASSUME TypeOK, Course, Scheduling, NEW g \in DOMAIN Groups, NEW t \in Groups[g] \intersect Placed
  PROVE  First[g] \in Placed /\ \A d \in IncomingData(g) : From[d] \in Placed
<1>1. t \in Tasks /\ First[g] \in Tasks /\ Group(t) = g /\ Group(First[g]) = g
  BY GroupsAre, GroupOf
<1>2. g \in Nat /\ group \in Nat
  BY GroupsAre DEF TypeOK
<1>3. g < group \/ (phase = "Members" /\ g = group)
  BY <1>1 DEF Placed
<1>4. First[g] \in Placed
  BY <1>1, <1>3 DEF Placed, Course
<1>5. ASSUME NEW d \in IncomingData(g) PROVE From[d] \in Placed
  <2>1. d \in Links /\ d \in Scheduled \ Sync /\ To[d] \in Groups[g]
    BY DEF IncomingData, Scheduled
  <2>2. From[d] \in Tasks /\ To[d] \in Tasks /\ Group(To[d]) = g
    BY <2>1, WorkflowAssumption, GroupOf
  <2>3. Group(From[d]) < g
    BY <2>1, <2>2, RankedAssumption
  <2>4. Group(From[d]) \in Nat
    BY <2>2, GroupOf, GroupsAre
  <2>5. Group(From[d]) < group
    BY <1>2, <1>3, <2>3, <2>4
  <2> QED  BY <2>2, <2>5 DEF Placed
<1> QED  BY <1>4, <1>5

\* A booking does not move what has been placed before.
LEMMA TimedBefore ==
  ASSUME TypeOK, Course, Timed, Scheduling,
         \A u \in Placed : window'[u] = window[u]
  PROVE  \A g \in DOMAIN Groups :
            /\ First[g] \in Placed => InTime(g, window[First[g]][1])'
            /\ \A u \in Groups[g] \intersect Placed : NotBefore(u, g)'
<1> SUFFICES ASSUME NEW g \in DOMAIN Groups
             PROVE  /\ First[g] \in Placed => InTime(g, window[First[g]][1])'
                    /\ \A u \in Groups[g] \intersect Placed : NotBefore(u, g)'
  OBVIOUS
<1>1. First[g] \in Groups[g]
  BY GroupsAre
<1>2. ASSUME First[g] \in Placed PROVE InTime(g, window[First[g]][1])'
  <2>1. InTime(g, window[First[g]][1])
    BY <1>2 DEF Timed
  <2>2. \A d \in IncomingData(g) : window'[From[d]] = window[From[d]]
    BY <1>1, <1>2, SourcesFirst
  <2>3. window'[First[g]] = window[First[g]]
    BY <1>2
  <2>4. IncomingData(g)' = IncomingData(g)
    BY DEF IncomingData, Scheduled, Group
  <2> QED  BY <2>1, <2>2, <2>3, <2>4 DEF InTime
<1>3. ASSUME NEW u \in Groups[g] \intersect Placed PROVE NotBefore(u, g)'
  <2>1. First[g] \in Placed /\ NotBefore(u, g)
    BY <1>3, SourcesFirst DEF Timed
  <2> QED  BY <1>3, <2>1 DEF NotBefore
<1> QED  BY <1>2, <1>3

\* Neither the intervals nor the answer change.
LEMMA TimedFrame ==
  ASSUME Timed, UNCHANGED window,
         Scheduling' => Scheduling /\ Placed' = Placed,
         workflow' \in {"ReserveAnswer", "Committed"} => Answered
  PROVE  Timed'
<1>1. \A g : IncomingData(g)' = IncomingData(g)
  BY DEF IncomingData, Scheduled, Group
<1>2. ASSUME Scheduling'
      PROVE  \A g \in DOMAIN Groups :
               /\ First[g] \in Placed' => InTime(g, window[First[g]][1])'
               /\ \A t \in Groups[g] \intersect Placed' : NotBefore(t, g)'
  <2>1. Scheduling /\ Placed' = Placed
    BY <1>2
  <2> QED  BY <1>1, <2>1 DEF Timed, InTime, NotBefore
<1>3. ASSUME Answered'
      PROVE  \A g \in DOMAIN Groups :
               /\ InTime(g, window[First[g]][1])'
               /\ \A t \in Groups[g] : NotBefore(t, g)'
  <2>1. Answered
    BY <1>3 DEF Answered
  <2> QED  BY <1>1, <2>1 DEF Timed, InTime, NotBefore
<1> QED  BY <1>2, <1>3 DEF Timed

LEMMA TimedBook ==
  ASSUME TypeOK, Course, Timed, Scheduling, NEW t \in Tasks \ Placed, NEW c \in Components,
         NEW w \in Interval, Book(t, c, w), Placed' = Placed \union {t},
         LET g == Group(t)
         IN  \/ t = First[g] /\ InTime(g, w[1])
             \/ /\ t # First[g] /\ First[g] \in Placed
                /\ window[First[g]][1] <= w[1]
  PROVE  Timed'
<1> DEFINE g == Group(t)
<1>1. /\ window'[t] = w /\ \A u \in Tasks : u # t => window'[u] = window[u]
      /\ workflow' = workflow
  BY BookSets
<1>2. workflow = "Open"
  BY DEF Course, Scheduling
<1>3. Placed \subseteq Tasks
  BY DEF Placed
<1>4. \A h \in DOMAIN Groups :
         /\ First[h] \in Placed => InTime(h, window[First[h]][1])'
         /\ \A u \in Groups[h] \intersect Placed : NotBefore(u, h)'
  BY <1>1, <1>3, TimedBefore
<1>5. g \in DOMAIN Groups /\ t \in Groups[g] /\ \A h \in DOMAIN Groups : t \in Groups[h] => h = g
  BY GroupOf
<1>6. \A h \in DOMAIN Groups : First[h] \in Groups[h] /\ Groups[h] \subseteq Tasks
  BY GroupsAre
<1>7. t = First[g] => InTime(g, window[First[g]][1])'
  <2> SUFFICES ASSUME t = First[g] PROVE InTime(g, window[First[g]][1])'
    OBVIOUS
  <2>1. InTime(g, w[1]) /\ window'[First[g]] = w
    BY <1>1
  <2>2. \A d \in IncomingData(g) : From[d] \in Tasks /\ From[d] # t
    <3> SUFFICES ASSUME NEW d \in IncomingData(g) PROVE From[d] \in Tasks /\ From[d] # t
      OBVIOUS
    <3>1. d \in Links /\ d \in Scheduled \ Sync /\ To[d] \in Groups[g]
      BY DEF IncomingData, Scheduled
    <3>2. From[d] \in Tasks /\ To[d] \in Tasks
      BY <3>1, WorkflowAssumption
    <3>3. Group(To[d]) = g /\ g \in Nat
      BY <1>5, <3>1, <3>2, GroupOf, GroupsAre
    <3>4. Group(From[d]) < g
      BY <3>1, <3>3, RankedAssumption
    <3> QED  BY <3>2, <3>3, <3>4
  <2>3. \A d \in IncomingData(g) : window'[From[d]] = window[From[d]]
    BY <1>1, <2>2
  <2>4. IncomingData(g)' = IncomingData(g)
    BY DEF IncomingData, Scheduled, Group
  <2> QED  BY <2>1, <2>3, <2>4 DEF InTime
<1>8. NotBefore(t, g)'
  <2>1. CASE t = First[g]
    <3>1. w[1] \in Nat
      BY DEF Interval
    <3> QED  BY <1>1, <2>1, <3>1 DEF NotBefore
  <2>2. CASE t # First[g]
    <3>1. window'[First[g]] = window[First[g]]
      BY <1>1, <1>5, <1>6, <2>2
    <3>2. window[First[g]][1] <= w[1]
      BY <2>2
    <3> QED  BY <1>1, <3>1, <3>2 DEF NotBefore
  <2> QED  BY <2>1, <2>2
<1> HIDE DEF g
<1>9. \A h \in DOMAIN Groups :
         /\ First[h] \in Placed' => InTime(h, window[First[h]][1])'
         /\ \A u \in Groups[h] \intersect Placed' : NotBefore(u, h)'
  <2> SUFFICES ASSUME NEW h \in DOMAIN Groups
               PROVE  /\ First[h] \in Placed' => InTime(h, window[First[h]][1])'
                      /\ \A u \in Groups[h] \intersect Placed' : NotBefore(u, h)'
    OBVIOUS
  <2>1. First[h] = t => h = g
    BY <1>5, <1>6
  <2>2. First[h] \in Placed' => InTime(h, window[First[h]][1])'
    BY <1>4, <1>7, <2>1
  <2>3. \A u \in Groups[h] \intersect Placed' : NotBefore(u, h)'
    BY <1>4, <1>5, <1>8
  <2> QED  BY <2>2, <2>3
<1>10. ~ Answered'
  BY <1>1, <1>2 DEF Answered
<1> QED  BY <1>9, <1>10 DEF Timed

LEMMA StepTimed ==
  ASSUME TypeOK, Course, Bookings, Timed, [Next]_vars
  PROVE  Timed'
<1> USE DEF Scheduling, Idle, GoTo
<1>0. BookingsTracked
  BY DEF Bookings
<1>1. CASE UNCHANGED <<window, workflow, phase, group, todo>>
  <2>1. Placed' = Placed
    BY <1>1 DEF Placed, Group
  <2> QED  BY <1>1, <2>1, TimedFrame DEF Answered
<1>2. CASE UNCHANGED <<window, workflow>> /\ phase' \notin {"First", "Members"}
  BY <1>2, TimedFrame DEF Answered
<1>3. CASE Reserve
  <2>1. /\ UNCHANGED <<window, workflow>> /\ workflow = "Open"
        /\ phase' = "First" /\ group' = 1
    BY <1>3 DEF Reserve, store
  <2>2. \A u \in Tasks : Group(u) \in 1 .. Len(Groups)
    BY GroupOf, GroupsAre
  <2>3. \A u \in Tasks : u \in Placed' => Group(u) < 1
    BY <2>1 DEF Placed, Group
  <2>4. \A u \in Tasks : u \notin Placed'
    BY <2>2, <2>3
  <2>5. \A g \in DOMAIN Groups : First[g] \in Tasks /\ Groups[g] \subseteq Tasks
    BY GroupsAre
  <2> QED  BY <2>1, <2>4, <2>5 DEF Timed, Answered
<1>4. CASE ReserveInfeasible \/ Rejected \/ Deleted \/ Committed
  <2>1. /\ window' = window
        /\ workflow' \in {"Rejected", "Deleted"} \/ (workflow' = "Committed" /\ Answered)
        /\ phase' = "Idle"
    BY <1>4 DEF ReserveInfeasible, Rejected, Deleted, Committed, control, Course, Answered
  <2> QED  BY <2>1, TimedFrame
<1>5. ASSUME NEW c \in Components, NEW w \in Intervals, BookFirst(c, w)
      PROVE  Timed'
  <2>1. /\ phase = "First" /\ group <= Len(Groups) /\ Book(First[group], c, w)
        /\ phase' = "Members" /\ todo' = Groups[group] \ {First[group]} /\ group' = group
        /\ InTime(group, w[1])
    BY <1>5 DEF BookFirst
  <2>2. /\ First[group] \in Tasks \ Placed /\ Placed' = Placed \union {First[group]}
        /\ group \in DOMAIN Groups
    BY <2>1, FirstIsNext
  <2>3. Group(First[group]) = group
    BY <2>2, GroupsAre, GroupOf
  <2> QED  BY <2>1, <2>2, <2>3, IntervalsAre, TimedBook
<1>6. ASSUME NEW c \in Components, NEW w \in Intervals, NEW t \in Tasks, BookMember(t, c, w)
      PROVE  Timed'
  <2>1. /\ phase = "Members" /\ t \in todo /\ Book(t, c, w)
        /\ phase' = "Members" /\ todo' = todo \ {t} /\ group' = group
        /\ window[First[group]][1] <= w[1]
    BY <1>6 DEF BookMember
  <2>2. /\ t \in Tasks \ Placed /\ Placed' = Placed \union {t}
        /\ group \in DOMAIN Groups /\ Group(t) = group
    BY <2>1, MemberIsNext
  <2>3. t # First[group] /\ First[group] \notin todo
    BY <2>1 DEF Course
  <2>4. First[group] \in Placed
    BY <2>1, <2>2, <2>3, GroupsAre, GroupOf DEF Placed
  <2> QED  BY <2>1, <2>2, <2>3, <2>4, IntervalsAre, TimedBook
<1>7. CASE FirstFails \/ TooLate \/ \E t \in Tasks : MemberFails(t)
  BY <1>2, <1>7 DEF FirstFails, TooLate, MemberFails, Cancel, NotBooked, store
<1>8. CASE RouteLinks
  <2>1. /\ phase = "Members" /\ todo = {} /\ phase' = "First" /\ group' = group + 1
        /\ UNCHANGED <<window, workflow>>
    BY <1>8 DEF RouteLinks
  <2> QED  BY <2>1, NextGroup, TimedFrame DEF Answered
<1>9. CASE Answer
  <2>1. /\ phase = "First" /\ group > Len(Groups) /\ UNCHANGED window
        /\ phase' \in {"Idle", "Dead"}
    BY <1>9 DEF Answer
  <2>2. Tasks \subseteq Placed
    <3>1. Len(Groups) \in Nat /\ group \in Nat
      BY GroupsAre DEF TypeOK
    <3>2. \A t \in Tasks : Group(t) \in Nat /\ Group(t) <= Len(Groups)
      BY GroupOf, GroupsAre
    <3>3. \A t \in Tasks : Group(t) < group
      BY <2>1, <3>1, <3>2
    <3> QED  BY <3>3 DEF Placed
  <2>3. \A g \in DOMAIN Groups :
           /\ InTime(g, window[First[g]][1])
           /\ \A t \in Groups[g] : NotBefore(t, g)
    BY <2>1, <2>2, GroupsAre DEF Timed
  <2>4. \A g : IncomingData(g)' = IncomingData(g)
    BY DEF IncomingData, Scheduled, Group
  <2>5. \A g \in DOMAIN Groups :
           /\ InTime(g, window[First[g]][1])'
           /\ \A t \in Groups[g] : NotBefore(t, g)'
    BY <2>1, <2>3, <2>4 DEF InTime, NotBefore
  <2> QED  BY <2>1, <2>5 DEF Timed
<1>10. ASSUME NEW t \in Tasks, CancelTask(t) \/ DeleteTask(t) PROVE Timed'
  BY <1>2, <1>10 DEF CancelTask, DeleteTask, DeleteAtComponent
<1>11. CASE Delete \/ Commit
  BY <1>2, <1>11 DEF Delete, Commit, store
<1>12. ASSUME NEW t \in Tasks, CommitEntry(t) \/ CommitTask(t) \/ SkipEntry(t) PROVE Timed'
  <2>1. UNCHANGED <<window, workflow>> /\ phase' \in {"Idle", "Commit", "Dead"}
    BY <1>12 DEF CommitEntry, CommitTask, SkipEntry, CommitAtComponent, CommitFails,
                 CommitRefused, CommitUnconfirmed, CommitFailure, store, control
  <2> QED  BY <1>2, <2>1
<1>13. ASSUME NEW j \in Jobs, JobRejected(j) \/ \E c \in Components : JobBooked(j, c)
       PROVE  Timed'
  <2>1. UNCHANGED <<window, workflow>> /\ phase' \in {"Idle", "Dead"}
    BY <1>13 DEF JobRejected, JobBooked, NotBooked, control
  <2> QED  BY <1>2, <2>1
<1>14. ASSUME NEW t \in Tasks, Expire(t) PROVE Timed'
  BY <1>0, <1>1, <1>14, ExpireSets DEF control
<1>15. CASE UNCHANGED vars
  BY <1>1, <1>15 DEF vars, store, control
<1> QED
  BY <1>3, <1>4, <1>5, <1>6, <1>7, <1>8, <1>9, <1>10, <1>11, <1>12, <1>13, <1>14, <1>15 DEF Next

-----------------------------------------------------------------------------
(* The promise *)

\* Booked, as the promise sees it
Granted == IF workflow = "Open" THEN {} ELSE Booked

PromiseNext == [Promise!Next]_<<workflow, Granted, Started>>

LEMMA NothingSeen ==
  ASSUME UNCHANGED workflow, Started' = Started, workflow = "Open" \/ Booked' = Booked
  PROVE  PromiseNext
BY DEF PromiseNext, Granted

LEMMA OneLost ==
  ASSUME NEW t \in Tasks, UNCHANGED workflow, Started' = Started, Booked' = Booked \ {t}
  PROVE  PromiseNext
<1>1. CASE workflow = "Open"
  BY <1>1, NothingSeen
<1>2. CASE workflow # "Open"
  <2>1. Granted' = Granted \ {t}
    BY <1>2 DEF Granted
  <2>2. Promise!Lose(t)
    BY <2>1 DEF Promise!Lose, Granted
  <2> QED  BY <2>2 DEF PromiseNext, Promise!Next
<1> QED  BY <1>1, <1>2

LEMMA OneStarted ==
  ASSUME NEW t \in Booked, UNCHANGED workflow, Answered,
         Started' = Started \union {t}, Booked' = Booked \ {t}
  PROVE  PromiseNext
<1>1. t \in Tasks
  BY BookedAre
<1>2. Promise!Start(t)
  BY DEF Promise!Start, Granted, Answered
<1> QED  BY <1>1, <1>2 DEF PromiseNext, Promise!Next

LEMMA StartedStays == running' = running => Started' = Started
BY DEF Started

LEMMA BookedStays == held' = held => Booked' = Booked
BY DEF Booked, Holders

LEMMA StepKeepsPromise ==
  ASSUME TypeOK, Course, Bookings, [Next]_vars
  PROVE  PromiseNext
<1> USE StartedStays, BookedStays, Disjoint, BookedAre DEF Idle, GoTo, components
<1>0. BookingsTracked
  BY DEF Bookings
<1>1. CASE UNCHANGED vars
  BY <1>1, NothingSeen DEF vars, store
<1>2. CASE Reserve \/ RouteLinks \/ TooLate \/ FirstFails \/ \E t \in Tasks : MemberFails(t)
  BY <1>2, NothingSeen DEF Reserve, RouteLinks, TooLate, FirstFails, MemberFails, NotBooked, store
<1>3. CASE ReserveInfeasible
  <2>1. Booked = {} /\ Booked' = {} /\ workflow = "Open" /\ workflow' = "Rejected" /\ Started' = Started
    BY <1>3 DEF ReserveInfeasible, Bookings
  <2>2. Promise!Refuse
    BY <2>1 DEF Promise!Refuse
  <2> QED  BY <2>2 DEF PromiseNext, Promise!Next, Granted
<1>4. ASSUME NEW c \in Components, NEW w \in Intervals, BookFirst(c, w)
      PROVE  PromiseNext
  <2>1. workflow = "Open" /\ UNCHANGED <<workflow, running>>
    BY <1>4 DEF BookFirst, Book, Course
  <2> QED  BY <2>1, NothingSeen
<1>5. ASSUME NEW c \in Components, NEW w \in Intervals, NEW t \in Tasks, BookMember(t, c, w)
      PROVE  PromiseNext
  <2>1. workflow = "Open" /\ UNCHANGED <<workflow, running>>
    BY <1>5 DEF BookMember, Book, Course
  <2> QED  BY <2>1, NothingSeen
<1>6. CASE Answer
  <2>1. /\ phase = "First" /\ group > Len(Groups) /\ workflow = "Open"
        /\ UNCHANGED <<state, held, running, database>>
    BY <1>6 DEF Answer, Course
  <2>2. CASE phase' = "Dead"
    BY <1>6, <2>1, <2>2, NothingSeen DEF Answer
  <2>3. CASE phase' # "Dead"
    <3>1. /\ workflow' = "ReserveAnswer"
          /\ \A t \in Tasks : database[t] # None => state[t] \in {"ReserveAnswer", "Committed"}
      BY <1>6, <2>3 DEF Answer
    <3>2. Tasks \subseteq Placed
      <4>1. Len(Groups) \in Nat /\ group \in Nat
        BY GroupsAre DEF TypeOK
      <4>2. \A t \in Tasks : Group(t) \in Nat /\ Group(t) <= Len(Groups)
        BY GroupOf, GroupsAre
      <4>3. \A t \in Tasks : Group(t) < group
        BY <2>1, <4>1, <4>2
      <4> QED  BY <4>3 DEF Placed
    <3>3. Booked = Tasks
      BY <2>1, <3>1, <3>2 DEF Bookings, Scheduling
    <3>4. Promise!Reserve
      BY <2>1, <3>1, <3>3 DEF Promise!Reserve
    <3> QED  BY <3>4 DEF PromiseNext, Promise!Next, Granted
  <2> QED  BY <2>2, <2>3
<1>7. ASSUME NEW t \in Tasks, CancelTask(t) \/ DeleteTask(t) PROVE PromiseNext
  <2>1. DeleteAtComponent(t) /\ UNCHANGED workflow
    BY <1>7 DEF CancelTask, DeleteTask
  <2>2. /\ \A c \in Components : t \notin held'[c]
        /\ \A c \in Components, u \in Whole : u # t => (u \in held'[c] <=> u \in held[c])
        /\ running' = running
    BY <2>1, <1>0, DeleteSets
  <2>3. Booked' = Booked \ {t}
    BY <2>2 DEF Booked, Holders, Whole
  <2> QED  BY <2>1, <2>2, <2>3, OneLost
<1>8. CASE Rejected \/ Deleted
  <2>1. /\ Booked = {} /\ Booked' = {} /\ Started' = Started
        /\ workflow' \in {"Rejected", "Deleted"}
        /\ workflow \in {"Open", "ReserveAnswer", "Committed"}
    BY <1>8 DEF Rejected, Deleted, Bookings, Course
  <2>2. Promise!Refuse \/ Promise!Release
    BY <2>1 DEF Promise!Refuse, Promise!Release
  <2> QED  BY <2>2 DEF PromiseNext, Promise!Next, Granted
<1>9. CASE Delete \/ Commit \/ \E t \in Tasks : SkipEntry(t)
  BY <1>9, NothingSeen DEF Delete, Commit, SkipEntry, store
<1>10. CASE Committed
  <2>1. /\ Booked \intersect Entry = {} /\ Booked' = Booked /\ Started' = Started
        /\ workflow = "ReserveAnswer" /\ workflow' = "Committed"
    BY <1>10 DEF Committed, Bookings, Course
  <2>2. Promise!Commit
    BY <2>1 DEF Promise!Commit
  <2> QED  BY <2>2 DEF PromiseNext, Promise!Next, Granted
<1>11. ASSUME NEW t \in Tasks, Waiting(t), CommitAtComponent(t, notCommitted[t]), Answered
       PROVE  PromiseNext
  <2>1. /\ t \in Booked /\ UNCHANGED workflow /\ Started' = Started \union {t}
        /\ \A k \in Components : t \notin held'[k]
        /\ \A k \in Components, u \in Whole : u # t => (u \in held'[k] <=> u \in held[k])
    BY <1>0, <1>11, CommitSets
  <2>2. Booked' = Booked \ {t}
    BY <2>1 DEF Booked, Holders, Whole
  <2> QED  BY <1>11, <2>1, <2>2, OneStarted
<1>12. ASSUME NEW t \in Tasks, Waiting(t), NEW f \in Tasks, CommitFails(t, notCommitted[t], f),
              Answered
       PROVE  PromiseNext
  <2>1. /\ t \in Booked /\ UNCHANGED workflow
        /\ Started' = Started \/ Started' = Started \union {t}
        /\ \A k \in Components : t \notin held'[k]
        /\ \A k \in Components, u \in Whole : u # t => (u \in held'[k] <=> u \in held[k])
    BY <1>0, <1>12, FailureSets
  <2>2. Booked' = Booked \ {t}
    BY <2>1 DEF Booked, Holders, Whole
  <2> QED  BY <1>12, <2>1, <2>2, OneStarted, OneLost
<1>13. ASSUME NEW t \in Tasks, CommitEntry(t) \/ CommitTask(t) PROVE PromiseNext
  <2>1. Waiting(t) /\ Answered
    BY <1>13 DEF CommitEntry, CommitTask, Answered, Course
  <2>2. \/ CommitAtComponent(t, notCommitted[t])
        \/ \E f \in Tasks : CommitFails(t, notCommitted[t], f)
    BY <1>13, EntriesAre DEF CommitEntry, CommitTask
  <2> QED  BY <1>11, <1>12, <2>1, <2>2
<1>14. ASSUME NEW j \in Jobs, JobRejected(j) PROVE PromiseNext
  BY <1>14, NothingSeen DEF JobRejected, NotBooked
<1>15. ASSUME NEW j \in Jobs, NEW c \in Components, JobBooked(j, c) PROVE PromiseNext
  <2>1. /\ UNCHANGED <<workflow, running>>
        /\ \A k \in Components, u \in Whole : u # j => (u \in held'[k] <=> u \in held[k])
    BY <1>15, JobSets
  <2>2. Booked' = Booked
    BY <2>1 DEF Booked, Holders, Whole
  <2> QED  BY <2>1, <2>2, NothingSeen
<1>16. ASSUME NEW t \in Tasks, Expire(t) PROVE PromiseNext
  <2>1. /\ UNCHANGED <<workflow, running>>
        /\ \A k \in Components : t \notin held'[k]
        /\ \A k \in Components, u \in Whole : u # t => (u \in held'[k] <=> u \in held[k])
    BY <1>0, <1>16, ExpireSets
  <2>2. Booked' = Booked \ {t}
    BY <2>1 DEF Booked, Holders, Whole
  <2> QED  BY <2>1, <2>2, OneLost
<1> QED
  BY <1>1, <1>2, <1>3, <1>4, <1>5, <1>6, <1>7, <1>8, <1>9, <1>10, <1>13, <1>14, <1>15, <1>16 DEF Next

-----------------------------------------------------------------------------
(* The theorems *)

LEMMA InitIInv == Init => IInv /\ Promise!Init
<1> SUFFICES ASSUME Init PROVE IInv /\ Promise!Init
  OBVIOUS
<1> USE DEF Init
<1>1. TypeOK
  <2>1. 1 \in 1 .. Len(Groups) + 1 /\ <<0, 0>> \in Interval
    BY GroupsAre DEF Interval
  <2>2. None \in MaybeComponent
    BY DEF MaybeComponent
  <2> QED  BY <2>1, <2>2, StatesAre DEF TypeOK, Phases
<1>2. Booked = {} /\ Started = {}
  BY DEF Booked, Holders, Started
<1>3. Course
  BY DEF Course
<1>4. Bookings
  BY <1>2 DEF Bookings, BookingsTracked, Scheduling
<1>5. Timed
  BY DEF Timed, Scheduling, Answered
<1>6. Promise!Init
  BY <1>2 DEF Promise!Init
<1> QED  BY <1>1, <1>3, <1>4, <1>5, <1>6 DEF IInv

LEMMA StepIInv == IInv /\ [Next]_vars => IInv' /\ PromiseNext
<1> SUFFICES ASSUME IInv, [Next]_vars PROVE IInv' /\ PromiseNext
  OBVIOUS
<1>1. TypeOK' /\ Course'
  BY StepTyped DEF IInv, Bookings
<1>2. Bookings'
  BY StepBookings DEF IInv
<1>3. Timed'
  BY StepTimed DEF IInv
<1>4. PromiseNext
  BY StepKeepsPromise DEF IInv
<1> QED  BY <1>1, <1>2, <1>3, <1>4 DEF IInv

LEMMA Invariance == Spec => []IInv
<1>1. Init => IInv
  BY InitIInv
<1>2. IInv /\ [Next]_vars => IInv'
  BY StepIInv
<1> QED  BY <1>1, <1>2, PTL DEF Spec

\* The variables of scheduler and manager keep their types.
THEOREM ReserveTyped == Spec => []TypeOK
<1>1. IInv => TypeOK
  BY DEF IInv
<1> QED  BY <1>1, Invariance, PTL

\* Whatever workflow is reserved, deleted or committed, and whatever expires
\* or fails in the middle: what a component holds is noted where a deletion
\* and a commit look for it (reserve, delete_task_at_component,
\* commit_at_component).
THEOREM BookingsCanBeFound == Spec => []BookingsTracked
<1>1. IInv => BookingsTracked
  BY DEF IInv, Bookings
<1> QED  BY <1>1, Invariance, PTL

\* The interval of a task begins after the end of all its sources and the
\* transfers from there (reserve of HEFTSyncWorkflowScheduler): although only
\* the ranked member of a co-allocation is given the interval that was
\* computed, since the other members do not start before it.
THEOREM DataArrivesInTime == Spec => []PrecedenceKept
<1>1. IInv => PrecedenceKept
  <2> SUFFICES ASSUME IInv, Answered, NEW d \in Scheduled \ Sync
               PROVE  window[To[d]][1] >= window[From[d]][2] + Transfer[d]
    BY DEF PrecedenceKept
  <2> DEFINE g == Group(To[d])
  <2>1. d \in Links /\ From[d] \in Tasks /\ To[d] \in Tasks /\ Transfer[d] \in Nat
    BY WorkflowAssumption DEF Scheduled
  <2>2. g \in DOMAIN Groups /\ To[d] \in Groups[g] /\ First[g] \in Tasks
    BY <2>1, GroupOf, GroupsAre
  <2>3. InTime(g, window[First[g]][1]) /\ NotBefore(To[d], g)
    BY <2>2 DEF IInv, Timed
  <2> HIDE DEF g
  <2>4. d \in IncomingData(g)
    BY <2>2 DEF IncomingData
  <2>5. window[First[g]][1] >= window[From[d]][2] + Transfer[d]
    BY <2>3, <2>4 DEF InTime
  <2>6. window[First[g]][1] <= window[To[d]][1]
    BY <2>3 DEF NotBefore
  <2>7. window[To[d]] \in Interval /\ window[From[d]] \in Interval /\ window[First[g]] \in Interval
    BY <2>1, <2>2 DEF IInv, TypeOK
  <2> QED  BY <2>1, <2>5, <2>6, <2>7 DEF Interval
<1> QED  BY <1>1, Invariance, PTL

\* Scheduler and manager implement the promise of an ADC: all tasks or none.
THEOREM PromiseIsKept == Spec => AllOrNothing
<1>1. Init => Promise!Init
  BY InitIInv
<1>2. IInv /\ [Next]_vars => [Promise!Next]_Promise!vars
  <2>1. Promise!vars = <<workflow, Granted, Started>>
    BY DEF Promise!vars, Granted
  <2>2. Promise!vars' = <<workflow, Granted, Started>>'
    BY DEF Promise!vars, Granted
  <2> QED  BY <2>1, <2>2, StepIInv DEF PromiseNext
<1> QED  BY <1>1, <1>2, Invariance, PTL DEF Spec, AllOrNothing, Promise!Spec

=============================================================================
