----------------------------- MODULE AcI_proofs -----------------------------
(* Proofs about AcI, for any set of reservations and shadow schedules.     *)
EXTENDS AcI, TLAPS

-----------------------------------------------------------------------------
(* Tables of reservations *)

LEMMA TableValue ==
    ASSUME NEW names, NEW table \in Tables(names), NEW s \in DOMAIN table
    PROVE  table[s] \subseteq Reservations
<1>1. PICK ids \in SUBSET names : table \in [ids -> SUBSET Reservations]
    BY DEF Tables
<1> QED BY <1>1

LEMMA TableWith ==
    ASSUME NEW names, NEW table \in Tables(names), NEW s \in names,
           NEW rs \in SUBSET Reservations
    PROVE  /\ With(table, s, rs) \in Tables(names)
           /\ DOMAIN With(table, s, rs) = DOMAIN table \union {s}
<1>1. PICK ids \in SUBSET names : table \in [ids -> SUBSET Reservations]
    BY DEF Tables
<1>2. With(table, s, rs) \in [ids \union {s} -> SUBSET Reservations]
    BY <1>1 DEF With
<1>3. ids \union {s} \in SUBSET names
    OBVIOUS
<1> QED BY <1>1, <1>2, <1>3 DEF Tables, With

LEMMA TableWithout ==
    ASSUME NEW names, NEW table \in Tables(names), NEW s
    PROVE  /\ Without(table, s) \in Tables(names)
           /\ DOMAIN Without(table, s) = DOMAIN table \ {s}
<1>1. PICK ids \in SUBSET names : table \in [ids -> SUBSET Reservations]
    BY DEF Tables
<1>2. Without(table, s) \in [ids \ {s} -> SUBSET Reservations]
    BY <1>1 DEF Without
<1>3. ids \ {s} \in SUBSET names
    OBVIOUS
<1> QED BY <1>1, <1>2, <1>3 DEF Tables, Without

LEMMA EmptyTable ==
    ASSUME NEW names
    PROVE  [s \in {} |-> {}] \in Tables(names)
<1>1. [s \in {} |-> {}] \in [{} -> SUBSET Reservations]
    OBVIOUS
<1> QED BY <1>1 DEF Tables

\* The tables of the RMS are those that have the master schedule.
Schedulings == {table \in Tables(ShadowIds \union {Master}) : Master \in DOMAIN table}

LEMMA SchedulesWith ==
    ASSUME NEW table \in Schedulings, NEW w \in ShadowIds \union {Master},
           NEW rs \in SUBSET Reservations
    PROVE  With(table, w, rs) \in Schedulings
<1> DEFINE names == ShadowIds \union {Master}
<1>1. table \in Tables(names) /\ w \in names
    BY DEF Schedulings
<1>4. Master \in DOMAIN table
    BY DEF Schedulings
<1> HIDE DEF names
<1>2. With(table, w, rs) \in Tables(names)
    BY <1>1, TableWith
<1>5. DOMAIN With(table, w, rs) = DOMAIN table \union {w}
    BY DEF With
<1>3. Master \in DOMAIN With(table, w, rs)
    BY <1>4, <1>5
<1> QED BY <1>2, <1>3 DEF Schedulings, names

LEMMA SchedulesWithout ==
    ASSUME NEW table \in Schedulings, NEW s \in ShadowIds
    PROVE  Without(table, s) \in Schedulings
<1> DEFINE names == ShadowIds \union {Master}
<1>1. table \in Tables(names)
    BY DEF Schedulings
<1>5. Master \in DOMAIN table
    BY DEF Schedulings
<1> HIDE DEF names
<1>2. /\ Without(table, s) \in Tables(names)
      /\ DOMAIN Without(table, s) = DOMAIN table \ {s}
    BY <1>1, TableWithout
<1>3. s # Master
    BY AcIAssumption
<1>4. Master \in DOMAIN Without(table, s)
    BY <1>2, <1>3, <1>5
<1> QED BY <1>2, <1>4 DEF Schedulings, names

-----------------------------------------------------------------------------
(* Types *)

\* Every call leaves well-typed tables and states.
LEMMA TypeStep == TypeOK /\ [Next]_vars => TypeOK'
<1> SUFFICES ASSUME TypeOK, [Next]_vars
             PROVE  TypeOK'
    OBVIOUS
<1> USE DEF TypeOK
<1>a. ASSUME NEW r \in Reservations, NEW new \in ReservationState, SetState(r, new)
      PROVE  state' \in [Reservations -> ReservationState]
    BY <1>a DEF SetState
<1>b. {"Rejected", "Deleted", "Open", "ProbeAnswer", "ProbeReservation",
        "ReserveAnswer", "Finished"} = ReservationState
    BY DEF ReservationState
<1>c. \A w \in DOMAIN schedules : schedules[w] \subseteq Reservations
    BY TableValue
<1>d. \A s \in DOMAIN shadowReservations : shadowReservations[s] \subseteq Reservations
    BY TableValue
<1>e. \A w \in DOMAIN schedules : w \in ShadowIds \union {Master}
    BY DEF Tables
<1>f. \A s \in DOMAIN shadowReservations : s \in ShadowIds
    BY DEF Tables
<1>j. schedules \in Schedulings
    BY DEF Schedulings
<1>g. ASSUME NEW w \in DOMAIN schedules, NEW rs \in SUBSET Reservations
      PROVE  With(schedules, w, rs) \in Schedulings
    BY <1>e, <1>j, SchedulesWith
<1>h. ASSUME NEW r \in Reservations, Reject(r)
      PROVE  /\ state' \in [Reservations -> ReservationState]
             /\ UNCHANGED <<schedules, ended>>
    BY <1>a, <1>b, <1>h DEF Reject
<1>i. ASSUME NEW r \in Reservations, NEW w \in DOMAIN schedules, Book(r, w)
      PROVE  /\ schedules' \in Schedulings
             /\ ended' \subseteq Reservations
  <2>1. schedules[w] \union {r} \in SUBSET Reservations
      BY <1>c
  <2> QED BY <1>g, <1>i, <2>1 DEF Book
<1>1. ASSUME NEW r \in Reservations, Commit(r)
      PROVE  TypeOK'
    BY <1>1, <1>a, <1>b DEF Commit, shadows
<1>2. ASSUME NEW r \in Reservations, CommitDirectly(r)
      PROVE  TypeOK'
  <2>1. CASE ~ Routes(r, Master)
      BY <1>2, <2>1 DEF CommitDirectly, Panic, tracking, shadows
  <2>2. CASE Routes(r, Master)
      BY <1>2, <2>2, <1>a, <1>b, <1>i DEF CommitDirectly, shadows, Schedulings
  <2> QED BY <2>1, <2>2
<1>3. ASSUME NEW r \in Reservations, CommitRejected(r)
      PROVE  TypeOK'
    BY <1>3, <1>h DEF CommitRejected, tracking, shadows
<1>4. ASSUME NEW r \in Reservations, End(r)
      PROVE  TypeOK'
    BY <1>4 DEF End, tracking, shadows
<1>5. ASSUME NEW r \in Reservations, Promote(r) \/ Reopen(r)
      PROVE  TypeOK'
    BY <1>5, <1>a, <1>b DEF Promote, Reopen, tracking, shadows
<1>6. ASSUME NEW r \in Reservations, NEW w \in ShadowIds \union {Master}, Probe(r, w)
      PROVE  TypeOK'
    BY <1>6, <1>a, <1>b DEF Probe, Panic, tracking, shadows
<1>7. ASSUME NEW r \in Reservations, NEW w \in ShadowIds \union {Master},
             ReserveRejected(r, w) \/ DeleteRejected(r, w)
      PROVE  TypeOK'
    BY <1>7, <1>h DEF ReserveRejected, DeleteRejected, tracking, shadows
<1>8. ASSUME NEW r \in Reservations, NEW w \in ShadowIds \union {Master}, Reserve(r, w)
      PROVE  TypeOK'
  <2>1. CASE ~ Routes(r, w)
      BY <1>8, <2>1 DEF Reserve, Panic, tracking, shadows
  <2>2. CASE Routes(r, w) /\ w = Master
      BY <1>8, <2>2, <1>a, <1>b, <1>i DEF Reserve, Routes, ReserveAccepted, shadows, Schedulings
  <2>3. CASE Routes(r, w) /\ w # Master
    <3>1. w \in ShadowIds /\ ReserveAcceptedInShadow(r, w) /\ Book(r, w) /\ UNCHANGED panicked
        BY <1>8, <2>3 DEF Reserve
    <3>2. With(shadowReservations, w, {r}) \in Tables(ShadowIds)
        BY <3>1, TableWith
    <3>3. /\ schedules' \in Schedulings
          /\ ended' \subseteq Reservations
        BY <2>3, <3>1, <1>i DEF Routes
    <3> QED BY <3>1, <3>2, <3>3, <1>a, <1>b DEF ReserveAcceptedInShadow, tracking, shadows,
                                               Schedulings
  <2> QED BY <2>1, <2>2, <2>3
<1>9. ASSUME NEW r \in Reservations, NEW w \in ShadowIds \union {Master}, Delete(r, w)
      PROVE  TypeOK'
  <2>1. /\ notCommitted' \subseteq Reservations
        /\ shadowReservations' \in Tables(ShadowIds)
    <3>1. CASE w = Master /\ UNCHANGED shadowReservations
        BY <1>9, <3>1 DEF Delete
    <3>2. CASE /\ w \in DOMAIN shadowReservations
               /\ shadowReservations' =
                     With(shadowReservations, w, shadowReservations[w] \ {r})
      <4>1. shadowReservations[w] \ {r} \in SUBSET Reservations
          BY <3>2, <1>d
      <4> QED BY <1>9, <3>2, <4>1, <1>f, TableWith DEF Delete
    <3> QED BY <1>9, <3>1, <3>2 DEF Delete
  <2>2. /\ UNCHANGED <<committed, openShadows>>
        /\ panicked' \in BOOLEAN
      BY <1>9 DEF Delete
  <2>3. /\ state' \in [Reservations -> ReservationState]
        /\ schedules' \in Schedulings
        /\ ended' \subseteq Reservations
    <3>1. CASE UNCHANGED <<state, schedules, ended>>
        BY <3>1, <1>j
    <3>2. CASE Routes(r, w) /\ Unbook(r, w)
      <4>1. schedules[w] \ {r} \in SUBSET Reservations
          BY <3>2, <1>c DEF Routes
      <4> QED BY <3>2, <4>1, <1>a, <1>b, <1>g, <1>h, <1>j DEF Routes, Unbook
    <3> QED BY <1>9, <3>1, <3>2 DEF Delete
  <2> QED BY <2>1, <2>2, <2>3 DEF Schedulings
<1>10. ASSUME NEW r \in Reservations, NEW w \in ShadowIds \union {Master}, Expire(r, w)
       PROVE  TypeOK'
  <2>1. schedules[w] \ {r} \in SUBSET Reservations
      BY <1>10, <1>c DEF Expire
  <2> QED BY <1>10, <2>1, <1>a, <1>b, <1>g DEF Expire, tracking, shadows, Schedulings
<1>11. ASSUME NEW s \in ShadowIds, CreateShadow(s)
       PROVE  TypeOK'
  <2>1. With(schedules, s, schedules[Master]) \in Schedulings
      BY <1>c, <1>j, SchedulesWith
  <2>2. With(shadowReservations, s, committed) \in Tables(ShadowIds)
      BY TableWith
  <2> QED BY <1>11, <2>1, <2>2 DEF CreateShadow, tracking, shadows, Schedulings
<1>12. ASSUME NEW s \in ShadowIds, CommitShadow(s)
       PROVE  TypeOK'
  <2>1. CASE s \notin DOMAIN shadowReservations \/ s \notin DOMAIN schedules
      BY <1>12, <2>1 DEF CommitShadow, Panic, tracking, shadows
  <2>2. CASE s \in DOMAIN shadowReservations /\ s \in DOMAIN schedules
    <3>1. With(schedules, Master, schedules[s]) \in Schedulings
        BY <2>2, <1>c, <1>g
    <3>2. Without(With(schedules, Master, schedules[s]), s) \in Schedulings
        BY <3>1, SchedulesWithout
    <3>3. Without(shadowReservations, s) \in Tables(ShadowIds)
        BY TableWithout
    <3> QED BY <1>12, <2>2, <3>2, <3>3, <1>d DEF CommitShadow, Schedulings
  <2> QED BY <2>1, <2>2
<1>13. ASSUME NEW s \in ShadowIds, DeleteShadow(s)
       PROVE  TypeOK'
  <2>1. Without(schedules, s) \in Schedulings
      BY <1>j, SchedulesWithout
  <2>2. Without(shadowReservations, s) \in Tables(ShadowIds)
      BY TableWithout
  <2>3. panicked' \in BOOLEAN
      BY <1>13 DEF DeleteShadow
  <2> QED BY <1>13, <2>1, <2>2, <2>3 DEF DeleteShadow, tracking, Schedulings
<1>14. CASE UNCHANGED vars
    BY <1>14 DEF vars
<1> QED BY <1>1, <1>2, <1>3, <1>4, <1>5, <1>6, <1>7, <1>8, <1>9, <1>10, <1>11,
           <1>12, <1>13, <1>14 DEF Next

LEMMA TypeInit == Init => TypeOK
<1> SUFFICES ASSUME Init PROVE TypeOK
    OBVIOUS
<1>1. schedules \in Tables(ShadowIds \union {Master})
  <2>1. schedules \in [{Master} -> SUBSET Reservations]
      BY DEF Init
  <2>2. {Master} \in SUBSET (ShadowIds \union {Master})
      OBVIOUS
  <2> QED BY <2>1, <2>2 DEF Tables
<1> QED BY <1>1, EmptyTable DEF Init, TypeOK, ReservationState

\* TypeOK, for any number of reservations and shadow schedules.
THEOREM AcITyped == Spec => []TypeOK
    BY TypeInit, TypeStep, PTL DEF Spec

-----------------------------------------------------------------------------
(* Promises *)

\* What the AcI remembers of a reservation was found on a schedule, so a delete
\* of it does not panic half-way.
Deletable == NodeOnly => notCommitted \intersect Links = {}

PromiseInv == TypeOK /\ Deletable /\ PromiseIsTracked

LEMMA PromiseStep == PromiseInv /\ [Next]_vars => PromiseInv'
<1> SUFFICES ASSUME PromiseInv, [Next]_vars
             PROVE  Deletable' /\ PromiseIsTracked'
    BY TypeStep DEF PromiseInv
<1> USE DEF PromiseInv
<1>a. ASSUME NEW r \in Reservations, NEW new, SetState(r, new)
      PROVE  /\ state'[r] = new
             /\ \A q \in Reservations \ {r} : state'[q] = state[q]
    BY <1>a DEF SetState, TypeOK
<1>b. ASSUME NEW r \in Reservations, NEW new, SetState(r, new), new # "ReserveAnswer",
             UNCHANGED ended,
             notCommitted' = notCommitted \/ notCommitted' = notCommitted \ {r}
      PROVE  Deletable' /\ PromiseIsTracked'
    BY <1>a, <1>b DEF Deletable, PromiseIsTracked
<1>c. ASSUME UNCHANGED <<state, notCommitted>>, ended \subseteq ended'
      PROVE  Deletable' /\ PromiseIsTracked'
    BY <1>c DEF Deletable, PromiseIsTracked
<1>d. ASSUME NEW r \in Reservations, NEW w, Routes(r, w), Book(r, w),
             SetState(r, "ReserveAnswer"), notCommitted' = notCommitted \union {r}
      PROVE  Deletable' /\ PromiseIsTracked'
    BY <1>a, <1>d DEF Deletable, PromiseIsTracked, Routes, Book
<1>e. ASSUME NEW r \in Reservations, NEW w, Book(r, w), NEW new, SetState(r, new),
             new # "ReserveAnswer", UNCHANGED notCommitted
      PROVE  Deletable' /\ PromiseIsTracked'
    BY <1>a, <1>e DEF Deletable, PromiseIsTracked, Book
<1>1. ASSUME NEW r \in Reservations, Commit(r)
      PROVE  Deletable' /\ PromiseIsTracked'
  <2>1. CASE SetState(r, "Finished")
      BY <1>1, <2>1, <1>b DEF Commit
  <2>2. CASE SetState(r, "Rejected")
      BY <1>1, <2>2, <1>b DEF Commit
  <2> QED BY <1>1, <2>1, <2>2 DEF Commit
<1>2. ASSUME NEW r \in Reservations, CommitDirectly(r)
      PROVE  Deletable' /\ PromiseIsTracked'
  <2>1. CASE Routes(r, Master)
      BY <1>2, <2>1, <1>e DEF CommitDirectly
  <2>2. CASE ~ Routes(r, Master)
      BY <1>2, <2>2, <1>c DEF CommitDirectly, Panic, tracking
  <2> QED BY <2>1, <2>2
<1>3. ASSUME NEW r \in Reservations, NEW w,
             CommitRejected(r) \/ ReserveRejected(r, w) \/ DeleteRejected(r, w)
      PROVE  Deletable' /\ PromiseIsTracked'
    BY <1>3, <1>b DEF CommitRejected, ReserveRejected, DeleteRejected, Reject, tracking
<1>4. ASSUME NEW r \in Reservations, NEW w, Expire(r, w) \/ Promote(r) \/ Reopen(r)
      PROVE  Deletable' /\ PromiseIsTracked'
    BY <1>4, <1>b DEF Expire, Promote, Reopen, tracking
<1>5. ASSUME NEW r \in Reservations, End(r)
      PROVE  Deletable' /\ PromiseIsTracked'
    BY <1>5, <1>c DEF End, tracking
<1>6. ASSUME NEW r \in Reservations, NEW w, Probe(r, w)
      PROVE  Deletable' /\ PromiseIsTracked'
  <2>1. CASE Panic
      BY <2>1, <1>c DEF Panic, tracking
  <2>2. CASE SetState(r, "ProbeAnswer") /\ UNCHANGED <<ended, tracking>>
      BY <2>2, <1>b DEF tracking
  <2>3. CASE SetState(r, "Rejected") /\ UNCHANGED <<ended, tracking>>
      BY <2>3, <1>b DEF tracking
  <2> QED BY <1>6, <2>1, <2>2, <2>3 DEF Probe
<1>7. ASSUME NEW r \in Reservations, NEW w, Reserve(r, w)
      PROVE  Deletable' /\ PromiseIsTracked'
  <2>1. CASE ~ Routes(r, w)
      BY <1>7, <2>1, <1>c DEF Reserve, Panic, tracking
  <2>2. CASE Routes(r, w) /\ w = Master
      BY <1>7, <2>2, <1>d DEF Reserve, ReserveAccepted
  <2>3. CASE /\ Routes(r, w)
             /\ w # Master
             /\ w \in DOMAIN shadowReservations
      BY <1>7, <2>3, <1>e DEF Reserve, ReserveAcceptedInShadow, tracking
  <2>4. CASE /\ Routes(r, w)
             /\ w # Master
             /\ w \notin DOMAIN shadowReservations
      BY <1>7, <2>4, <1>d DEF Reserve, ReserveAcceptedInShadow
  <2> QED BY <2>1, <2>2, <2>3, <2>4
<1>8. ASSUME NEW r \in Reservations, NEW w, Delete(r, w)
      PROVE  Deletable' /\ PromiseIsTracked'
  <2>1. \/ w = Master /\ r \in notCommitted /\ notCommitted' = notCommitted \ {r}
        \/ UNCHANGED notCommitted
      BY <1>8 DEF Delete
  <2>2. CASE ~ Routes(r, w)
    <3>1. UNCHANGED <<state, ended>>
        BY <1>8, <2>2 DEF Delete
    <3>2. UNCHANGED notCommitted
        BY <2>1, <2>2 DEF Routes, Deletable, TypeOK
    <3> QED BY <3>1, <3>2, <1>c
  <2>3. CASE Routes(r, w) /\ Unbook(r, w)
    <3>1. CASE r \notin schedules[w]
        BY <2>1, <2>3, <3>1, <1>b DEF Unbook, Reject
    <3>2. CASE r \in schedules[w] /\ r \notin ended
        BY <2>1, <2>3, <3>2, <1>b DEF Unbook
    <3>3. CASE r \in schedules[w] /\ r \in ended
        BY <2>1, <2>3, <3>3 DEF Unbook, Deletable, PromiseIsTracked
    <3> QED BY <3>1, <3>2, <3>3
  <2> QED BY <1>8, <2>2, <2>3 DEF Delete
<1>9. ASSUME NEW s \in ShadowIds, CreateShadow(s) \/ CommitShadow(s) \/ DeleteShadow(s)
      PROVE  Deletable' /\ PromiseIsTracked'
  <2>1. UNCHANGED <<state, ended, notCommitted>>
      BY <1>9 DEF CreateShadow, CommitShadow, DeleteShadow, Panic, tracking
  <2> QED BY <2>1, <1>c
<1>10. CASE UNCHANGED vars
    BY <1>10, <1>c DEF vars
<1> QED BY <1>1, <1>2, <1>3, <1>4, <1>5, <1>6, <1>7, <1>8, <1>9, <1>10 DEF Next

\* PromiseIsTracked, for both simulators and any sets of reservations and links:
\* no call loses a live promise, whichever schedule it was made on.
THEOREM PromisesAreTracked == Spec => []PromiseIsTracked
<1>1. Init => PromiseInv
    BY TypeInit DEF Init, PromiseInv, Deletable, PromiseIsTracked
<1>2. PromiseInv => PromiseIsTracked
    BY DEF PromiseInv
<1> QED BY <1>1, <1>2, PromiseStep, PTL DEF Spec

-----------------------------------------------------------------------------
(* Shadow schedules *)

\* Every call keeps the tables of the schedules' names equal while the AcI
\* lives; a create finds no old entry and a switch finds both entries.
LEMMA SyncStep ==
    ASSUME NodeOnly, TypeOK, ShadowsInSync, [Next]_vars
    PROVE  ShadowsInSync' /\ (Links = {} /\ ~ panicked => ~ panicked')
<1> USE DEF ShadowsInSync
<1>a. ASSUME UNCHANGED openShadows, DOMAIN schedules' = DOMAIN schedules,
             DOMAIN shadowReservations' = DOMAIN shadowReservations,
             panicked' = panicked
      PROVE  ShadowsInSync' /\ (~ panicked => ~ panicked')
    BY <1>a
<1>b. ASSUME NEW r \in Reservations, NEW w, w \in Callable, ~ Routes(r, w), ~ panicked
      PROVE  Links # {}
    BY <1>b DEF Routes, Callable
<1>c. ASSUME NEW r \in Reservations, Reject(r)
      PROVE  UNCHANGED schedules
    BY <1>c DEF Reject
<1>d. ASSUME NEW table, NEW x \in DOMAIN table, NEW rs
      PROVE  DOMAIN With(table, x, rs) = DOMAIN table
    BY DEF With
<1>1. ASSUME NEW r \in Reservations, Commit(r)
      PROVE  ShadowsInSync' /\ (Links = {} /\ ~ panicked => ~ panicked')
    BY <1>1, <1>a DEF Commit, shadows
<1>2. ASSUME NEW r \in Reservations, CommitDirectly(r)
      PROVE  ShadowsInSync' /\ (Links = {} /\ ~ panicked => ~ panicked')
  <2>1. Master \in Callable
      BY DEF Callable
  <2>2. CASE ~ Routes(r, Master)
      BY <1>2, <2>1, <2>2, <1>b DEF CommitDirectly, Panic
  <2>3. CASE Routes(r, Master)
      BY <1>2, <2>3, <1>a, <1>d DEF CommitDirectly, Book, Routes, shadows
  <2> QED BY <2>2, <2>3
<1>3. ASSUME NEW r \in Reservations, NEW w,
             CommitRejected(r) \/ ReserveRejected(r, w) \/ DeleteRejected(r, w)
      PROVE  ShadowsInSync' /\ (Links = {} /\ ~ panicked => ~ panicked')
    BY <1>3, <1>a, <1>c DEF CommitRejected, ReserveRejected, DeleteRejected, shadows
<1>4. ASSUME NEW r \in Reservations, End(r) \/ Promote(r) \/ Reopen(r)
      PROVE  ShadowsInSync' /\ (Links = {} /\ ~ panicked => ~ panicked')
    BY <1>4, <1>a DEF End, Promote, Reopen, shadows
<1>5. ASSUME NEW r \in Reservations, NEW w, Expire(r, w)
      PROVE  ShadowsInSync' /\ (Links = {} /\ ~ panicked => ~ panicked')
    BY <1>5, <1>a, <1>d DEF Expire, shadows
<1>6. ASSUME NEW r \in Reservations, NEW w, Probe(r, w)
      PROVE  ShadowsInSync' /\ (Links = {} /\ ~ panicked => ~ panicked')
  <2>1. CASE ~ Routes(r, w)
      BY <1>6, <2>1, <1>a, <1>b DEF Probe, Panic, shadows
  <2>2. CASE Routes(r, w)
      BY <1>6, <2>2, <1>a DEF Probe, shadows
  <2> QED BY <2>1, <2>2
<1>7. ASSUME NEW r \in Reservations, NEW w, Reserve(r, w)
      PROVE  ShadowsInSync' /\ (Links = {} /\ ~ panicked => ~ panicked')
  <2>1. CASE ~ Routes(r, w)
      BY <1>7, <2>1, <1>b DEF Reserve, Panic
  <2>2. CASE Routes(r, w)
    <3>1. DOMAIN schedules' = DOMAIN schedules /\ UNCHANGED panicked
        BY <1>7, <2>2, <1>d DEF Reserve, Routes, Book
    <3>2. UNCHANGED shadows
      <4>1. CASE w = Master
          BY <1>7, <2>2, <4>1 DEF Reserve, ReserveAccepted
      <4>2. CASE w # Master
          BY <1>7, <2>2, <4>2 DEF Reserve, ReserveAcceptedInShadow, Callable
      <4> QED BY <4>1, <4>2
    <3> QED BY <3>1, <3>2, <1>a DEF shadows
  <2> QED BY <2>1, <2>2
<1>8. ASSUME NEW r \in Reservations, NEW w, Delete(r, w)
      PROVE  ShadowsInSync' /\ (Links = {} /\ ~ panicked => ~ panicked')
  <2>1. /\ DOMAIN shadowReservations' = DOMAIN shadowReservations
        /\ UNCHANGED openShadows
      BY <1>8, <1>d DEF Delete
  <2>2. DOMAIN schedules' = DOMAIN schedules
      BY <1>8, <1>c, <1>d DEF Delete, Routes, Unbook
  <2>3. Routes(r, w) => UNCHANGED panicked
      BY <1>8 DEF Delete
  <2>4. ~ Routes(r, w) => Links # {} /\ panicked'
      BY <1>8, <1>b DEF Delete
  <2> QED BY <2>1, <2>2, <2>3, <2>4
<1>9. ASSUME NEW s \in ShadowIds, CreateShadow(s)
      PROVE  ShadowsInSync' /\ (Links = {} /\ ~ panicked => ~ panicked')
  <2>1. s \notin DOMAIN schedules /\ s \notin DOMAIN shadowReservations
      BY <1>9, AcIAssumption DEF CreateShadow
  <2> QED BY <1>9, <2>1 DEF CreateShadow, With
<1>10. ASSUME NEW s \in ShadowIds, CommitShadow(s)
       PROVE  ShadowsInSync' /\ (Links = {} /\ ~ panicked => ~ panicked')
  <2>1. s \in DOMAIN schedules /\ s \in DOMAIN shadowReservations
      BY <1>10 DEF CommitShadow
  <2> QED BY <1>10, <2>1, AcIAssumption DEF CommitShadow, With, Without
<1>11. ASSUME NEW s \in ShadowIds, DeleteShadow(s)
       PROVE  ShadowsInSync' /\ (Links = {} /\ ~ panicked => ~ panicked')
  <2>1. DeletionAnswer(s) /\ s \in DOMAIN shadowReservations
      BY <1>11 DEF DeleteShadow, DeletionAnswer
  <2> QED BY <1>11, <2>1, AcIAssumption DEF DeleteShadow, Without
<1>12. CASE UNCHANGED vars
    BY <1>12 DEF vars
<1> QED BY <1>1, <1>2, <1>3, <1>4, <1>5, <1>6, <1>7, <1>8, <1>9, <1>10, <1>11,
           <1>12 DEF Next

LEMMA SyncInit == Init => ShadowsInSync
    BY DEF Init, ShadowsInSync

\* ShadowsInSync, for any number of reservations and shadow schedules over the
\* RmsNodeSimulator: it is what the other RMS loses with its first discard.
THEOREM ShadowsStayInSync == ASSUME NodeOnly PROVE Spec => []ShadowsInSync
<1> DEFINE SyncInv == TypeOK /\ ShadowsInSync
<1>1. Init => SyncInv
    BY TypeInit, SyncInit
<1>2. SyncInv /\ [Next]_vars => SyncInv'
    BY TypeStep, SyncStep
<1> QED BY <1>1, <1>2, PTL DEF Spec

\* NeverPanics, for the RmsNodeSimulator when no request is for a link: the AcI
\* outlives every order of calls.
THEOREM AcISurvives == ASSUME NodeOnly, Links = {} PROVE Spec => []NeverPanics
<1> DEFINE LiveInv == TypeOK /\ ShadowsInSync /\ NeverPanics
<1>1. Init => LiveInv
    BY TypeInit, SyncInit DEF Init, NeverPanics
<1>2. LiveInv /\ [Next]_vars => LiveInv'
    BY TypeStep, SyncStep DEF NeverPanics
<1> QED BY <1>1, <1>2, PTL DEF Spec

=============================================================================
