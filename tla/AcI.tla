-------------------------------- MODULE AcI --------------------------------
(***************************************************************************)
(* An AcI over a simulated RMS, under the component manager that calls it: *)
(* probe, reserve, commit and delete on the master schedule and on shadow  *)
(* schedules.  The AcI is an actor, so a call is one action.  RMS and AcI  *)
(* keep tables of the shadow schedules of their own, but the states of the *)
(* reservations live in one store for all schedules.                       *)
(*                                                                         *)
(* A schedule is the set of its active reservations; it answers a reserve  *)
(* either way (SlottedSchedule says when).  An AcI that panics is gone.    *)
(***************************************************************************)
EXTENDS FiniteSets

CONSTANTS
    Reservations,
    Feasible,     \* the reservations that the resources of the RMS can carry
    Links,        \* the reservations that are link reservations
    ShadowIds,    \* names for shadow schedules
    Master,       \* stands for no shadow schedule id
    NodeOnly      \* TRUE: RmsNodeSimulator, FALSE: RmsSimulator

ASSUME AcIAssumption ==
    /\ Feasible \subseteq Reservations
    /\ Links \subseteq Reservations
    /\ Master \notin ShadowIds
    /\ NodeOnly \in BOOLEAN

VARIABLES
    state,           \* of the reservations, in the store
    ended,           \* reservations whose assigned end has passed
    schedules,       \* of the RMS: Master and the shadow schedules
    shadowReservations, \* of the AcI: what is committed, by shadow schedule
    notCommitted,    \* not_committed_reservations
    committed,       \* committed_reservations
    openShadows,     \* the manager's shadow schedules
    panicked         \* the thread of the AcI is dead

tracking == <<notCommitted, committed>>

shadows == <<shadowReservations, openShadows>>

vars == <<state, ended, schedules, shadowReservations, notCommitted, committed,
          openShadows, panicked>>

ReservationState ==
    {"Rejected", "Deleted", "Open", "ProbeAnswer", "ProbeReservation",
     "ReserveAnswer", "Finished"}

\* is_reserve_request_valid
ReserveRequestValid == {"Open", "ProbeReservation"}

\* The functions from some of the names to sets of reservations.
Tables(names) == UNION {[ids -> SUBSET Reservations] : ids \in SUBSET names}

TypeOK ==
    /\ state \in [Reservations -> ReservationState]
    /\ ended \subseteq Reservations
    /\ schedules \in Tables(ShadowIds \union {Master})
    /\ Master \in DOMAIN schedules
    /\ shadowReservations \in Tables(ShadowIds)
    /\ notCommitted \subseteq Reservations
    /\ committed \subseteq Reservations
    /\ openShadows \subseteq ShadowIds
    /\ panicked \in BOOLEAN

-----------------------------------------------------------------------------
(* Helpers *)

With(table, s, rs) == [i \in DOMAIN table \union {s} |-> IF i = s THEN rs ELSE table[i]]

Without(table, s) == [i \in DOMAIN table \ {s} |-> table[i]]

SetState(r, new) == state' = [state EXCEPT ![r] = new]

Reject(r) == SetState(r, "Rejected") /\ UNCHANGED <<schedules, ended>>

\* What is left when the AcI panics in the middle of a call.
Panic ==
    /\ panicked' = TRUE
    /\ UNCHANGED <<state, ended, schedules, tracking, shadows>>

\* get_active_schedule finds a schedule; otherwise it panics.
Routes(r, w) == w \in DOMAIN schedules /\ (NodeOnly => r \notin Links)

\* The schedules a caller may name.
Callable == {Master} \union openShadows

\* Schedule::reserve finds room for r.
Book(r, w) ==
    /\ schedules' = With(schedules, w, schedules[w] \union {r})
    /\ ended' = ended \ {r}

\* Schedule::delete_reservation
Unbook(r, w) ==
    IF r \notin schedules[w] THEN Reject(r)
    ELSE IF r \in ended THEN UNCHANGED <<state, schedules, ended>>
    ELSE /\ SetState(r, "Deleted")
         /\ schedules' = With(schedules, w, schedules[w] \ {r})
         /\ UNCHANGED ended

-----------------------------------------------------------------------------
(* Requests for one reservation.  w is Master or a shadow schedule.        *)

\* probe and probe_best: nothing but the state changes.
Probe(r, w) ==
    /\ ~ panicked
    /\ w \in Callable
    /\ IF r \in Feasible /\ ~ Routes(r, w) THEN Panic
       ELSE /\ SetState(r, IF r \in Feasible THEN "ProbeAnswer" ELSE "Rejected")
            /\ UNCHANGED <<schedules, ended, tracking, shadows, panicked>>

\* The request is not for this AcI, or the schedule has no room.
ReserveRejected(r, w) ==
    /\ ~ panicked
    /\ w \in Callable
    /\ state[r] \in ReserveRequestValid /\ r \in Feasible => Routes(r, w)
    /\ Reject(r)
    /\ UNCHANGED <<tracking, shadows, panicked>>

\* Mutant: the answer to a reserve is not remembered.
ReserveAcceptedUntracked(r) ==
    /\ SetState(r, "ReserveAnswer")
    /\ UNCHANGED <<tracking, shadows>>

ReserveAccepted(r) ==
    /\ SetState(r, "ReserveAnswer")
    /\ notCommitted' = notCommitted \union {r}
    /\ UNCHANGED <<committed, shadows>>

\* A reserve on a shadow schedule starts a new entry of the AcI's table and
\* is rejected, but stays booked, if there is one.
ReserveAcceptedInShadow(r, s) ==
    IF s \in DOMAIN shadowReservations
    THEN SetState(r, "Rejected") /\ UNCHANGED <<tracking, shadows>>
    ELSE /\ SetState(r, "ReserveAnswer")
         /\ notCommitted' = notCommitted \union {r}
         /\ shadowReservations' = With(shadowReservations, s, {r})
         /\ UNCHANGED <<committed, openShadows>>

Reserve(r, w) ==
    /\ ~ panicked
    /\ w \in Callable
    /\ state[r] \in ReserveRequestValid
    /\ r \in Feasible
    /\ IF ~ Routes(r, w) THEN Panic
       ELSE /\ Book(r, w)
            /\ IF w = Master THEN ReserveAccepted(r) ELSE ReserveAcceptedInShadow(r, w)
            /\ UNCHANGED panicked

\* A commit after a reserve; the container is taken out first.
Commit(r) ==
    /\ ~ panicked
    /\ r \in notCommitted
    /\ notCommitted' = notCommitted \ {r}
    /\ IF state[r] = "ReserveAnswer"
       THEN /\ SetState(r, "Finished")
            /\ committed' = committed \union {r}
       ELSE /\ SetState(r, "Rejected")
            /\ UNCHANGED committed
    /\ UNCHANGED <<schedules, ended, shadows, panicked>>

\* A commit without one reserves first, in whatever state r is.
CommitDirectly(r) ==
    /\ ~ panicked
    /\ r \notin notCommitted
    /\ r \in Feasible
    /\ IF ~ Routes(r, Master) THEN Panic
       ELSE /\ Book(r, Master)
            /\ SetState(r, "Finished")
            /\ committed' = committed \union {r}
            /\ UNCHANGED <<notCommitted, shadows, panicked>>

CommitRejected(r) ==
    /\ ~ panicked
    /\ r \notin notCommitted
    /\ r \in Feasible => Routes(r, Master)
    /\ Reject(r)
    /\ UNCHANGED <<tracking, shadows, panicked>>

\* The AcI deletes what it has not committed (Master) or what was committed
\* when the shadow schedule was created.
Delete(r, w) ==
    /\ ~ panicked
    /\ w \in Callable
    /\ \/ /\ w = Master
          /\ r \in notCommitted
          /\ notCommitted' = notCommitted \ {r}
          /\ UNCHANGED shadowReservations
       \/ /\ w \in DOMAIN shadowReservations
          /\ r \in shadowReservations[w]
          /\ shadowReservations' = With(shadowReservations, w, shadowReservations[w] \ {r})
          /\ UNCHANGED notCommitted
    /\ IF ~ Routes(r, w)
       THEN panicked' = TRUE /\ UNCHANGED <<state, schedules, ended>>
       ELSE Unbook(r, w) /\ UNCHANGED panicked
    /\ UNCHANGED <<committed, openShadows>>

DeleteRejected(r, w) ==
    /\ ~ panicked
    /\ w \in Callable
    /\ w = Master => r \notin notCommitted
    /\ w \in DOMAIN shadowReservations => r \notin shadowReservations[w]
    /\ Reject(r)
    /\ UNCHANGED <<tracking, shadows, panicked>>

-----------------------------------------------------------------------------
(* Shadow schedules: the manager calls, the RMS acts, the AcI follows.     *)

CreateShadow(s) ==
    /\ ~ panicked
    /\ s \notin openShadows
    /\ IF s \in DOMAIN schedules
       THEN UNCHANGED <<schedules, shadows, panicked>>
       ELSE /\ schedules' = With(schedules, s, schedules[Master])
            /\ IF s \in DOMAIN shadowReservations
               THEN panicked' = TRUE /\ UNCHANGED shadows
               ELSE /\ shadowReservations' = With(shadowReservations, s, committed)
                    /\ openShadows' = openShadows \union {s}
                    /\ UNCHANGED panicked
    /\ UNCHANGED <<state, ended, tracking>>

\* Mutant: the AcI keeps its entry of a shadow schedule it has committed.
CommitShadowKeepsEntry(s) ==
    /\ ~ panicked
    /\ s \in openShadows
    /\ s \in DOMAIN schedules
    /\ schedules' = Without(With(schedules, Master, schedules[s]), s)
    /\ committed' = shadowReservations[s]
    /\ openShadows' = openShadows \ {s}
    /\ UNCHANGED <<state, ended, notCommitted, shadowReservations, panicked>>

CommitShadow(s) ==
    /\ ~ panicked
    /\ s \in openShadows
    /\ IF s \notin DOMAIN shadowReservations \/ s \notin DOMAIN schedules THEN Panic
       ELSE /\ schedules' = Without(With(schedules, Master, schedules[s]), s)
            /\ committed' = shadowReservations[s]
            /\ shadowReservations' = Without(shadowReservations, s)
            /\ openShadows' = openShadows \ {s}
            /\ UNCHANGED <<state, ended, notCommitted, panicked>>

\* Mutant: the RMS removes its schedules and answers no.
DeletionAnswerNo(s) == FALSE

\* RmsNodeSimulator answers whether it had the schedule; the RMS with nodes
\* and network answers no, because remove returns what it has removed.
DeletionAnswer(s) == NodeOnly /\ s \in DOMAIN schedules

\* The manager gives up the name whatever the AcI answers.
DeleteShadow(s) ==
    /\ ~ panicked
    /\ s \in openShadows
    /\ openShadows' = openShadows \ {s}
    /\ schedules' = Without(schedules, s)
    /\ shadowReservations' =
          IF DeletionAnswer(s) THEN Without(shadowReservations, s) ELSE shadowReservations
    /\ panicked' = (DeletionAnswer(s) /\ s \notin DOMAIN shadowReservations)
    /\ UNCHANGED <<state, ended, tracking>>

-----------------------------------------------------------------------------
(* Time, and what callers do to the state between two calls                *)

\* The assigned end of r passes.
End(r) ==
    /\ r \notin ended
    /\ \E w \in DOMAIN schedules : r \in schedules[w]
    /\ ended' = ended \union {r}
    /\ UNCHANGED <<state, schedules, tracking, shadows, panicked>>

\* The window of one schedule moves past r.
Expire(r, w) ==
    /\ ~ panicked
    /\ w \in DOMAIN schedules
    /\ r \in schedules[w] \intersect ended
    /\ schedules' = With(schedules, w, schedules[w] \ {r})
    /\ SetState(r, "Deleted")
    /\ UNCHANGED <<ended, tracking, shadows, panicked>>

\* Mutant: the state in which README.md lets a promotion begin.
PromoteInProgress(r) ==
    /\ state[r] = "ProbeAnswer"
    /\ SetState(r, "ReserveProbeReservation")
    /\ UNCHANGED <<schedules, ended, tracking, shadows, panicked>>

\* prompt_best takes a candidate over, with the candidate's state.
Promote(r) ==
    /\ state[r] = "ProbeAnswer"
    /\ SetState(r, "ProbeReservation")
    /\ UNCHANGED <<schedules, ended, tracking, shadows, panicked>>

\* demote after a probe, or another attempt of the HEFT scheduler.
Reopen(r) ==
    /\ state[r] \in {"Rejected", "ProbeAnswer"}
    /\ SetState(r, "Open")
    /\ UNCHANGED <<schedules, ended, tracking, shadows, panicked>>

Init ==
    /\ state = [r \in Reservations |-> "Open"]
    /\ ended = {}
    /\ schedules = [w \in {Master} |-> {}]
    /\ shadowReservations = [s \in {} |-> {}]
    /\ notCommitted = {}
    /\ committed = {}
    /\ openShadows = {}
    /\ panicked = FALSE

Next ==
    \/ \E r \in Reservations :
          \/ Commit(r) \/ CommitDirectly(r) \/ CommitRejected(r)
          \/ End(r) \/ Promote(r) \/ Reopen(r)
          \/ \E w \in ShadowIds \union {Master} :
                \/ Probe(r, w)
                \/ ReserveRejected(r, w) \/ Reserve(r, w)
                \/ Delete(r, w) \/ DeleteRejected(r, w)
                \/ Expire(r, w)
    \/ \E s \in ShadowIds : CreateShadow(s) \/ CommitShadow(s) \/ DeleteShadow(s)

Spec == Init /\ [][Next]_vars

-----------------------------------------------------------------------------
(* Properties *)

\* The RMS, the AcI and the manager know the same shadow schedules, whatever
\* order of creating, switching and discarding them led there: what the log
\* messages of create_shadow_schedule and delete_shadow_schedule promise.  Holds
\* for the RmsNodeSimulator.
ShadowsInSync ==
    ~ panicked => /\ DOMAIN schedules = openShadows \union {Master}
                  /\ DOMAIN shadowReservations = openShadows

\* No order of calls that names only open shadow schedules kills the AcI
\* (the expects and panics of AcI, get_active_schedule and the switch).
NeverPanics == ~ panicked

\* A live promise is known to the AcI, on whatever schedule it was made: as
\* long as the reservation has not ended, a delete finds it and releases it
\* (reserve, delete, the two ways through commit).
PromiseIsTracked ==
    \A r \in Reservations :
        state[r] = "ReserveAnswer" /\ r \notin ended => r \in notCommitted

=============================================================================
