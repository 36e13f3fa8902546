-------------------------- MODULE AtomicWorkflow --------------------------
(***************************************************************************)
(* What an ADC promises the submitter of a workflow: the answer to a       *)
(* reserve stands for all tasks or for none.  Bookings can get lost later, *)
(* because a component expires them or the broker gives them up; tasks are *)
(* started one by one after the answer; a release leaves no booking.       *)
(***************************************************************************)
CONSTANTS Tasks, Entry   \* the entry tasks, which a commit starts

VARIABLES answer,   \* the state of the workflow
          booked,   \* tasks for which a component holds resources
          started   \* tasks handed to a resource manager

vars == <<answer, booked, started>>

Init == answer = "Open" /\ booked = {} /\ started = {}

Reserve ==
  /\ answer = "Open"
  /\ answer' = "ReserveAnswer"
  /\ booked' = Tasks
  /\ UNCHANGED started

\* A workflow is refused, or given up before it was reserved.
Refuse ==
  /\ answer = "Open"
  /\ answer' \in {"Rejected", "Deleted"}
  /\ UNCHANGED <<booked, started>>

Start(t) ==
  /\ answer \in {"ReserveAnswer", "Committed"}
  /\ t \in booked
  /\ started' = started \union {t}
  /\ booked' = booked \ {t}
  /\ UNCHANGED answer

\* The workflow counts as committed when no entry task waits any more.
Commit ==
  /\ answer = "ReserveAnswer"
  /\ booked \intersect Entry = {}
  /\ answer' = "Committed"
  /\ UNCHANGED <<booked, started>>

Lose(t) == booked' = booked \ {t} /\ UNCHANGED <<answer, started>>

\* Nothing is left to a workflow that was deleted.
Release ==
  /\ answer \in {"ReserveAnswer", "Committed"}
  /\ booked = {}
  /\ answer' \in {"Deleted", "Rejected"}
  /\ UNCHANGED <<booked, started>>

Next ==
  \/ Reserve \/ Refuse \/ Commit \/ Release
  \/ \E t \in Tasks : Start(t) \/ Lose(t)

Spec == Init /\ [][Next]_vars
=============================================================================
