----------------------------- MODULE VrmManager -----------------------------
(***************************************************************************)
(* The VrmManager: it builds the hierarchy of components, submits the      *)
(* workflows of the clients to the master ADC, and then polls the states   *)
(* in the reservation store until everything has ended.  The resource      *)
(* managers change those states at any time, between any two reads of a    *)
(* poll.  What the ADC does inside a call is WorkflowReserve; here it      *)
(* answers yes or no, or dies of a panic and takes the manager with it.    *)
(***************************************************************************)
EXTENDS Naturals, Sequences

CONSTANTS
    Acis, Adcs, Absent,  \* components, and names of none
    Master,              \* adc_master_id
    Workflows,           \* the unprocessed reservations, in their order
    Tasks, Links, Of,    \* sub-reservations, and the workflow they belong to
    Data, Streams,       \* dependencies, as pairs of tasks
    Hierarchies,         \* configurations: the children of each ADC
    Requests,            \* what clients ask for their reservations
    CommitAnswers,       \* states an RMS leaves a committed task in
    Failures             \* states it reports for a task that did not end well

Submitted == {Workflows[i] : i \in 1 .. Len(Workflows)}

TasksOf(w) == {t \in Tasks : Of[t] = w}
Parts(w) == {r \in Tasks \union Links : Of[r] = w}

\* data_dependencies of a node reservation
Pred(t) == {s \in Tasks : <<s, t>> \in Data}

Entry(w) == {t \in TasksOf(w) : \A s \in Tasks : <<s, t>> \notin Data \union Streams}
Exit(w) == {t \in TasksOf(w) : \A s \in Tasks : <<t, s>> \notin Data \union Streams}

Proceedings == {"Probe", "Reserve", "Commit", "Delete", "Ignore"}

ASSUME ManagerAssumption ==
  /\ Workflows \in Seq(Submitted)
  /\ Acis \intersect Adcs = {} /\ Absent \intersect (Acis \union Adcs) = {}
  /\ Of \in [Tasks \union Links -> Submitted]
  /\ Tasks \intersect Links = {} /\ Submitted \intersect (Tasks \union Links) = {}
  /\ Data \subseteq Tasks \X Tasks /\ Streams \subseteq Tasks \X Tasks
  /\ Hierarchies \subseteq [Adcs -> SUBSET (Acis \union Adcs \union Absent)]
  /\ Requests \subseteq [Submitted \union Tasks -> Proceedings]
  /\ CommitAnswers \subseteq {"Committed", "Finished"}
  /\ Failures \subseteq {"Deleted", "Rejected"}

VARIABLES
    children,    \* of the ADCs, as configured
    spawned,     \* components with an actor thread
    at,          \* where the manager is
    queue,       \* unprocessed_reservations
    open,        \* open_reservations
    proceeding,  \* request_proceeding
    state,       \* of workflows and tasks, in the store
    booked,      \* tasks in the schedule of a component
    started,     \* tasks handed to a resource manager
    done,        \* tasks that a resource manager has reported as Finished
    todo,        \* open_ids not yet visited in this pass
    ended,       \* reservations_to_remove
    current,     \* the workflow whose exit tasks are looked at
    exits,       \* those not yet looked at
    isFinished   \* is_finished

boot == <<children, spawned>>
rms == <<booked, started, done>>
pass == <<todo, ended, current, exits, isFinished>>
vars == <<boot, at, queue, open, proceeding, state, rms, pass>>

ReservationState ==
  {"Rejected", "Deleted", "Open", "ReserveAnswer", "Committed", "Finished"}

Terminal == {"Rejected", "Deleted", "Finished"}

None == "none"

Places == {"Boot", "Unbuilt", "Submit", "Commit", "Scan", "Visit", "Done", "Dead"}

TypeOK ==
  /\ children \in [Adcs -> SUBSET (Acis \union Adcs \union Absent)]
  /\ spawned \in SUBSET (Acis \union Adcs)
  /\ at \in Places
  /\ queue \in Seq(Submitted)
  /\ open \in SUBSET (Submitted \union Tasks \union Links)
  /\ proceeding \in [Submitted \union Tasks -> Proceedings]
  /\ state \in [Submitted \union Tasks -> ReservationState]
  /\ booked \in SUBSET Tasks /\ started \in SUBSET Tasks /\ done \in SUBSET Tasks
  /\ todo \in SUBSET (Submitted \union Tasks)
  /\ ended \in SUBSET (Submitted \union Tasks)
  /\ current \in Submitted \union {None}
  /\ exits \in SUBSET Tasks
  /\ isFinished \in BOOLEAN

-----------------------------------------------------------------------------
(* init_vrm_system: an ADC is built when all its children are.             *)

\* Mutant: one child is enough.
ReadySome(m) == children[m] = {} \/ children[m] \intersect spawned # {}

Ready(m) == children[m] \subseteq spawned

Pending == Adcs \ spawned

Spawn(m) ==
  /\ at = "Boot"
  /\ m \in Pending /\ Ready(m)
  /\ spawned' = spawned \union {m}
  /\ UNCHANGED <<children, at, queue, open, proceeding, state, rms, pass>>

\* "Possible circular dependency or missing child ID"
NotBuilt ==
  /\ at = "Boot"
  /\ Pending # {} /\ \A m \in Pending : ~ Ready(m)
  /\ at' = "Unbuilt"
  /\ UNCHANGED <<boot, queue, open, proceeding, state, rms, pass>>

Built ==
  /\ at = "Boot" /\ Pending = {}
  /\ at' = IF Master \in Adcs THEN "Submit" ELSE "Unbuilt"
  /\ UNCHANGED <<boot, queue, open, proceeding, state, rms, pass>>

-----------------------------------------------------------------------------
(* run_vrm, the submissions: process_reservation for one workflow at a time *)

Next1 == Head(queue)

Asks(p) == at = "Submit" /\ queue # <<>> /\ proceeding[Next1] \in p

\* A workflow is neither probed nor, if its proceeding is Ignore, touched.
Pass ==
  /\ Asks({"Probe", "Ignore"})
  /\ queue' = Tail(queue)
  /\ UNCHANGED <<boot, at, open, proceeding, state, rms, pass>>

SetStates(f) == state' = [r \in DOMAIN state |-> IF r \in DOMAIN f THEN f[r] ELSE state[r]]

AdcReserves(w) ==
  /\ SetStates([r \in {w} \union TasksOf(w) |-> "ReserveAnswer"])
  /\ booked' = booked \union TasksOf(w)

AdcRejects(w) ==
  /\ SetStates([r \in {w} \union TasksOf(w) |-> "Rejected"])
  /\ UNCHANGED booked

\* A Reserve leaves the workflow to itself, whatever the answer was.
ReserveOnly ==
  /\ Asks({"Reserve"})
  /\ AdcReserves(Next1) \/ AdcRejects(Next1)
  /\ queue' = Tail(queue)
  /\ UNCHANGED <<boot, at, open, proceeding, started, done, pass>>

\* The first half of try_to_commit_reservation
ReserveToCommit ==
  /\ Asks({"Commit"})
  /\ \/ AdcReserves(Next1) /\ at' = "Commit" /\ UNCHANGED queue
     \/ AdcRejects(Next1) /\ queue' = Tail(queue) /\ UNCHANGED at
  /\ UNCHANGED <<boot, open, proceeding, started, done, pass>>

\* What commits of the tasks ts make of them.
AdcCommits(ts, f) ==
  /\ started' = started \union ts
  /\ done' = done \union {t \in ts : f[t] = "Finished"}
  /\ UNCHANGED booked

\* Mutant: the sub-reservations are not watched.
Watch(w) == {w}

Watched(w) == {w} \union Parts(w)

\* The second half; an entry task that has expired meanwhile is only logged.
CommitEntries ==
  /\ at = "Commit"
  /\ LET w == Next1
         waiting == {t \in Entry(w) : state[t] = "ReserveAnswer"}
     IN \E f \in [waiting -> CommitAnswers] :
          /\ SetStates([r \in {w} \union waiting |-> IF r = w THEN "Committed" ELSE f[r]])
          /\ AdcCommits(waiting, f)
          /\ open' = open \union Watched(w)
  /\ queue' = Tail(queue)
  /\ at' = "Submit"
  /\ UNCHANGED <<boot, proceeding, pass>>

\* The ADC knows nothing of a workflow that comes with the wish to be deleted.
DeleteUnknown ==
  /\ Asks({"Delete"})
  /\ AdcRejects(Next1)
  /\ queue' = Tail(queue)
  /\ UNCHANGED <<boot, at, open, proceeding, started, done, pass>>

\* Mutant: close_open_links is not called.
CloseNothing ==
  /\ at = "Submit" /\ queue = <<>>
  /\ at' = "Scan"
  /\ UNCHANGED <<boot, queue, open, proceeding, state, rms, pass>>

\* close_open_links: no resource manager can reserve a link.
Close ==
  /\ at = "Submit" /\ queue = <<>>
  /\ open' = open \ Links
  /\ at' = "Scan"
  /\ UNCHANGED <<boot, queue, proceeding, state, rms, pass>>

-----------------------------------------------------------------------------
(* run_vrm, the polls.  A pass works on a copy of open_reservations.       *)

StartPass ==
  /\ at = "Scan" /\ open # {}
  /\ at' = "Visit"
  /\ todo' = open /\ ended' = {}
  /\ UNCHANGED <<boot, queue, open, proceeding, state, rms, current, exits, isFinished>>

Finish ==
  /\ at = "Scan" /\ open = {}
  /\ at' = "Done"
  /\ UNCHANGED <<boot, queue, open, proceeding, state, rms, pass>>

\* is_reservation_at_cycle_end
AtCycleEnd(r) ==
  state[r] \in CASE proceeding[r] = "Commit" -> Terminal
                 [] proceeding[r] = "Delete" -> {"Rejected", "Deleted"}
                 [] proceeding[r] = "Probe" -> Terminal \union {"ProbeAnswer"}
                 [] proceeding[r] = "Reserve" -> Terminal \union {"ReserveAnswer"}
                 [] proceeding[r] = "Ignore" -> {}

\* Mutant: the answer to a reserve is not ready to be committed.
CommitReadyOpen(t) ==
  /\ proceeding[t] = "Commit"
  /\ state[t] = "Open"
  /\ \A s \in Pred(t) : state[s] = "Finished"

\* is_res_commit_ready for a task
CommitReady(t) ==
  /\ proceeding[t] = "Commit"
  /\ state[t] \in {"Open", "ReserveAnswer"}
  /\ \A s \in Pred(t) : state[s] = "Finished"

Visit(r) ==
  /\ at = "Visit" /\ current = None /\ r \in todo
  /\ todo' = todo \ {r}
  /\ ended' = IF AtCycleEnd(r) THEN ended \union {r} ELSE ended

VisitTask(t) ==
  /\ Visit(t)
  /\ ~ CommitReady(t)
  /\ UNCHANGED <<boot, at, queue, open, proceeding, state, rms, current, exits, isFinished>>

CommitTask(t) ==
  /\ Visit(t)
  /\ CommitReady(t)
  /\ \E answer \in CommitAnswers :
        /\ SetStates([r \in {t} |-> answer])
        /\ AdcCommits({t}, [r \in {t} |-> answer])
  /\ open' = open \union {t}
  /\ UNCHANGED <<boot, at, queue, proceeding, current, exits, isFinished>>

VisitWorkflow(w) ==
  /\ Visit(w)
  /\ current' = w
  /\ exits' = Exit(w)
  /\ isFinished' = TRUE
  /\ UNCHANGED <<boot, at, queue, open, proceeding, state, rms>>

\* Mutants: an exit task that still runs is passed over; a deleted exit task
\* is not reported.
CheckExitFailed(e) ==
  /\ current # None /\ e \in exits
  /\ exits' = exits \ {e}
  /\ IF state[e] \in {"Deleted", "Rejected"}
     THEN SetStates([r \in {current} |-> "Rejected"]) /\ isFinished' = FALSE
     ELSE UNCHANGED <<state, isFinished>>
  /\ UNCHANGED <<boot, at, queue, open, proceeding, rms, todo, ended, current>>
CheckExitRejected(e) ==
  /\ current # None /\ e \in exits
  /\ exits' = exits \ {e}
  /\ isFinished' = (isFinished /\ state[e] = "Finished")
  /\ IF state[e] = "Rejected" THEN SetStates([r \in {current} |-> "Rejected"]) ELSE UNCHANGED state
  /\ UNCHANGED <<boot, at, queue, open, proceeding, rms, todo, ended, current>>

\* The code reads the state twice: what comes between the reads is left to
\* the next pass.
CheckExit(e) ==
  /\ current # None /\ e \in exits
  /\ exits' = exits \ {e}
  /\ isFinished' = (isFinished /\ state[e] = "Finished")
  /\ IF state[e] \in {"Deleted", "Rejected"}
     THEN SetStates([r \in {current} |-> "Rejected"])
     ELSE UNCHANGED state
  /\ UNCHANGED <<boot, at, queue, open, proceeding, rms, todo, ended, current>>

Conclude ==
  /\ current # None /\ exits = {}
  /\ IF isFinished THEN SetStates([r \in {current} |-> "Finished"]) ELSE UNCHANGED state
  /\ current' = None
  /\ UNCHANGED <<boot, at, queue, open, proceeding, rms, todo, ended, exits, isFinished>>

\* The end of a pass; then the clock ticks, or the manager sleeps.
Sweep ==
  /\ at = "Visit" /\ todo = {} /\ current = None
  /\ open' = open \ ended
  /\ ended' = {}
  /\ at' = "Scan"
  /\ UNCHANGED <<boot, queue, proceeding, state, rms, todo, current, exits, isFinished>>

\* An ADC that panics in a reserve or commit takes the manager with it: the
\* channel that its proxy reads closes, and the proxy panics in its caller.
AdcDies ==
  /\ \/ Asks({"Reserve", "Commit"})
     \/ at = "Commit" /\ \E t \in Entry(Next1) : state[t] = "ReserveAnswer"
     \/ at = "Visit" /\ current = None /\ \E t \in todo \intersect Tasks : CommitReady(t)
  /\ at' = "Dead"
  /\ UNCHANGED <<boot, queue, open, proceeding, state, rms, pass>>

-----------------------------------------------------------------------------
(* The resource managers and the schedules *)

RmsSets(t, s) == SetStates([r \in {t} |-> s])

\* The synchronisation writes what the resource manager says of a task over
\* whatever is in the store: a task that was handed over is reported Finished,
\* as often as it is listed, and never again as anything else ...
Complete(t) ==
  /\ t \in started
  /\ RmsSets(t, "Finished")
  /\ done' = done \union {t}
  /\ UNCHANGED <<boot, at, queue, open, proceeding, booked, started, pass>>

\* ... or cancelled or failed ...
Fail(t) ==
  /\ t \in started \ done
  /\ \E s \in Failures : RmsSets(t, s)
  /\ UNCHANGED <<boot, at, queue, open, proceeding, rms, pass>>

\* ... or waiting or running, which reopens a task that had ended in the store.
Relist(t) ==
  /\ t \in started \ done
  /\ RmsSets(t, "Committed")
  /\ UNCHANGED <<boot, at, queue, open, proceeding, rms, pass>>

\* The window of a schedule moves past the booking: Deleted, whatever the
\* state has been.
Expire(t) ==
  /\ t \in booked
  /\ booked' = booked \ {t}
  /\ RmsSets(t, "Deleted")
  /\ UNCHANGED <<boot, at, queue, open, proceeding, started, done, pass>>

Init ==
  /\ children \in Hierarchies
  /\ spawned = Acis
  /\ at = "Boot"
  /\ queue = Workflows
  /\ open = {}
  /\ proceeding \in Requests
  /\ state = [r \in Submitted \union Tasks |-> "Open"]
  /\ booked = {} /\ started = {} /\ done = {}
  /\ todo = {} /\ ended = {} /\ current = None /\ exits = {} /\ isFinished = FALSE

Manager ==
  \/ \E m \in Adcs : Spawn(m)
  \/ NotBuilt \/ Built
  \/ Pass \/ ReserveOnly \/ ReserveToCommit \/ CommitEntries \/ DeleteUnknown \/ Close
  \/ StartPass \/ Finish \/ Conclude \/ Sweep
  \/ \E t \in Tasks : VisitTask(t) \/ CommitTask(t) \/ CheckExit(t)
  \/ \E w \in Submitted : VisitWorkflow(w)

Next ==
  \/ Manager \/ AdcDies
  \/ \E t \in Tasks : Complete(t) \/ Fail(t) \/ Relist(t) \/ Expire(t)

\* The manager's thread runs, and no job runs for ever.  A failure may stand.
Fairness ==
  /\ WF_vars(Manager)
  /\ \A t \in Tasks : WF_vars(state[t] = "Committed" /\ Complete(t))

Spec == Init /\ [][Next]_vars /\ Fairness

-----------------------------------------------------------------------------
(* Properties *)

\* A hierarchy that was built has every child under its ADC, and no ADC is
\* built on itself, however the children were configured (init_vrm_system).
HierarchyIsSound ==
  at \notin {"Boot", "Unbuilt"} =>
    /\ \A m \in Adcs : children[m] \subseteq spawned
    /\ \A S \in (SUBSET Adcs) \ {{}} : \E m \in S : children[m] \intersect S = {}

\* A workflow is Finished only when its exit tasks have run at a resource
\* manager, and a task has run only when all tasks it takes data from have:
\* although states change under the poll and bookings expire (run_vrm,
\* is_res_commit_ready).
FinishedMeansRun ==
  /\ \A w \in Submitted : state[w] = "Finished" => Exit(w) \subseteq done
  /\ \A t \in started : Pred(t) \subseteq done

\* What still has to be handed to a resource manager is not dropped from the
\* polls: a committed workflow and each of its tasks that has not ended stay
\* among them until the task is committed.  Nobody else would ever commit it,
\* while a task that is running is written to by its resource manager, polled
\* or not (run_vrm, try_to_commit_reservation).
WaitingIsPolled ==
  \A w \in Submitted :
    state[w] = "Committed" =>
      /\ w \in open
      /\ \A t \in TasksOf(w) \ started :
            state[t] \notin Terminal /\ proceeding[t] = "Commit" => t \in open

NothingLost == at \notin {"Dead", "Unbuilt"} /\ \A t \in Tasks : state[t] \notin {"Rejected", "Deleted"}

\* If no task fails, is rejected or expires, the manager comes to its end with
\* every workflow it was to commit Finished: each task is committed after the
\* tasks before it (run_vrm).
AllFinish ==
  [] NothingLost =>
     <> (at = "Done" /\ \A w \in Submitted : proceeding[w] = "Commit" => state[w] = "Finished")

\* A workflow with a failed exit task does not stay Committed for ever, unless
\* the resource manager takes the failure back.
FailureReported ==
  \A w \in Submitted : \A e \in Exit(w) :
    []<> (\/ at = "Dead"
          \/ state[w] # "Committed"
          \/ state[e] \notin {"Rejected", "Deleted"})

\* "Transfer all reservation in a terminal reservation state"
\* (vrm_manager.rs:194): when every task that was handed over ends for good,
\* the polls come to an end.
RunEnds ==
  (\A t \in Tasks : <>[] (t \in started => state[t] \in Terminal))
     => <> (at \in {"Done", "Dead", "Unbuilt"})

\* "All reservations in the VRM system reached a terminal state"
\* (vrm_manager.rs:253): what has been handed over has ended.
DoneIsTerminal == at = "Done" => \A t \in started : state[t] \in Terminal

=============================================================================
