-------------------------- MODULE WorkflowReserve --------------------------
(***************************************************************************)
(* An ADC reserves, commits and deletes one workflow:                      *)
(* HEFTSyncWorkflowScheduler over the VrmComponentManager, inside the      *)
(* operations of adc/vrm_component.rs.  The ADC is an actor and serves one *)
(* call at a time, but a call consists of calls to other components, and   *)
(* between two of them a component may expire a booking.  The scheduler    *)
(* works off the ranked list of WorkflowGraph.  Components (an AcI or      *)
(* another ADC) are what AcI describes: they book or reject, and delete    *)
(* what they have booked and not yet committed.                            *)
(*                                                                         *)
(* Atomic jobs take a way of their own through the manager.                *)
(***************************************************************************)
EXTENDS Integers, Sequences, FiniteSets

CONSTANTS
    Tasks, Links,  \* the node reservations and link reservations
    Jobs,          \* atomic jobs
    From, To,      \* source and target task of every link
    Sync,          \* the links of sync dependencies; the others carry data
    Empty,         \* the links without capacity or payload
    Transfer,      \* file transfer time of a data dependency
    Groups,        \* the co-allocations, in the order of the ranked list
    First,         \* the ranked member of every co-allocation
    Duration,      \* of the tasks
    Earliest, Deadline,  \* booking interval of the workflow
    Horizon,       \* bound: the end of time
    Components,
    None           \* stands for no component

Group(t) == CHOOSE g \in DOMAIN Groups : t \in Groups[g]

\* Data dependencies inside a co-allocation belong to no edge of its graph.
Scheduled == {d \in Links : d \in Sync \/ Group(From[d]) # Group(To[d])}

ASSUME WorkflowAssumption ==
  /\ From \in [Links -> Tasks] /\ To \in [Links -> Tasks]
  /\ Sync \subseteq Links /\ Empty \subseteq Links
  /\ Transfer \in [Links -> Nat]
  /\ Duration \in [Tasks -> Nat]
  /\ Earliest \in Nat /\ Deadline \in Nat /\ Horizon \in Nat
  /\ None \notin Components
  /\ Links \intersect Tasks = {} /\ Jobs \intersect (Links \union Tasks) = {}

\* What WorkflowGraph checks of co-allocations and ranked list: tasks joined
\* by a stream share a group, and data comes from an earlier one.
ASSUME RankedAssumption ==
  /\ Groups \in Seq(SUBSET Tasks)
  /\ \A t \in Tasks : \E g \in DOMAIN Groups : t \in Groups[g]
  /\ \A g, h \in DOMAIN Groups : g # h => Groups[g] \intersect Groups[h] = {}
  /\ First \in [DOMAIN Groups -> Tasks]
  /\ \A g \in DOMAIN Groups : First[g] \in Groups[g]
  /\ \A d \in Sync : Group(From[d]) = Group(To[d])
  /\ \A d \in Scheduled \ Sync : Group(From[d]) < Group(To[d])

VARIABLES
    workflow,      \* state of the workflow
    state,         \* states of its sub-reservations and of the atomic jobs
    window,        \* assigned start and end of the tasks
    segments,      \* number of virtual reservations made for a link
    phase,         \* where the ADC is
    group,         \* the place in the ranked list
    todo,          \* what the loop of this phase has not yet seen
    refused,       \* in a deletion: some deletion has failed
    database,      \* grid_component_res_database of a running reserve
    resTo,         \* res_to_vrm_component
    notCommitted,  \* not_committed_reservations
    committed,     \* committed_reservations
    held,          \* tasks that a component has booked and not committed
    running,       \* tasks that a component has committed
    view           \* the ADC's copy of the schedule of a component

store == <<workflow, state, window, segments>>
tracking == <<database, resTo, notCommitted, committed>>
components == <<held, running, view>>
control == <<phase, group, todo, refused>>
vars == <<store, control, tracking, components>>

Reservations == Tasks \union Links \union Jobs
Children == Tasks \union Links

ReservationState ==
  {"Rejected", "Deleted", "Open", "ReserveAnswer", "Committed"}

Phases == {"Idle", "First", "Members", "Links", "Cancel", "Commit", "Delete", "Dead"}

Interval == Nat \X Nat

MaybeComponent == Components \union {None}

TypeOK ==
  /\ workflow \in ReservationState
  /\ state \in [Reservations -> ReservationState]
  /\ window \in [Tasks -> Interval]
  /\ segments \in [Links -> Nat]
  /\ phase \in Phases
  /\ group \in 1 .. Len(Groups) + 1
  /\ todo \in SUBSET Reservations
  /\ refused \in BOOLEAN
  /\ database \in [Tasks -> MaybeComponent]
  /\ resTo \in [Tasks \union Jobs -> MaybeComponent]
  /\ notCommitted \in [Tasks \union Jobs -> MaybeComponent]
  /\ committed \in [Tasks \union Jobs -> MaybeComponent]
  /\ held \in [Components -> SUBSET (Tasks \union Jobs)]
  /\ running \in [Components -> SUBSET (Tasks \union Jobs)]
  /\ view \in [Components -> SUBSET (Tasks \union Jobs)]

-----------------------------------------------------------------------------
(* Helpers *)

Add(table, c, t) == [table EXCEPT ![c] = @ \union {t}]
Drop(table, c, t) == [table EXCEPT ![c] = @ \ {t}]

SetState(rs, s) == state' = [r \in Reservations |-> IF r \in rs THEN s ELSE state[r]]

Holders(t) == {c \in Components : t \in held[c]}
Booked == {t \in Tasks : Holders(t) # {}}
Started == {t \in Tasks : \E c \in Components : t \in running[c]}

\* get_workflow_entry_res_ids
Entry == {t \in Tasks : \A d \in Links : To[d] # t}

IncomingData(g) == {d \in Scheduled \ Sync : To[d] \in Groups[g]}

\* Mutant: the transfer is not waited for.
InTimeNoTransfer(g, s) ==
  /\ s >= Earliest
  /\ \A d \in IncomingData(g) : s >= window[From[d]][2]

\* The earliest start of a co-allocation, as a condition on a start: after
\* the booking of every source and the transfer from there.
InTime(g, s) ==
  /\ s >= Earliest
  /\ \A d \in IncomingData(g) : s >= window[From[d]][2] + Transfer[d]

\* The deadline check: the earliest start and the duration of the ranked task.
DeadlineMissed(g) == ~ \E s \in 0 .. Deadline : InTime(g, s) /\ s + Duration[First[g]] <= Deadline

Idle == phase = "Idle"
GoTo(p, set) == phase' = p /\ todo' = set

-----------------------------------------------------------------------------
(* ADC::reserve for a workflow: HEFTSyncWorkflowScheduler::reserve.        *)

\* can_handel finds a component for every sub-reservation ...
Reserve ==
  /\ Idle /\ workflow = "Open"
  /\ GoTo("First", {})
  /\ group' = 1
  /\ database' = [t \in Tasks |-> None]
  /\ UNCHANGED <<store, refused, resTo, notCommitted, committed, components>>

\* ... or it does not.
ReserveInfeasible ==
  /\ Idle /\ workflow = "Open"
  /\ workflow' = "Rejected"
  /\ UNCHANGED <<state, window, segments, control, tracking, components>>

\* Mutant: reserve_without_check is forgotten.
BookUnseen(t, c, w) ==
  /\ SetState({t}, "ReserveAnswer")
  /\ window' = [window EXCEPT ![t] = w]
  /\ database' = [database EXCEPT ![t] = c]
  /\ resTo' = [resTo EXCEPT ![t] = c]
  /\ notCommitted' = [notCommitted EXCEPT ![t] = c]
  /\ held' = Add(held, c, t)
  /\ UNCHANGED <<workflow, segments, committed, running, view>>

\* A component that books t, the manager that notes it and enters it into its
\* copy of the schedule: the end of reserve_reservation_at_best_vrm_component
\* and of submit_task_at_first_grid_component.
Book(t, c, w) ==
  /\ SetState({t}, "ReserveAnswer")
  /\ window' = [window EXCEPT ![t] = w]
  /\ database' = [database EXCEPT ![t] = c]
  /\ resTo' = [resTo EXCEPT ![t] = c]
  /\ notCommitted' = [notCommitted EXCEPT ![t] = c]
  /\ held' = Add(held, c, t)
  /\ view' = Add(view, c, t)
  /\ UNCHANGED <<workflow, segments, committed, running>>

\* All components have been asked; manager.reserve leaves the last of them in
\* res_to_vrm_component.
NotBooked(t) ==
  /\ SetState({t}, "Rejected")
  /\ \E c \in Components \union {resTo[t]} : resTo' = [resTo EXCEPT ![t] = c]
  /\ UNCHANGED <<workflow, window, segments, database, notCommitted, committed, components>>

\* schedule_node_reservation_eft, at the first or the second attempt.  The end
\* of the interval asked for binds no component: once its window has moved on, a
\* late request is booked in the first slots there are.
BookFirst(c, w) ==
  /\ phase = "First" /\ group <= Len(Groups)
  /\ ~ DeadlineMissed(group)
  /\ InTime(group, w[1]) /\ w[1] < w[2]
  /\ Book(First[group], c, w)
  /\ GoTo("Members", Groups[group] \ {First[group]})
  /\ UNCHANGED <<group, refused>>

\* Mutants: the components are collected, not the tasks; the co-allocation
\* that failed is forgotten.
CancelComponents == GoTo("Cancel", {database[t] : t \in Tasks}) /\ UNCHANGED <<group, refused>>
CancelOthers ==
  /\ GoTo("Cancel", {t \in Tasks \ Groups[group] : database[t] # None})
  /\ UNCHANGED <<group, refused>>

Cancel == GoTo("Cancel", {t \in Tasks : database[t] # None}) /\ UNCHANGED <<group, refused>>

\* The deadline cannot be met any more.
TooLate ==
  /\ phase = "First" /\ group <= Len(Groups)
  /\ DeadlineMissed(group)
  /\ Cancel
  /\ UNCHANGED <<store, tracking, components>>

FirstFails ==
  /\ phase = "First" /\ group <= Len(Groups)
  /\ ~ DeadlineMissed(group)
  /\ NotBooked(First[group])
  /\ Cancel

\* The other members are given the interval of the first one.  They do not
\* start before it; to a late one its end means nothing either.
BookMember(t, c, w) ==
  /\ phase = "Members" /\ t \in todo
  /\ window[First[group]][1] <= w[1] /\ w[1] < w[2]
  /\ Book(t, c, w)
  /\ GoTo("Members", todo \ {t})
  /\ UNCHANGED <<group, refused>>

MemberFails(t) ==
  /\ phase = "Members" /\ t \in todo
  /\ NotBooked(t)
  /\ Cancel

Local(d) == d \in Empty \/ database[From[d]] = database[To[d]]

\* The links into a co-allocation whose other end has been booked.
Arriving(g) == {d \in Scheduled : To[d] \in Groups[g] /\ database[From[d]] # None}

\* schedule_dummy_dependency, and schedule_real_dependency between components
LinkState(d) == IF Local(d) THEN "Committed" ELSE "Open"

\* schedule_cross_rms_dependency: to the gateway, to the ADC, and on from there
ChainLength == 4

AddVirtuals(links) == [d \in Links |-> segments[d] + IF d \in links THEN ChainLength ELSE 0]

CascadeDelete(r) == [d \in Links |-> IF d = r THEN 0 ELSE segments[d]]

\* The links into the co-allocation: schedule_sync_dependencies of every
\* member, then schedule_data_dependencies.  A link without payload or inside
\* one component is a dummy; another one becomes a chain of virtual
\* reservations and is itself left Open.  Nothing can fail here.
RouteLinks ==
  /\ phase = "Members" /\ todo = {}
  /\ LET here == Arriving(group)
     IN /\ state' = [r \in Reservations |-> IF r \in here THEN LinkState(r) ELSE state[r]]
        /\ segments' = AddVirtuals({d \in here : ~ Local(d)})
  /\ GoTo("First", {})
  /\ group' = group + 1
  /\ UNCHANGED <<workflow, window, refused, tracking, components>>

\* register_workflow_subtasks panics if a booking has been lost meanwhile.
Answer ==
  /\ phase = "First" /\ group > Len(Groups)
  /\ IF \A t \in Tasks : database[t] # None =>
          state[t] \in {"ReserveAnswer", "Committed"} /\ notCommitted[t] # None
     THEN GoTo("Idle", {}) /\ workflow' = "ReserveAnswer"
     ELSE GoTo("Dead", {}) /\ UNCHANGED workflow
  /\ resTo' = [t \in Tasks \union Jobs |->
                 IF t \in Tasks /\ database[t] # None THEN database[t] ELSE resTo[t]]
  /\ UNCHANGED <<state, window, segments, group, refused, database, notCommitted,
                 committed, components>>

-----------------------------------------------------------------------------
(* delete_task_at_component, and what a whole reserve or deletion makes of it *)

Deletable(t) == resTo[t] # None /\ t \in held[resTo[t]]

DeleteAtComponent(t) ==
  /\ SetState({t}, IF Deletable(t) THEN "Deleted" ELSE "Rejected")
  /\ IF Deletable(t)
     THEN /\ held' = Drop(held, resTo[t], t)
          /\ view' = Drop(view, resTo[t], t)
          /\ resTo' = [resTo EXCEPT ![t] = None]
     ELSE UNCHANGED <<held, view, resTo>>
  /\ UNCHANGED <<window, database, notCommitted, committed, running>>

\* cancel_all_reservations; virtual reservations are looked for under the
\* tasks, where there are none.
CancelTask(t) ==
  /\ phase = "Cancel" /\ t \in todo
  /\ segments' = CascadeDelete(t)
  /\ DeleteAtComponent(t)
  /\ GoTo("Cancel", todo \ {t})
  /\ UNCHANGED <<workflow, group, refused>>

\* WorkflowScheduler::delete rejects all sub-reservations.
Rejected ==
  /\ phase = "Cancel" /\ todo = {}
  /\ GoTo("Idle", {})
  /\ workflow' = "Rejected"
  /\ SetState(Children, "Rejected")
  /\ database' = [t \in Tasks |-> None]
  /\ UNCHANGED <<window, segments, group, refused, resTo, notCommitted, committed, components>>

Delete ==
  /\ Idle /\ workflow \in {"Open", "ReserveAnswer", "Committed"}
  /\ GoTo("Delete", Tasks)
  /\ refused' = FALSE
  /\ UNCHANGED <<store, group, tracking, components>>

DeleteTask(t) ==
  /\ phase = "Delete" /\ t \in todo
  /\ DeleteAtComponent(t)
  /\ GoTo("Delete", todo \ {t})
  /\ refused' = (refused \/ ~ Deletable(t))
  /\ UNCHANGED <<workflow, segments, group>>

\* The links are sub-reservations too, and no component has them.
Deleted ==
  /\ phase = "Delete" /\ todo = {}
  /\ GoTo("Idle", {})
  /\ SetState(Links, "Rejected")
  /\ workflow' = IF refused \/ Links # {} THEN "Rejected" ELSE "Deleted"
  /\ UNCHANGED <<window, segments, group, refused, tracking, components>>

-----------------------------------------------------------------------------
(* ADC::commit *)

\* commit_at_component and update_commit_tracking
CommitAtComponent(t, c) ==
  /\ t \in held[c]
  /\ SetState({t}, "Committed")
  /\ held' = Drop(held, c, t)
  /\ running' = Add(running, c, t)
  /\ notCommitted' = [notCommitted EXCEPT ![t] = None]
  /\ committed' = [committed EXCEPT ![t] = c]
  /\ UNCHANGED <<workflow, window, segments, database, resTo, view>>

\* handle_commit_failure begins with the first of the reservations it was
\* given, rejects it, tries to delete it, and panics because no component has
\* it: it was handed to its resource manager before, or was lost.
CommitFailure(rejected) ==
  /\ SetState(rejected, "Rejected")
  /\ GoTo("Dead", {})
  /\ UNCHANGED <<workflow, window, segments, group, refused>>

\* The component forgets t and answers no.
CommitRefused(t, c, f) ==
  /\ t \in held[c]
  /\ held' = Drop(held, c, t)
  /\ view' = Drop(view, c, t)
  /\ CommitFailure({t, f})
  /\ UNCHANGED <<tracking, running>>

\* The component answers yes as soon as it has sent t on its way to SLURM,
\* and the ADC looks for the state Committed before SLURM has answered.
CommitUnconfirmed(t, c, f) ==
  /\ t \in held[c]
  /\ held' = Drop(held, c, t)
  /\ running' = Add(running, c, t)
  /\ notCommitted' = [notCommitted EXCEPT ![t] = None]
  /\ committed' = [committed EXCEPT ![t] = c]
  /\ CommitFailure({f})
  /\ UNCHANGED <<database, resTo, view>>

CommitFails(t, c, f) == CommitRefused(t, c, f) \/ CommitUnconfirmed(t, c, f)

Commit ==
  /\ Idle /\ workflow = "ReserveAnswer"
  /\ GoTo("Commit", Entry)
  /\ UNCHANGED <<store, group, refused, tracking, components>>

Waiting(t) == state[t] = "ReserveAnswer" /\ notCommitted[t] # None

CommitEntry(t) ==
  /\ phase = "Commit" /\ t \in todo
  /\ Waiting(t)
  /\ \/ /\ CommitAtComponent(t, notCommitted[t])
        /\ GoTo("Commit", todo \ {t})
        /\ UNCHANGED <<group, refused>>
     \/ \E f \in IF todo = Entry THEN {t} ELSE Entry \ todo : CommitFails(t, notCommitted[t], f)

\* An entry task in another state is only logged.
SkipEntry(t) ==
  /\ phase = "Commit" /\ t \in todo
  /\ state[t] # "ReserveAnswer"
  /\ GoTo("Commit", todo \ {t})
  /\ UNCHANGED <<store, group, refused, tracking, components>>

\* finalize_commit
Committed ==
  /\ phase = "Commit" /\ todo = {}
  /\ GoTo("Idle", {})
  /\ workflow' = "Committed"
  /\ UNCHANGED <<state, window, segments, group, refused, tracking, components>>

\* The VrmManager commits the other tasks one by one, as they get ready.
CommitTask(t) ==
  /\ Idle /\ workflow = "Committed"
  /\ Waiting(t)
  /\ \/ CommitAtComponent(t, notCommitted[t]) /\ UNCHANGED control
     \/ CommitFails(t, notCommitted[t], t)

-----------------------------------------------------------------------------
(* Atomic jobs: reserve_task_at_first_grid_component *)

\* manager.reserve has noted the reservation when update_reserve_tracking
\* notes it again, and the second note of a reservation is a panic.
JobBooked(j, c) ==
  /\ Idle /\ state[j] = "Open"
  /\ SetState({j}, "ReserveAnswer")
  /\ resTo' = [resTo EXCEPT ![j] = c]
  /\ notCommitted' = [notCommitted EXCEPT ![j] = c]
  /\ held' = Add(held, c, j)
  /\ GoTo("Dead", {})
  /\ UNCHANGED <<workflow, window, segments, group, refused, database, committed,
                 running, view>>

JobRejected(j) ==
  /\ Idle /\ state[j] = "Open"
  /\ NotBooked(j)
  /\ UNCHANGED control

-----------------------------------------------------------------------------
(* The components on their own *)

\* The window of a schedule has moved past t: at the component, or at the
\* component and in the ADC's copy.
Expire(t) ==
  \E c \in Holders(t) :
     /\ SetState({t}, "Deleted")
     /\ held' = Drop(held, c, t)
     /\ view' \in {view, Drop(view, c, t)}
     /\ UNCHANGED <<workflow, window, segments, control, tracking, running>>

Init ==
  /\ workflow = "Open"
  /\ state = [r \in Reservations |-> "Open"]
  /\ window = [t \in Tasks |-> <<0, 0>>]
  /\ segments = [d \in Links |-> 0]
  /\ phase = "Idle" /\ group = 1 /\ todo = {} /\ refused = FALSE
  /\ database = [t \in Tasks |-> None]
  /\ resTo = [t \in Tasks \union Jobs |-> None]
  /\ notCommitted = [t \in Tasks \union Jobs |-> None]
  /\ committed = [t \in Tasks \union Jobs |-> None]
  /\ held = [c \in Components |-> {}]
  /\ running = [c \in Components |-> {}]
  /\ view = [c \in Components |-> {}]

Intervals == (0 .. Horizon) \X (0 .. Horizon)

Next ==
  \/ Reserve \/ ReserveInfeasible \/ TooLate \/ FirstFails \/ RouteLinks \/ Answer
  \/ Rejected \/ Delete \/ Deleted \/ Commit \/ Committed
  \/ \E c \in Components, w \in Intervals :
        BookFirst(c, w) \/ \E t \in Tasks : BookMember(t, c, w)
  \/ \E t \in Tasks :
        \/ MemberFails(t) \/ CancelTask(t) \/ DeleteTask(t)
        \/ CommitEntry(t) \/ SkipEntry(t) \/ CommitTask(t)
  \/ \E j \in Jobs : JobRejected(j) \/ \E c \in Components : JobBooked(j, c)
  \/ \E t \in Tasks : Expire(t)

Spec == Init /\ [][Next]_vars

-----------------------------------------------------------------------------
(* Properties *)

Answered == workflow \in {"ReserveAnswer", "Committed"}

\* Whatever a component holds can be found and given back: the manager knows
\* where it is and that it may be committed, and counts it in its copy of the
\* schedule (reserve, delete_task_at_component, commit_at_component).
BookingsTracked ==
  \A t \in Tasks, c \in Components :
     t \in held[c] => resTo[t] = c /\ notCommitted[t] = c /\ t \in view[c]

\* No task starts before its data has arrived: the interval of its group was
\* chosen after the end of every source and the transfer from there, though
\* only the ranked member was given that interval (reserve of the scheduler).
PrecedenceKept ==
  Answered =>
    \A d \in Scheduled \ Sync : window[To[d]][1] >= window[From[d]][2] + Transfer[d]

\* A co-allocation is a set of tasks "that must be scheduled to run at the
\* exact same time", in "a time slot where all member nodes (e.g. A, B, and C)
\* can run simultaneously" (co_allocation.rs:11 and 16).
CoAllocated ==
  Answered =>
    \A g \in DOMAIN Groups : \E moment \in 0 .. Horizon :
       \A t \in Groups[g] : window[t][1] <= moment /\ moment < window[t][2]

\* A rejected workflow leaves no virtual reservation behind: "all four
\* segments must succeed or all are rolled back"
\* (heft_sync_workflow_scheduler.rs:585), "zero virtual reservations remain in
\* the store" (agent/specs/test_cases.md:244).
VirtualsRolledBack ==
  workflow = "Rejected" => \A d \in Links : segments[d] = 0

\* commit_at_component "returns true if the component successfully committed
\* the reservation" (scheduling.rs:223): what has been handed to a resource
\* manager is not a failed commit.
CommittedIsNoFailure ==
  \A t \in Tasks : phase = "Dead" /\ committed[t] # None => state[t] # "Rejected"

\* The ADC "handles Atomic Jobs by delegating them to the most suitable
\* VrmComponent" (adc/mod.rs:24): a job that is accepted does not kill it.
JobsAreServed ==
  \A j \in Jobs : state[j] = "ReserveAnswer" => phase # "Dead"

\* The scheduler and the manager keep the promise of an ADC: the answer to a
\* reserve stands for all tasks or for none, a commit starts the entry tasks,
\* and a deletion leaves no booking behind.
Promise == INSTANCE AtomicWorkflow
             WITH answer <- workflow,
                  booked <- IF workflow = "Open" THEN {} ELSE Booked,
                  started <- Started

AllOrNothing == Promise!Spec

=============================================================================
