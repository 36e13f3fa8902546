# Verification of VRM-Rust

VRM-Rust is a meta-scheduler for advance reservations. Clients submit tasks and
workflows; a hierarchy of components (ADC, AcI) finds a place for them in the
calendars of the attached resource managers (Slurm or simulated ones) and
commits them there. This directory holds TLA+ models of that code, the TLC
configurations that check them and proofs checked by TLAPS. Paths such as
`schedule_base.rs:125` refer to the files under `src/vrm`.

## 1. Inventory

| Part | State | Operations | Interacts with |
| --- | --- | --- | --- |
| Slotted schedule (`schedule/slotted_schedule`) | ring of slots (load, capacity, ids), window, active reservations | update, probe, reserve, delete, clear, update_capacity | reads and writes reservations in the store; called by an RMS under its lock |
| Link strategy, topology | a slotted schedule per link, k-shortest-path cache, chosen path of each reservation and slot | search the paths, reserve along a path | slotted schedules of links |
| Slurm RMS (`rms/slurm_rms`) | schedules, shadow schedules, map reservation - Slurm job | commit and delete (spawned requests with timeouts), synchronisation every 5 s | Slurm REST API, store, schedules |
| Simulated RMS (`rms/rms_simulator`) | schedules, shadow schedules | commit: Committed, then Finished | store, schedules |
| AcI (`vrm_component/aci.rs`) | not committed, committed, per shadow schedule: committed | probe, reserve, commit, delete, shadow create/commit/delete | one RMS, store |
| ADC and component manager | components, order, tracked reservations per component and shadow schedule | probe, reserve, commit, delete over several components, rollback | registry of actors, workflow scheduler |
| Workflow (`workflow/workflow.rs`) | tasks, data and sync dependencies, co-allocations and their graph, upward ranks | build from a DTO, rank | built by the client, ranked for the scheduler |
| Workflow scheduler (HEFT) | none of its own; task states in the store | reserve a workflow in rank order, roll back | component manager |
| VrmManager | open reservations | submission loop, waiting for the end of the life cycle | ADC, listener |
| Reservation store | slot map, name index, virtual reservations, listeners | add, remove, update_state, snapshot | everything |
| Probe answers | candidates of one reservation by component | add, merge, promote, demote | AcI, ADC, schedules |

Hard behaviours. Callers of a schedule are serialised by a lock, but they find
it at an arbitrary time, with bookings made before any number of slots have
left the window. The Slurm adapter runs commit answers, delete answers and the
synchronisation as concurrent tasks over the same three structures (store, task
map, calendar), each under its own lock, and Slurm itself is slow, fails and is
used by others. States of one reservation are written by the schedule, the AcI,
the RMS, the synchronisation and the manager, in no fixed order. Shadow
schedules are copies that are swapped in later.

Each part is listed in `PROJECT.json` with its sources, and each hazard with
the line where it bites and the properties that watch it.

## 2. The modules

From the submission of a workflow down to the links:

| Module | Stands for | What lies below it |
| --- | --- | --- |
| `VrmManager` | hierarchy, submissions, polls | the ADC, reduced to its answers |
| `WorkflowReserve` | ADC, component manager and HEFT scheduler around one workflow | the components, reduced to what they hold and may lose |
| `AtomicWorkflow` | what a submitter is promised; `WorkflowReserve` refines it | |
| `WorkflowGraph` | from the DTO to the ranked list that the scheduler works off | |
| `AcI` | one component with its shadow schedules | the RMS and its schedule, reduced to who is active |
| `SlurmRms` | the adapter to a real cluster | the calendar, left open |
| `SlottedSchedule` | the calendar of one resource | |
| `SlotCalendar` | what a schedule is to its callers, a calendar without an end; `SlottedSchedule` refines it | |
| `NetworkSchedule` | the calendar of the network, over one per link | the slots of `SlottedSchedule`, one time unit wide |

Each module leaves open what the one below it decides, so that it stays true
for everything the lower one can do: the manager for every answer of an ADC,
the scheduler for every choice among components and every loss of a booking,
the AcI and the adapter for every answer of a schedule. `WorkflowReserve`
assumes of the order of its groups (`RankedAssumption`) what `WorkflowGraph`
states and proves of the list (`RankedBeforeSuccessors`), namely that sources
come first.

For every module `M`, `MCM` gives the constants of the instance, and
`M_proofs`, where it exists, holds the theorems; `SumTheorems` holds facts about
sums, minima and finite sets that several proofs need. The configurations bear the
names of the runs. An operator whose comment begins with "Mutant" is a wrong
form of the definition after it; no specification uses it, and `PROJECT.json`
says which property notices it.

## 3. `SlottedSchedule`: the calendar of one resource

| Model | Code |
| --- | --- |
| `slots`, `start`, `active` | `slots`, `start_slot_index`, `active_reservations` of `SlottedScheduleContext`; the other fields of the window follow from `start` |
| `res` | what the schedule reads and writes of the `ReservationStore` |
| `clock` | `GlobalClock` |
| `rebooked` | nothing: it remembers which active reservations have been reserved once more |
| `SlidSlots`, `SlidActive`, `SlidRes`, `Slide` | `update`, with which every operation but `clear` and `update_capacity` begins |
| `Probe`, `ReserveFails`, `ReserveSucceeds` | `probe`, `reserve` with `calculate_schedule`, `try_fit_reservation`, moulding and the promotion of the best candidate |
| `DeleteUnknown`, `DeleteEnded`, `DeleteActive` | `delete_reservation` |
| `Clear`, `UpdateCapacity` | `clear`, `update_capacity` with the pruning of each slot |
| `Commit`, `Finish`, `Reopen` | what callers do to the state of a reservation between two operations |

Callers hold the write lock of the RMS, so an operation is one action; the
clock moves between any two. Sets of ids are HashSets, so the pruning of a slot
may remove its ids in any order, and all orders are explored. A search that
finds several candidates takes one with the earliest start.

Left out: the metrics; the temporary booking in `probe` (it is done only when
`is_frag_needed` is set, and it never is).

`reserve` takes a reservation in any state, as the code does. One that is active
already gets there by a second `AcI::commit` (`aci.rs:196`). If the search finds
nothing, it is answered with Rejected and keeps its slots. If it finds a place,
the insert into the new slots is followed by the insert into the active set,
which refuses an id it has, and the id is taken out of the slots just chosen
(`schedule_base.rs:169`), old bookings in them included. The search gives a rigid
reservation its old interval again, or one as long from the start of the window
on, so none of its slots is left (lemma `SecondSpan`). Such a reservation is
active, holds nothing and never expires. `rebooked` tells it from
the others until it is deleted, and the properties speak of `active \ rebooked`:
what the second reserve does to others, and that it leaves nothing behind, they
do cover. For the calendar it is a cancellation.

Runs. Slots of two seconds make starts and ends inside a slot, on its border
and across it possible; three slots are the smallest ring with a slot that is
neither first nor last, and the clock runs so far that every real slot is
reused. Two reservations are what competition for a slot needs.

| Run | Shows |
| --- | --- |
| `ScheduleRigid` | two rigid requests out of four shapes (one that fills its slots, one across a border, one without a booking interval, one that ends inside a slot), capacity 2, time 0 to 7: `TypeOK`, `LoadIsBooked`, `BookedExactly`; `SearchIsExact` compares the search, which tries slot starts only, with a definition that tries every second; `IsCalendar` is the refinement of `SlotCalendar` |
| `ScheduleMoldable` | moldable requests beside a rigid one, capacity 3 that a synchronisation may lower to 2: `NoOverbooking`, `DeadlineKept` |

`SlotCalendar` knows the first slot that can be booked (`today`) and what is
booked from which slot to which. `Calendar` maps the window start and the spans
of the active reservations that were reserved only once to it; slots, loads and the search disappear. It may
book only where every slot of the span has room, and an entry that nobody
cancels stays unchanged until its last slot is past: so `IsCalendar` says at
once that the reuse of ring slots never loses or moves a booking, that the
loads never admit one wrongly, that expiry is complete, and that what callers do
to the state of a reservation does not touch it. That none is refused wrongly is
what `SearchIsExact` says.

What is false because of `rebooked` is stated without the exception as
`ExpireOnTime` and `ReserveAnswerIsBooked` (section 6).

`BookedExactly`, `ExpiredAreDeleted` and `IsCalendar` are stated for rigid
reservations under a fixed capacity because the code keeps them only there;
`SearchIsExact` speaks of requests that are in time. Section 6 says what happens
otherwise.

Proved, for every ring size, slot width, capacity, set of reservations and set
of requests (`SlottedSchedule_proofs`):

| Theorem | Property | Assumed of the requests |
| --- | --- | --- |
| `ScheduleTyped` | `TypeOK` | nothing |
| `NothingLeaks` | `LoadIsBooked` | nothing |
| `IntervalIsKept` | `DeadlineKept` | nothing |
| `NeverOverbooked` | `NoOverbooking` | no negative capacity |
| `SearchIsComplete` | `SearchIsExact` | `Proper`: at least a unit and a second, no negative start; and `Simulated` |
| `RingIsCalendar` | `BookedExactly` | `Rigid`: at least a unit and a second, not moldable; and `Simulated` |
| `NothingExpiredIsActive` | `ExpiredAreDeleted` | the same |
| `ScheduleIsCalendar` | `IsCalendar` | the same |

`Simulated` says that nobody calls `update_capacity`, as under a simulated RMS;
the other theorems hold through every capacity change. How they hang together:

- `LoadIsBooked` is inductive with the types (`LoadInv`). A reservation enters
  and leaves the ids of a slot together with its capacity, which `SumTheorems`
  turns into a step of the sum; the store never changes a capacity of a
  reservation that is in a slot.
- `NoOverbooking` is not inductive alone: a delete gives back the capacity the
  reservation has now, so the invariant (`FitsInv`) adds that none is negative.
- `BookedExactly` needs (`CalendarInv`) that the interval of a reservation that
  is booked was chosen inside the window of the time and therefore in room
  that the search saw (`InsideWindow`), that a booked reservation asks for no
  interval but the one it has, so that a second reserve empties just its slots
  (`Pinned`, lemma `SecondSpan`), and that two slots of one window never share a
  real slot
  (`RingInjective`, `RingSurjective`, lemmas about division). That rests on a
  lemma about the search: a rigid candidate has room in all its slots, so none
  of the inserts is refused.
- The search is complete because a fitting second can be moved back to the start
  of its slot or of the booking interval, which the search does try.
- For the refinement (`ImplInv`: `CalendarInv`, `LoadInv` and slots of one
  capacity) the load of a slot is the sum over the bookings that cover it
  (`LoadInCalendar`), so room in the ring is room in the calendar
  (`ReserveBooks`), and the reservations that survive a slide are the bookings
  that are not past (`CurrentIs`); `CalendarStep` has one step per operation.

## 4. `SlurmRms`: tasks around a cluster

| Model | Code |
| --- | --- |
| `state` | reservation states in the store; ids that imports would get exist as `Externals` and are absent at first |
| `booked` | ids that the node schedule holds |
| `taskMapping` | the BiMap of reservation and Slurm job id |
| `request[r]`, `deletion[r]` | where the task spawned by `commit` or `delete_task` is: sent, answered by Slurm, mapping written, done |
| `jobState`, `jobOwner`, `clusterNodes` | Slurm itself |
| `resourceNodes` | nodes in the resource store |
| `sync` | the synchronisation task: what it fetched and what it still has to apply |
| `Commit`, `CommitMapped`, `CommitDone`, `CommitRefused`, `CommitTimeout` | `commit` and the task it spawns, one action between two locks |
| `DeleteTask`, `DeleteUnmap`, `DeleteRelease`, `DeleteCheck`, `DeleteFailed` | `delete_task` and its task |
| `FetchTasks` ... `SyncDone` | `perform_sync`, `update_reservations`, `update_schedule` |
| `SubmitAccepted`, `SubmitRefused`, `DeleteServed`, `LocalSubmit`, `JobEnds`, `Purge`, `NodesChange` | the client of the REST interface, and the cluster |

The tasks hold a lock for one access only, so an action ends where a lock is
released. A submission or a deletion whose answer comes too late may still be
served by Slurm: the abandoned request stays in the model. Slurm's list shows
running and recently ended jobs; a purged job has left it.

Abstractions: the calendar (what a reserve answers and when a booking expires
is left open); the insert of an imported job into
store and mapping is one action (nobody else knows the new id); nodes and jobs
are fetched in one step; the comparison of the fetched list with the mapping,
which holds the read lock of the mapping, also reads the states in that step.
A reservation is submitted once (the
AcI sees to it) and has one deletion in flight. Left out: the deletion on a
shadow schedule, `delete_all_tasks`.

The client looks at the HTTP status of a submission but not at that of a
deletion (`slurm_rest_api_client.rs:100`), and the task that deletes goes on for
every answer it could read, one that says "false" included (`base_rms.rs:143`).
So `DeleteServed` answers whether the job was cancelled or not, and only an
answer that cannot be read, or lists errors, or comes too late is a
`DeleteFailed`. A reservation is then unmapped and Deleted while its job may go
on running, and the next synchronisation imports the job as External. What the
code does keep is `UnmappedForGood`: it is not mapped again meanwhile, by the
answer to its commit or by an older list.

Bounds: one reservation, two jobs (one for the reservation and one submitted
past the VRM, or two of the latter), two store keys for imports, one node that
comes or goes. All hazards of the list are races between one reservation, its
job and one foreign job.

| Run | Shows |
| --- | --- |
| `SlurmTasks` | every interleaving keeps `TypeOK`, `MappingIsFaithful`, `CommittedWasAccepted`, `UnmappedForGood`, `LocalStaysMapped`; a job ends as COMPLETED or CANCELLED here to keep the run short, FAILED is treated by the same code path |
| `SlurmLive` | with one job and all ends: `CommitIsAnswered`, `PurgedIsUnmapped`, `ListedIsMapped` under fairness, with a stable node set |

Fairness: weak fairness of the synchronisation loop and of each spawned task.
The runtime polls spawned tasks, a submission and a deletion are under
`tokio::time::timeout`, and the loop sleeps with a timer. The two list requests
of the synchronisation have no timeout, so the fairness of `FetchTasks` assumes
that Slurm answers a list request, or fails it, at some time; a connection that
hangs stops the loop for good (a hazard in `PROJECT.json`). Nothing else is
assumed of Slurm: it may never answer a submission, end or purge a job.
`SlurmLive` has no node in the cluster, because a change of the node set stops
the synchronisation (section 6).

Proved, for all sets of reservations, imports, jobs and nodes
(`SlurmRms_proofs`): `AdapterTyped`, `MappingStaysFaithful`,
`CommitsAreAccepted`, `DeletedStaysUnmapped`, `LocalJobsStayMapped`, from
`IdsAssumption` alone (imports get fresh keys, the markers are no ids). The
invariant `IInv` adds to the properties what the tasks remember: `OwnerInv` (a
job has an owner before anybody can map it, and what a request or deletion
remembers of its job stays true), `CommitInv` (an update to Committed that the
synchronisation is about to apply concerns a reservation with a job),
`UnmapInv` (who is mapped has been mapped by its own commit, which is over for
good, and a deletion in flight concerns the job it is mapped to) and
`SyncInv` (a list may be old, but what is purged stays purged, and a job that
is to be imported is mapped by nobody else). Each part is there because without
it a step of another task between two locks breaks a property.
Only model-checked: the liveness properties.

## 5. `AcI`: one resource manager and its shadow schedules

| Model | Code |
| --- | --- |
| `schedules` | the master schedule of the RMS and its tables of shadow schedules, each as the set of its active reservations |
| `notCommitted`, `committed`, `shadowReservations` | the tables of `AcI` |
| `openShadows` | the names in the table of the component manager above |
| `state`, `ended` | the reservation in the store: its state, and whether its assigned end has passed |
| `panicked` | the actor thread has died in a panic |
| `Probe`, `Reserve`, `ReserveRejected`, `Commit`, `CommitDirectly`, `CommitRejected`, `Delete`, `DeleteRejected` | `probe`, `probe_best`, `reserve`, `commit`, `delete` with the RMS and the schedule below, one action per outcome |
| `CreateShadow`, `CommitShadow`, `DeleteShadow` | the three operations, from the manager down to the RMS |
| `End`, `Expire` | time, and the `update` of the window that every operation of a schedule begins with |
| `Promote`, `Reopen` | what callers do to a state between two calls (`prompt_best`; `demote` and the second attempt of the HEFT scheduler) |

The AcI is an actor that serves one message after the other, so a call is one
action; calls of several clients come in any order. `NodeOnly` chooses between
the simulator for nodes and the one for nodes and network, whose operations
differ in two places: the routing of a link reservation and the answer to the
deletion of a shadow schedule. The manager uses the name of a shadow schedule
only between its creation and its end, which is all that is assumed of it.

Abstractions. Whether a schedule has room is left open. `update` is an
operation of its own (the load queries do nothing else), taken before another
operation or not: an ended reservation stays active until its last slot has
left the window. A reservation that is reserved while it is active stays in
the set; what becomes of its slots is modelled in `SlottedSchedule`
(`rebooked`). The
containers are reduced to the ids they belong to, because nothing reads the
deadlines in them. Left out: `open_probe_reservations`, which is only written.

| Run | Shows |
| --- | --- |
| `AciShadows` | two reservations, a master and two shadow schedules over the node simulator: `TypeOK`, `ShadowsInSync`, `NeverPanics`, `PromiseIsTracked` |

Two shadow schedules let one be switched in while another is open; two
reservations let one be promised, committed and deleted around the other. Both
are feasible and neither is a link reservation in the run: an infeasible one
can only be rejected, and a link request at the node simulator kills the AcI
at once (see below). The theorems cover the rest.

Proved, for all sets of reservations and names (`AcI_proofs`): `TypeOK`
(`AcITyped`) and `PromiseIsTracked` (`PromisesAreTracked`) for both simulators
and with link reservations; `ShadowsInSync` (`ShadowsStayInSync`) for the node
simulator; `NeverPanics` (`AcISurvives`) for the node simulator without link
reservations. `PromiseIsTracked` needs `Deletable` beside it, since a delete
that panicked half-way would have forgotten a promise that stands;
`NeverPanics` needs `ShadowsInSync`, since every panic but the one about links
comes from a table that has a name too many or too few.

## 6. Where code and documents disagree

Found by runs, each with its counterexample:

1. `ManagerStuck`: a task whose predecessor has expired or failed for good is
   never committed, rejected or deleted, so the set of open reservations never becomes empty and
   `run_vrm` polls for ever (`vrm_manager.rs:196`).
2. `CommitRace`: over Slurm a component answers yes to a commit before Slurm
   has; the ADC, finding the state unchanged, takes this for a failure, rejects
   the task and panics when no component can delete it
   (`adc/vrm_component.rs:102`).
3. `NetworkLeak`: the schedules of the links keep the load of deleted
   reservations, because nothing calls `on_delete_reservation`
   (`slotted_schedule_context.rs:293`).

Stated in the modules and refuted by TLC when they are put into a
configuration; no run is kept for them:

| Statement | What happens |
| --- | --- |
| `SlottedSchedule!DeadlineGuaranteed` | a request whose latest start has passed is booked after its booking interval (`slotted_schedule_context.rs:410`; README.md:55 promises deadlines) |
| `SlottedSchedule!ReserveAnswerIsBooked` | a moulded booking may be refused by its slots and is answered with ReserveAnswer all the same (`probe_reservations.rs:158`); a second reserve of an active reservation frees its slots and is answered in the same way (`schedule_base.rs:169`) |
| `SlottedSchedule!ExpireOnTime` | what a second reserve has taken out of its slots is in none that leaves the window, and stays active for ever (`slotted_schedule_context.rs:212`, `schedule_base.rs:169`) |
| `SlottedSchedule!ExpiredAreDeleted` with `CapacityUpdates` | a reservation that `update_capacity` removed from its slots never expires (`slotted_schedule_context.rs:212`) |
| `SlurmRms!DeletedIsFinal` | a reservation deleted while its submission is in flight becomes Committed (`base_rms.rs:90`; README.md:76 calls Deleted terminal) |
| `SlurmRms!FinishedHasEnded` | a job mapped after the list was fetched is taken for finished (`slurm_base.rs:214`) and unmapped; if the answer to its commit then writes Committed over Finished, nobody updates the reservation any more |
| `SlurmRms!DeletedAtSlurm` | the status of the answer to a deletion is never looked at: a refused one is logged as "successfully deleted from the Rms system" (`slurm_rest_api_client.rs:100`, `base_rms.rs:143`) |
| `SlurmRms!NodesFollow` | a change of the node set blocks the synchronisation for ever: a write lock is taken inside the read lock of the same RwLock (`resource_store.rs:116`) |
| `AcI!ShadowsInSync` with `NodeOnly = FALSE` | the RMS with nodes and network answers that it could not delete the shadow schedule it has just deleted; the AcI keeps its entry, and the next creation of the name kills the actor (`rms_node_network_trait.rs:82`) |
| `WorkflowReserve!JobsAreServed` | an atomic job that is accepted is noted twice, and the second note panics (`tracking.rs:107`, `scheduling.rs:74`) |
| `WorkflowReserve!CoAllocated` | the members of a co-allocation are given the interval of the ranked one, but may start anywhere in it, and late ones after its end; `co_allocation.rs:11` has them run "at the exact same time" |
| `WorkflowReserve!VirtualsRolledBack` | the virtual reservations of a rejected workflow stay: they are looked for under the tasks, where there are none (`heft_sync_workflow_scheduler.rs:446`) |
| `VrmManager!DoneIsTerminal` | a task that was swept away as failed may be written Committed again by the synchronisation (`slurm_base.rs:269`), and the manager ends with "All reservations in the VRM system reached a terminal state" (`vrm_manager.rs:253`) |

Seen while modelling, in the order of the modules:

- Schedule. Expiry turns Finished into Deleted (README.md:76 calls both
  terminal) and a Finished reservation keeps its slots until then
  (README.md:77); `schedule_base.rs:125` says "Early Stop" for a negative
  capacity and goes on; `update_capacity` does not apply a capacity of 0 to a
  slot that cannot be emptied below it; `add_probe_reservations` mixes the
  metadata of the answers it adds (`probe_reservations.rs:74`).
- Slurm. A job of the VRM whose submission timed out is imported as External;
  a failed job that has left the list is reported as Finished.
- AcI. `tests/vrm/vrm_component/test_aci_commit.rs` expects Committed after a
  commit, where a simulated RMS goes on to Finished; a request on a shadow
  schedule writes the state of the live reservation, although
  `vrm_component_trait.rs:155` promises that live production is not affected; a
  reserve on an open shadow schedule is booked and then always rejected
  (`aci.rs:513`); a switch drops what was reserved after the creation of the
  shadow schedule from the calendar, while its state stays ReserveAnswer; a
  second commit reserves and commits again (`aci.rs:196`); the node simulator
  says it can handle link reservations (`rms_node_simulator.rs:188`) and panics
  when it gets one; the two deadlines of a container are swapped in
  `AcI::reserve` (`aci.rs:503`) and never read.
- ADC and scheduler. Any failed commit at a component kills the ADC
  (`scheduling.rs:244`); the link of a dependency between two RMS stays Open
  after a success; data dependencies inside one co-allocation are never
  scheduled;
  deleting a workflow that has a link answers Rejected, never Deleted, and so
  does a submission that asks for a deletion; tasks that run are marked
  Rejected when their workflow is rolled back; entries of
  `res_to_vrm_component` outlive a failed reserve.
- Workflow. A second reader of a port only gets a warning in the log
  (`workflow.rs:324`); co-allocations on a cycle push each other for ever, and a
  workflow without an entry is reserved with nothing booked; a workflow whose
  tasks are all joined by streams has neither entry nor exit tasks and is
  Finished without anything having run; `get_sorted_res_ids_with_arrival_time`
  does not sort.
- Manager. An exit task that finished and then expired turns its workflow from
  Finished to Rejected; if an exit task is the target of a stream, the workflow
  is Finished although the source of the stream may have expired; tasks after
  the entry tasks are committed only when the last workflow has been submitted;
  the listener of the manager is installed on a copy that is dropped
  (`vrm_manager.rs:50`).
- Network. The windows of the links never move, so nothing fits once the clock
  has passed the ring; a rigid request fits only where the best path has exactly
  its capacity left (`link_strategy.rs:43`); a moldable request that the search
  shrank is booked with its full capacity, and slots without a path for it are
  only logged.
- Store. `update_state` documents one lock acquisition and takes several, so two
  notifications can be reordered; `is_res_commit_ready` takes a read lock inside
  a read lock.

## 7. `WorkflowGraph`: from a DTO to the ranked list

| Model | Code |
| --- | --- |
| `dangling`, `inputs`, `data`, `sync` | the ports not yet matched, and the two kinds of dependencies, in `create_form_dto` |
| `rep`, `todo` | the union-find structure, and the sync dependencies still to be merged |
| `gdur` | duration of each co-allocation |
| `queue`, `finished`, `rank`, `pathLen`, `ranked` | stack, processed nodes and result of `calculate_upward_rank` |
| `ConnectInput`, `AddImplicit` | ports to dependencies, and dependencies given by task name |
| `Merge`, `Panic`, `BuildGroups` | `build_co_allocations` and its panic at a stream from an unknown task |
| `PopProcessed`, `PushSuccessors`, `FinishTop`, `SortByRank` | the branches of the loop of the ranking, and the sort |

Nothing runs concurrently here. What varies is the order of hash maps (unions,
entry groups, successors) and the root that a union keeps: every order is a
choice of the model. Left out: the downward rank (no scheduler uses it) and the
serialisation.

Run `WorkflowRank`: all workflows of four tasks with a choice of four data
dependencies and two streams, ports with up to two readers, a stream from a task
that does not exist, and three vectors of durations, one with zeros. Four tasks
are what a co-allocation of three beside another task needs, and what a cycle
between co-allocations needs that is none between tasks. `MaxStack` bounds the
stack, which such a cycle lets grow for ever; no acyclic instance reaches it,
or `RankTerminates` would fail. The run does not check for deadlock because a
workflow ends when it is ranked, and the cyclic ones stop at the bound.
It checks `CoAllocationsAreComponents`, `RankIsLongestPath`,
`RankedBeforeSuccessors`, `EveryGroupRanked` and, under weak fairness (the code
is a loop in one thread), `RankTerminates`.

Proved, for all tasks, workflows and speeds, without further hypotheses
(`WorkflowGraph_proofs`): `TypeOK` (`TypeCorrect`); that a ranked group has only
ranked successors and outranks each of them (`RanksDominate`); from this, if
every task takes time, that predecessors stand first in the list
(`PredecessorsFirst`); that the unions leave exactly the components of the
sync dependencies (`GroupsAreComponents`); that a rank is the length of the
longest path from its group (`RanksAreLongestPaths`); and that the list has
every group once unless the groups have a cycle, which is never ranked to the
end when it can be reached from an entry (`ListIsComplete`).
`RankDominates` is inductive with the types, because a rank is written once.
`PredecessorsFirst` adds that the list is sorted, and excludes durations of zero
because two equal ranks stand in the order in which they were processed,
successors first. The last two need an invariant of the walk (`WalkInv`): every
entry is on the stack or finished (`EntriesSeen`), a group is finished once
(`FinishedOnce`) and after its successors (`SuccessorsEarlier`), its rank is its
duration or what the rule yields for one of its dependencies (`RankAttained`),
and the list is the finished groups in another order (`ListComplete`).
`GroupsAreComponents` is an invariant between merges: representatives and the
dependencies still to be merged have together the components of all of them
(`Merged`).
Only model-checked: `RankTerminates`, a liveness property.

## 8. `WorkflowReserve`: an ADC and one workflow

| Model | Code |
| --- | --- |
| `workflow`, `state`, `window`, `segments` | the store: states, assigned intervals, virtual reservations of each link |
| `database` | `grid_component_res_database` of a running reserve |
| `resTo`, `notCommitted`, `committed` | the tracking tables of the component manager |
| `held`, `running`, `view` | what a component has booked, what it has committed, and the ADC's copy of its schedule |
| `phase`, `group`, `todo`, `refused` | where the call is |
| `Reserve`, `BookFirst`, `BookMember`, `RouteLinks`, `Answer` | `HEFTSyncWorkflowScheduler::reserve`: one co-allocation after the other, its ranked task first, then the members, then the links; at last `register_workflow_subtasks` |
| `TooLate`, `FirstFails`, `MemberFails`, `CancelTask`, `Rejected` | the ways a reserve fails, and `cancel_all_reservations` |
| `Delete`, `DeleteTask`, `Deleted` | the deletion of a workflow |
| `Commit`, `CommitEntry`, `SkipEntry`, `Committed`, `CommitTask`, `CommitFails` | `ADC::commit`, `commit_at_component`, `handle_commit_failure` |
| `JobBooked`, `JobRejected` | atomic jobs |
| `Expire` | a component whose schedule has moved past a booking |

The ADC is an actor and serves one call at a time, so its own calls do not
interleave. But each call consists of calls to components, and a component may
expire a booking between any two of them: an action is what happens from one
such call to the next. `phase = "Dead"` is a panic of the actor.

Abstractions. Probes and the order of the components only decide which of them
books: any may. A component books a task anywhere from the start it was asked
for on: the end of the interval binds it only while its window has not moved on
(`slotted_schedule_context.rs:410`). Nothing reads the
times of links, and routing them cannot fail, so it is one action. The members
of a co-allocation are taken in any order. A booking that has ended and is
deleted before the window moves is the expiry followed by a deletion. The ADC's
copy of a schedule does not expire a booking before the component does. Left
out: shadow schedules of the manager and `optimize_schedule` (no callers).

Run `WorkflowBooking`: two tasks joined by a stream deliver data to a third; one
link has no payload, one needs a transfer; two components; the deadline of 4
leaves at most one unit to spare, and bookings may end one unit after it
(`Horizon`). So a transfer between components and one inside a
component, a deadline missed, a rollback in the middle of a co-allocation and a
lost booking at every point all occur; an atomic job takes its way through the
manager beside the workflow. It checks `BookingsTracked`,
`PrecedenceKept` and `AllOrNothing`: with the state of the
workflow as `answer` and the tasks that are held and running as `booked` and
`started`, every behaviour is one of `AtomicWorkflow`. No deadlock is checked:
a workflow that was rejected, or an ADC that died, is the end.
`CommitRace` has the same instance and finds the disagreement 2.

Proved, for every workflow, every ranked list that satisfies `RankedAssumption`
and every set of components (`WorkflowReserve_proofs`): `ReserveTyped`,
`BookingsCanBeFound`, `DataArrivesInTime`, and the
refinement `PromiseIsKept`. The inductive invariant adds three parts to the
types. `Course` ties the phase to the state of the workflow. `Bookings` says
that in a running reserve a task has been placed exactly when the database has
it, and then is held by just that component or expired, that nothing else is
held, and that tracking tables and copy agree with it: without it a rollback
that is asked to cancel what the database holds might leave something.
`Timed` says of the groups already placed what `PrecedenceKept` says at the
end, and that no member starts before the ranked one; it is inductive because an interval is written
once in a reserve and sources come earlier in the list. Nothing of this module
is left to TLC alone. A member has no upper bound, so `CoAllocated` is no theorem
(section 6).

## 9. `VrmManager`: hierarchy, submissions and polls

| Model | Code |
| --- | --- |
| `children`, `spawned`, `Spawn`, `NotBuilt`, `Built` | `init_vrm_system` |
| `queue`, `proceeding`, `Pass`, `ReserveOnly`, `ReserveToCommit`, `CommitEntries`, `DeleteUnknown` | `process_reservation` for each workflow, by what the client wants |
| `open`, `Close` | `open_reservations`, `close_open_links` |
| `StartPass`, `VisitTask`, `CommitTask`, `VisitWorkflow`, `CheckExit`, `Conclude`, `Sweep`, `Finish` | a pass of the loop of `run_vrm` over a copy of the set, down to each exit task that is read |
| `booked`, `started`, `Expire` | the schedules below, and which tasks have been handed to a resource manager |
| `done`, `Complete`, `Fail`, `Relist` | `update_reservations` of the Slurm adapter, which writes what Slurm lists over whatever the store has, at any time; `done` are the tasks it has reported as Finished |
| `AdcDies` | a panic of the ADC: the reply channel closes, and the `expect` of its proxy panics in the manager |

The call of the ADC is one action with the answers that `WorkflowReserve`
explains; arrival times and sleeps only delay a step; two reads of one exit
state right after each other are one.

A resource manager may report a task failed or cancelled (`Failures`), running
again after that, and finished at last; only Finished is taken as final, because
a job that has ended leaves the list. The adapter also reports Finished when a
failed job leaves the list between two synchronisations, so "has run" below means
"was reported as Finished". The one way known to break even that, an answer to a
commit that is written over Finished, is in section 6 (`FinishedHasEnded`) and
left out here.

Run `ManagerPolls`: every hierarchy of two ADCs over one AcI that has a missing
child or a cycle, and one that can be built; two workflows, one with a data
dependency, a link and two exit tasks, the other with every wish a client may
have. Either the first is committed or the second does what its client wants:
two committed workflows at once are too many states to check in the time of a
run, and the theorems below cover them for the invariants. A state can change
between the reads of the two exit tasks, and a task can end and reopen between
its visit and the sweep. Checked: `HierarchyIsSound`, `FinishedMeansRun`,
`WaitingIsPolled`, and under fairness `AllFinish` and `FailureReported`. No
deadlock is checked: the manager comes to its end. `ManagerStuck` finds the
disagreement 1.

That every open task stays polled is not true, and not stated: a task swept away
as failed can be reopened by its resource manager, and nobody polls it
(`DoneIsTerminal` in section 6). `WaitingIsPolled` says what matters to the
task: as long as it needs the manager, it is polled.

Fairness: weak fairness of the manager, whose thread runs without waiting for
anything but the ADC (where that fails there is `AdcDies`), and of the
completion of each task that is Committed: no job runs for ever, but a failure
may stand. Nothing is assumed of expiry, which needs a caller of the schedule.
`AllFinish` assumes that nothing is lost, in its statement, and
`FailureReported` holds unless the failure is taken back.

Proved, for all workflows, hierarchies and wishes (`VrmManager_proofs`):
`ManagerTyped`, `FinishedHasRun`, `NothingWaitingIsForgotten`,
`HierarchiesAreSound`. `FinishedMeansRun` needs `Judged` beside it: in the middle
of a judgement the exit tasks already read have run, though their states may
have changed since. `WaitingIsPolled` needs `EndedIsOver`: what a pass has put
down for removal stays ended until the sweep, unless a resource manager may
still write to it, and then it does not need the manager. `HierarchyIsSound`
needs `BuiltOnBuilt`: among the ADCs of any set that have been built one was
built before the others. Only model-checked: the liveness.

## 10. `NetworkSchedule`: bandwidth along paths

| Model | Code |
| --- | --- |
| `pairs`, `pair`, `queue`, `found`, `pathCache`, `maxBandwidth` | `calc_all_paths`, `calc_k_shortest_paths` and the cache of `NetworkTopology` |
| `Begin`, `PathFound`, `Extend`, `Cache` | the breadth-first search, over sets in any order |
| `start`, `active`, `held` | the network's own slotted schedule |
| `carried`, `reservedPaths` | the schedules of the links, and the path that each slot took |
| `Available`, `Free`, `ChosenPath` | `adjust_requirement_to_slot_capacity` and `insert_reservation_into_slot` of `LinkStrategy` |
| `CanHandle` | `can_handle_link_request` |
| `Reserve`, `ReserveFails`, `Infeasible`, `Delete`, `DeleteUnknown`, `Update` | the operations of the schedule under its lock |

The unit of time is the slot (`SlottedSchedule` is about seconds and slots), and
the slots are not reused here: the clock is bounded instead. Links from a
router to itself and requests of no capacity are excluded by the assumptions;
`probe` and `clear` have no caller for a network and are left out.

A reservation that is active may be reserved again, as in section 3: it is then
taken out of the slots of the network, while the links go on carrying what they
were given, and `rebooked` remembers it. `RigidIsRouted` speaks of the others,
and `HeldIsBooked` says that nothing of it stays in the network's slots. A
moldable one may be moved to a shorter interval that way and leave slots behind,
so `HeldIsBooked` is about rigid ones.

Run `NetworkRouting`: four routers and six links with three ways from one access
point to the other, which share their first link of capacity 3 and lead on over
links of 2; the cache keeps two. Three reservations out of four kinds:
rigid over two slots, rigid for the rest of a path, moldable (which shrinks where
others leave too little), and one to a router that is not there. Three slots and a clock to 2 let
bookings expire and be deleted while others are routed around them. Checked:
`KShortest`, which compares the search with a definition by all simple paths;
`NoLinkOverbooked`; `RigidIsRouted`; `HeldIsBooked`. The reservations are symmetric (nothing
distinguishes them but their requests). No deadlock is checked: time ends at
the bound. `NetworkLeak` finds the disagreement 3.

Proved, for every topology of finitely many routers and links, all bandwidths
and all requests (`NetworkSchedule_proofs`), without further hypotheses:
`TypeOK` (`NetworkTyped`), `KShortest` (`ShortestPathsCached`),
`NoLinkOverbooked` (`LinksNotOverbooked`), `RigidIsRouted`
(`RigidReservationsRouted`), `HeldIsBooked` (`NothingStaleIsHeld`).

- The search (`SearchInv`). The queue holds simple paths from the source and
  the results are ways between the ends (`Grown`); none is found twice and none
  in the queue leads to another (`Apart`); what is found is no longer than what
  waits, and the lengths in the queue differ by one at most (`ShortestFirst`);
  and every way is found or has a prefix in the queue (`NoneMissed`). When the search ends, the paths found are therefore shortest ones, and all of
  them if they are fewer than the cache keeps.
- The bookings (`BookInv`). The interval of an active rigid reservation is as
  long as its request (`Exact`), so a second reserve finds the same interval;
  what a link carries in a slot fits its capacity (`CarriedFits`); a rigid one is
  routed in all its slots still to come (`RigidIsRouted`), and no slot holds one
  that is not booked there (`HeldIsBooked`). In the step of `Reserve`, each slot takes the first cached
  path whose links are all free in it, so no link gets more than it had left.

## 11. What is proved and what is not

Every theorem is checked for all values of the constants, under the named
assumptions of its module. Every invariant and action property of a passing run
is stated by a theorem; what only the runs check is liveness under fairness,
which the prover does not reach: `CommitIsAnswered`, `PurgedIsUnmapped`,
`ListedIsMapped`, `RankTerminates`, `AllFinish`, `FailureReported`. These rest on
the bounds of their runs.

Sums over sets, longest paths and connected components are proved without
induction schemes: a smallest counterexample is taken, which the
well-foundedness of < and of strict inclusion on finite sets provide
(`SumTheorems`).

Hypotheses of theorems, beyond the assumptions of the modules; each is a
condition on the environment that the code does not enforce, and under each the
section of the module or section 6 says what happens without it:

| Hypothesis | Theorems |
| --- | --- |
| no request has a negative capacity | `NeverOverbooked` |
| nobody changes the capacity; requests are for at least a unit and a second and do not start before the epoch | `SearchIsComplete` |
| nobody changes the capacity; requests are rigid, for at least a unit and a second | `RingIsCalendar`, `NothingExpiredIsActive`, `ScheduleIsCalendar` |
| the RMS is the one with nodes only (`NodeOnly`) | `ShadowsStayInSync`, `AcISurvives` |
| no link reservations | `AcISurvives` |

## 12. Not modelled

`PROJECT.json` lists every part with its status.

- Metrics: fragmentation, load buffer, statistics. Floating-point numbers that
  nothing decides on.
- The values in the answers to probes and the comparators that order
  components: they decide which component books, which every module that uses
  components leaves open.
- Keys, name index, snapshots and listeners of the store. The modules use the
  store as a map of states; the one listener of the program sits on a copy that
  is dropped.
- Shadow schedules of the component manager and `optimize_schedule`: no caller.
- The reservation sync gate: nobody uses it.
- The network simulator alone, `delete_all_tasks` of the adapter and deletions
  on its shadow schedules.
- Client, configuration, loader, DTO schema and logging: no protocol of their
  own.

What could follow: `SlurmRms` over `SlotCalendar`, so that its hazard about slots
that are not released can be stated; `IsCalendar` for moldable reservations,
with a booking that may have holes where slots refused it.
