------------------------------ MODULE SlurmRms ------------------------------
(***************************************************************************)
(* The Slurm adapter: the answers to commits and deletes and the periodic  *)
(* synchronisation run as tasks of their own.  They meet in the store (the *)
(* states), in the node schedule (what is booked) and in the task mapping, *)
(* each behind a lock of its own, while Slurm goes on by itself.           *)
(*                                                                         *)
(* The schedule answers a reserve either way and lets a booking expire at  *)
(* any time; what it really does is the subject of SlottedSchedule.        *)
(***************************************************************************)
EXTENDS Naturals, FiniteSets

CONSTANTS
    Reservations, \* reservations of the VRM
    Externals,    \* store keys for imported jobs: bounds the imports
    Jobs,         \* Slurm job ids: bounds the jobs
    Nodes,        \* compute nodes of the cluster
    Ends,         \* the ways a job may end by itself
    Local,        \* the owner of jobs submitted past the VRM
    NoJob         \* no Slurm job id

Ids == Reservations \union Externals

ASSUME IdsAssumption ==
    /\ Reservations \intersect Externals = {}
    /\ Local \notin Ids
    /\ NoJob \notin Jobs
    /\ Ends \subseteq {"COMPLETED", "CANCELLED", "FAILED"}

VARIABLES
    links,         \* the reservations that are link reservations
    state,         \* state of every id in the store, or "absent"
    booked,        \* ids that the node schedule holds
    taskMapping,   \* pairs <<id, job>>, a bijection
    request,       \* the submission of each reservation, at most one
    deletion,      \* the deletion of each reservation, at most one at a time
    jobState,      \* Slurm's view of the jobs
    jobOwner,      \* on whose behalf a job was submitted
    clusterNodes,  \* nodes that Slurm reports
    resourceNodes, \* nodes in the resource store
    sync           \* the synchronisation task

vars == <<links, state, booked, taskMapping, request, deletion, jobState, jobOwner,
          clusterNodes, resourceNodes, sync>>

nodes == <<links, clusterNodes, resourceNodes>>

cluster == <<jobState, jobOwner, nodes>>

Visible == {"live", "COMPLETED", "CANCELLED", "FAILED"}

JobState == Visible \union {"none", "purged"}

StoreState ==
    {"absent", "Open", "ReserveAnswer", "Committed", "Finished", "Deleted",
     "Rejected", "External"}

RequestPhase == {"idle", "sent", "abandoned", "accepted", "refused", "mapped", "done"}

DeletionPhase == {"idle", "sent", "answered", "unmapped", "released"}

SyncPhase == {"idle", "blocked", "fetched", "collected", "unmapped", "booking"}

SyncType ==
    [phase: SyncPhase, tasks: [Jobs -> JobState], finish: SUBSET (Ids \X Jobs),
     update: SUBSET (Ids \X {"Committed", "Finished", "Deleted", "Rejected"}),
     imports: SUBSET Jobs, current: Externals \union {Local}]

TypeOK ==
    /\ state \in [Ids -> StoreState]
    /\ booked \subseteq Ids
    /\ taskMapping \subseteq Ids \X Jobs
    /\ request \in [Reservations -> [phase: RequestPhase, job: Jobs \union {NoJob}]]
    /\ deletion \in [Reservations -> [phase: DeletionPhase, job: Jobs \union {NoJob}]]
    /\ jobState \in [Jobs -> JobState]
    /\ jobOwner \in [Jobs -> Reservations \union {Local}]
    /\ links \subseteq Reservations
    /\ clusterNodes \subseteq Nodes
    /\ resourceNodes \subseteq Nodes
    /\ sync \in SyncType

-----------------------------------------------------------------------------
(* The shared structures.                                                  *)

\* ReservationStore::update_state ignores an id that is not in the store.
SetState(id, new) ==
    state' = [state EXCEPT ![id] = IF @ = "absent" THEN @ ELSE new]

Idle == [phase |-> "idle", job |-> NoJob]

Ended == [phase |-> "done", job |-> NoJob]

\* BiMap::insert drops the pairs that share either side.
MapInsertLeft(id, j) == {p \in taskMapping : p[1] # id} \union {<<id, j>>}

MapInsert(id, j) ==
    {p \in taskMapping : p[1] # id /\ p[2] # j} \union {<<id, j>>}

MappedJobs == {p[2] : p \in taskMapping}

\* Schedule::delete_reservation: an unknown id is rejected, one that has
\* ended stays as it is, the others leave the schedule.
ScheduleDelete(r) ==
    \/ /\ r \notin booked
       /\ SetState(r, "Rejected")
       /\ UNCHANGED booked
    \/ /\ r \in booked
       /\ UNCHANGED <<state, booked>>
    \/ /\ r \in booked
       /\ SetState(r, "Deleted")
       /\ booked' = booked \ {r}

NoTasks == [j \in Jobs |-> "none"]

FromSlurmRaw(s) == s

\* ReservationState::from_slurm_task_state
FromSlurm(s) ==
    CASE s = "live"      -> "Committed"
      [] s = "COMPLETED" -> "Finished"
      [] s = "CANCELLED" -> "Deleted"
      [] s = "FAILED"    -> "Rejected"

-----------------------------------------------------------------------------
(* The caller.                                                             *)

Reserve(r) ==
    /\ state[r] = "Open"
    /\ \/ /\ SetState(r, "ReserveAnswer")
          /\ booked' = booked \union {r}
       \/ /\ SetState(r, "Rejected")
          /\ UNCHANGED booked
    /\ UNCHANGED <<taskMapping, request, deletion, cluster, sync>>

\* The window of the schedule moves past the booking.
Expire(id) ==
    /\ id \in booked
    /\ booked' = booked \ {id}
    /\ SetState(id, "Deleted")
    /\ UNCHANGED <<taskMapping, request, deletion, cluster, sync>>

\* The AcI commits a reservation in state ReserveAnswer, once.
Commit(r) ==
    /\ state[r] = "ReserveAnswer"
    /\ request[r].phase = "idle"
    /\ IF r \in links
       THEN /\ SetState(r, "Rejected")
            /\ request' = [request EXCEPT ![r] = Ended]
       ELSE /\ request' = [request EXCEPT ![r].phase = "sent"]
            /\ UNCHANGED state
    /\ UNCHANGED <<booked, taskMapping, deletion, cluster, sync>>

DeleteTask(r) ==
    /\ state[r] # "Open"
    /\ deletion[r].phase = "idle"
    /\ \/ /\ state[r] # "Committed"
          /\ ScheduleDelete(r)
          /\ UNCHANGED deletion
       \/ /\ state[r] = "Committed"
          /\ \A j \in Jobs : <<r, j>> \notin taskMapping
          /\ SetState(r, "Deleted")
          /\ UNCHANGED <<booked, deletion>>
       \/ /\ state[r] = "Committed"
          /\ \E j \in Jobs :
                /\ <<r, j>> \in taskMapping
                /\ deletion' = [deletion EXCEPT ![r] = [phase |-> "sent", job |-> j]]
          /\ UNCHANGED <<state, booked>>
    /\ UNCHANGED <<taskMapping, request, cluster, sync>>

-----------------------------------------------------------------------------
(* The task that commit spawns.                                            *)

CommitMapped(r) ==
    /\ request[r].phase = "accepted"
    /\ taskMapping' = MapInsert(r, request[r].job)
    /\ request' = [request EXCEPT ![r].phase = "mapped"]
    /\ UNCHANGED <<state, booked, deletion, cluster, sync>>

CommitDone(r) ==
    /\ request[r].phase = "mapped"
    /\ SetState(r, "Committed")
    /\ request' = [request EXCEPT ![r] = Ended]
    /\ UNCHANGED <<booked, taskMapping, deletion, cluster, sync>>

CommitRefused(r) ==
    /\ request[r].phase = "refused"
    /\ SetState(r, "Rejected")
    /\ request' = [request EXCEPT ![r] = Ended]
    /\ UNCHANGED <<booked, taskMapping, deletion, cluster, sync>>

\* A request that timed out may still reach Slurm.
AfterTimeout(phase) == [phase |-> IF phase = "sent" THEN "abandoned" ELSE "done", job |-> NoJob]

CommitTimeoutCommits(r) ==
    /\ request[r].phase \in {"sent", "accepted"}
    /\ SetState(r, "Committed")
    /\ request' = [request EXCEPT ![r] = AfterTimeout(@.phase)]
    /\ UNCHANGED <<booked, taskMapping, deletion, cluster, sync>>

CommitTimeoutLate(r) ==
    /\ request[r].phase = "accepted"
    /\ SetState(r, "Rejected")
    /\ request' = [request EXCEPT ![r] = AfterTimeout(@.phase)]
    /\ UNCHANGED <<booked, taskMapping, deletion, cluster, sync>>

CommitTimeout(r) ==
    /\ request[r].phase \in {"sent", "accepted"}
    /\ SetState(r, "Rejected")
    /\ request' = [request EXCEPT ![r] = AfterTimeout(@.phase)]
    /\ UNCHANGED <<booked, taskMapping, deletion, cluster, sync>>

-----------------------------------------------------------------------------
(* The task that delete_task spawns.                                       *)

\* The jobs are looked up on the wrong side of the mapping.
UnmappedLeft(jobs) == {p \in taskMapping : p[1] \notin jobs}

Unmapped(jobs) == {p \in taskMapping : p[2] \notin jobs}

DeleteUnmap(r) ==
    /\ deletion[r].phase = "answered"
    /\ taskMapping' = Unmapped({deletion[r].job})
    /\ deletion' = [deletion EXCEPT ![r].phase = "unmapped"]
    /\ UNCHANGED <<state, booked, request, cluster, sync>>

DeleteRelease(r) ==
    /\ deletion[r].phase = "unmapped"
    /\ ScheduleDelete(r)
    /\ deletion' = [deletion EXCEPT ![r].phase = "released"]
    /\ UNCHANGED <<taskMapping, request, cluster, sync>>

DeleteCheck(r) ==
    /\ deletion[r].phase = "released"
    /\ IF state[r] = "Deleted" THEN UNCHANGED state ELSE SetState(r, "Rejected")
    /\ deletion' = [deletion EXCEPT ![r] = Idle]
    /\ UNCHANGED <<booked, taskMapping, request, cluster, sync>>

\* The answer lists errors, cannot be parsed or takes too long; if the request
\* is served after that, the job ends as any other job may (JobEnds).
DeleteFailed(r) ==
    /\ deletion[r].phase \in {"sent", "answered"}
    /\ SetState(r, "Rejected")
    /\ deletion' = [deletion EXCEPT ![r] = Idle]
    /\ UNCHANGED <<booked, taskMapping, request, cluster, sync>>

-----------------------------------------------------------------------------
(* Slurm, its other users and its nodes.                                   *)

SubmitAccepted(r, j) ==
    /\ request[r].phase \in {"sent", "abandoned"}
    /\ jobState[j] = "none"
    /\ jobState' = [jobState EXCEPT ![j] = "live"]
    /\ jobOwner' = [jobOwner EXCEPT ![j] = r]
    /\ request' = [request EXCEPT ![r] =
          IF @.phase = "sent" THEN [phase |-> "accepted", job |-> j]
                              ELSE Ended]
    /\ UNCHANGED <<state, booked, taskMapping, deletion, nodes, sync>>

SubmitRefused(r) ==
    /\ request[r].phase \in {"sent", "abandoned"}
    /\ request' = [request EXCEPT ![r].phase = IF @ = "sent" THEN "refused" ELSE "done"]
    /\ UNCHANGED <<state, booked, taskMapping, deletion, cluster, sync>>

\* Only a live job can be cancelled.  The client looks for errors in the body
\* of the answer and not at its status: an HTTP error whose body lists none is
\* taken for a deletion, whatever became of the job.
DeleteServed(r) ==
    /\ deletion[r].phase = "sent"
    /\ \/ /\ jobState[deletion[r].job] = "live"
          /\ jobState' = [jobState EXCEPT ![deletion[r].job] = "CANCELLED"]
       \/ UNCHANGED jobState
    /\ deletion' = [deletion EXCEPT ![r].phase = "answered"]
    /\ UNCHANGED <<state, booked, taskMapping, request, jobOwner, nodes, sync>>

LocalSubmit(j) ==
    /\ jobState[j] = "none"
    /\ jobState' = [jobState EXCEPT ![j] = "live"]
    /\ UNCHANGED <<state, booked, taskMapping, request, deletion, jobOwner,
                   nodes, sync>>

JobEnds(j) ==
    /\ jobState[j] = "live"
    /\ \E end \in Ends :
          jobState' = [jobState EXCEPT ![j] = end]
    /\ UNCHANGED <<state, booked, taskMapping, request, deletion, jobOwner,
                   nodes, sync>>

\* Slurm forgets an ended job after a while.
Purge(j) ==
    /\ jobState[j] \in Visible \ {"live"}
    /\ jobState' = [jobState EXCEPT ![j] = "purged"]
    /\ UNCHANGED <<state, booked, taskMapping, request, deletion, jobOwner,
                   nodes, sync>>

\* One change of the node set bounds the model.
NodesChange ==
    /\ clusterNodes = resourceNodes
    /\ clusterNodes' \in (SUBSET Nodes) \ {clusterNodes}
    /\ UNCHANGED <<state, booked, taskMapping, request, deletion, jobState, jobOwner,
                   links, resourceNodes, sync>>

-----------------------------------------------------------------------------
(* The synchronisation: fetch, compare under the read lock of the mapping, *)
(* then apply the differences one lock at a time.                          *)

Listed(tasks) == {j \in Jobs : tasks[j] \in Visible}

ListedRunning(tasks) == {j \in Jobs : tasks[j] = "live"}

ActiveSlurmIds(tasks) == Listed(tasks)

\* update_nodes takes the write lock of the resource store inside its read
\* lock as soon as a node has to be added or removed, and never returns.
FetchTasks ==
    /\ sync.phase = "idle"
    /\ sync' = [sync EXCEPT !.phase = IF clusterNodes = resourceNodes THEN "fetched"
                                                                      ELSE "blocked",
                            !.tasks = jobState]
    /\ UNCHANGED <<state, booked, taskMapping, request, deletion, cluster>>

\* A job without exactly one job state is left for the next round.
CollectUpdates ==
    /\ sync.phase = "fetched"
    /\ \E clear \in SUBSET Listed(sync.tasks) :
          sync' = [sync EXCEPT
              !.phase = "collected",
              !.tasks = NoTasks,
              !.finish = {p \in taskMapping : p[2] \notin ActiveSlurmIds(sync.tasks)},
              !.update = {<<p[1], FromSlurm(sync.tasks[p[2]])>> :
                             p \in {q \in taskMapping :
                                       /\ q[2] \in clear
                                       /\ state[q[1]] # FromSlurm(sync.tasks[q[2]])}},
              !.imports = Listed(sync.tasks) \ MappedJobs]
    /\ UNCHANGED <<state, booked, taskMapping, request, deletion, cluster>>

UnmapForgotten ==
    /\ sync.phase = "collected"
    /\ sync' = [sync EXCEPT !.phase = "unmapped"]
    /\ UNCHANGED <<state, booked, taskMapping, request, deletion, cluster>>

UnmapFinished ==
    /\ sync.phase = "collected"
    /\ taskMapping' = Unmapped({p[2] : p \in sync.finish})
    /\ sync' = [sync EXCEPT !.phase = "unmapped"]
    /\ UNCHANGED <<state, booked, request, deletion, cluster>>

FinishTask ==
    /\ sync.phase = "unmapped"
    /\ \E p \in sync.finish :
          /\ SetState(p[1], "Finished")
          /\ sync' = [sync EXCEPT !.finish = @ \ {p}]
    /\ UNCHANGED <<booked, taskMapping, request, deletion, cluster>>

UpdateTask ==
    /\ sync.phase = "unmapped"
    /\ sync.finish = {}
    /\ \E p \in sync.update :
          /\ SetState(p[1], p[2])
          /\ sync' = [sync EXCEPT !.update = @ \ {p}]
    /\ UNCHANGED <<booked, taskMapping, request, deletion, cluster>>

\* An external job gets a new entry in the store and in the mapping ...
ImportTask(e) ==
    /\ sync.phase = "unmapped"
    /\ sync.finish = {}
    /\ sync.update = {}
    /\ state[e] = "absent"
    /\ e \notin {p[1] : p \in taskMapping}
    /\ state' = [state EXCEPT ![e] = "External"]
    /\ \E j \in sync.imports :
          /\ taskMapping' = MapInsert(e, j)
          /\ sync' = [sync EXCEPT !.phase = "booking", !.current = e, !.imports = @ \ {j}]
    /\ UNCHANGED <<booked, request, deletion, cluster>>

\* ... and is reserved in the schedule, or removed from the store again.
ReserveTask ==
    /\ sync.phase = "booking"
    /\ \/ /\ SetState(sync.current, "ReserveAnswer")
          /\ booked' = booked \union {sync.current}
       \/ /\ state' = [state EXCEPT ![sync.current] = "absent"]
          /\ UNCHANGED booked
    /\ sync' = [sync EXCEPT !.phase = "unmapped", !.current = Local]
    /\ UNCHANGED <<taskMapping, request, deletion, cluster>>

SyncDoneEarly ==
    /\ sync.phase = "unmapped"
    /\ sync.finish = {}
    /\ sync.update = {}
    /\ sync' = [sync EXCEPT !.phase = "idle"]
    /\ UNCHANGED <<state, booked, taskMapping, request, deletion, cluster>>

SyncDone ==
    /\ sync.phase = "unmapped"
    /\ sync.finish = {}
    /\ sync.update = {}
    /\ sync.imports = {}
    /\ sync' = [sync EXCEPT !.phase = "idle"]
    /\ UNCHANGED <<state, booked, taskMapping, request, deletion, cluster>>

-----------------------------------------------------------------------------
Init ==
    /\ state = [id \in Ids |-> IF id \in Reservations THEN "Open" ELSE "absent"]
    /\ booked = {}
    /\ taskMapping = {}
    /\ request = [r \in Reservations |-> Idle]
    /\ deletion = [r \in Reservations |-> Idle]
    /\ jobState = [j \in Jobs |-> "none"]
    /\ jobOwner = [j \in Jobs |-> Local]
    /\ links \in SUBSET Reservations
    /\ clusterNodes = Nodes
    /\ resourceNodes = Nodes
    /\ sync = [phase |-> "idle", tasks |-> NoTasks, finish |-> {},
               update |-> {}, imports |-> {}, current |-> Local]

Sync ==
    \/ FetchTasks \/ CollectUpdates \/ UnmapFinished \/ FinishTask \/ UpdateTask
    \/ \E e \in Externals : ImportTask(e)
    \/ ReserveTask \/ SyncDone

CommitTask(r) == CommitMapped(r) \/ CommitDone(r) \/ CommitRefused(r) \/ CommitTimeout(r)

DeletionTask(r) == DeleteUnmap(r) \/ DeleteRelease(r) \/ DeleteCheck(r) \/ DeleteFailed(r)

Slurm ==
    \/ \E r \in Reservations :
          SubmitRefused(r) \/ DeleteServed(r) \/ \E j \in Jobs : SubmitAccepted(r, j)
    \/ \E j \in Jobs : LocalSubmit(j) \/ JobEnds(j) \/ Purge(j)
    \/ NodesChange

Next ==
    \/ \E r \in Reservations :
          Reserve(r) \/ Commit(r) \/ DeleteTask(r) \/ CommitTask(r) \/ DeletionTask(r)
    \/ \E id \in Ids : Expire(id)
    \/ Slurm
    \/ Sync

Spec == Init /\ [][Next]_vars

\* The runtime keeps running the spawned tasks, timers fire, and a list
\* request of the synchronisation, which has no timeout, is answered some time.
Fairness ==
    /\ WF_vars(Sync)
    /\ \A r \in Reservations : WF_vars(CommitTask(r)) /\ WF_vars(DeletionTask(r))

FairSpec == Spec /\ Fairness

-----------------------------------------------------------------------------
(* Properties.                                                             *)

\* The task mapping is one-to-one, and a reservation of the VRM is only ever
\* mapped to the job submitted for it, whatever the synchronisation imports
\* between the acceptance of a job and the insert of its mapping.
MappingIsFaithful ==
    \A p, q \in taskMapping :
        /\ p[1] = q[1] <=> p[2] = q[2]
        /\ p[1] \in Reservations => jobOwner[p[2]] = p[1]

\* A reservation is Committed only if Slurm accepted a job for it: neither a
\* timeout nor a stale snapshot commits what Slurm never took.
CommittedWasAccepted ==
    \A r \in Reservations : state[r] = "Committed" => \E j \in Jobs : jobOwner[j] = r

\* Once the synchronisation knows a job submitted past the VRM, it keeps the
\* mapping as long as Slurm lists the job: the job is never taken for a new
\* one and booked a second time.
LocalStaysMapped ==
    [][\A p \in taskMapping :
          jobOwner[p[2]] = Local /\ jobState[p[2]] \in Visible => p \in taskMapping']_vars

\* A deletion that Slurm answered takes its reservation out of the mapping for
\* good: neither the answer to the commit, which may still be on its way to the
\* store, nor a synchronisation that began before the deletion maps it again
\* while the deletion is settled in the schedule and in the store.
UnmappedForGood ==
    \A r \in Reservations :
        deletion[r].phase \in {"unmapped", "released"} =>
            \A j \in Jobs : <<r, j>> \notin taskMapping

\* Every submission is answered: the reservation does not stay in flight.
CommitIsAnswered ==
    \A r \in Reservations : request[r].phase = "sent" ~> request[r].phase \in {"done", "abandoned"}

\* A job that has left Slurm's list leaves the mapping too: no reservation
\* goes on standing for a job that Slurm has forgotten.
PurgedIsUnmapped ==
    \A j \in Jobs : jobState[j] = "purged" ~> j \notin MappedJobs

\* Every job that Slurm lists is known to the VRM, or leaves the list.
ListedIsMapped ==
    \A j \in Jobs : jobState[j] \in Visible ~> (j \in MappedJobs \/ jobState[j] = "purged")

-----------------------------------------------------------------------------
(* What comments and the README say.                                       *)

\* base_rms.rs logs of a deletion that reached this point that the reservation
\* "was successfully deleted from the Rms system".
DeletedAtSlurm ==
    \A r \in Reservations :
        deletion[r].phase \in {"unmapped", "released"} => jobState[deletion[r].job] # "live"

\* README: no transitions are defined for Finished, Rejected and Deleted.
DeletedIsFinal ==
    [][\A r \in Reservations : state[r] = "Deleted" => state'[r] # "Committed"]_vars

\* slurm_base.rs: only "tasks deleted/finish by the RMS" become Finished.
FinishedHasEnded ==
    [][\A r \in Reservations :
          state[r] # "Finished" /\ state'[r] = "Finished" =>
              \A j \in Jobs : jobOwner[j] = r => jobState[j] # "live"]_vars

\* resource_store.rs: the update of the nodes keeps the resource view
\* "consistent": a lasting change of the nodes reaches the store.
NodesFollow ==
    \A up \in SUBSET Nodes :
        <>[](clusterNodes = up) => <>(resourceNodes = up)

=============================================================================
